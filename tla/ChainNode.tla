----------------------------- MODULE ChainNode -----------------------------
(***************************************************************************)
(* One node of the VIT chain: the blocks it stores, the wallets and the    *)
(* chain accounts the blocks move, the memory of its gossip handler and    *)
(* its mempool.                                                            *)
(*                                                                         *)
(* Every connection is a coroutine with a database session of its own, so  *)
(* several calls of VITChain.add_block may be under way at once (Tasks).   *)
(* A session reads what is committed and what it wrote itself; the rows it *)
(* has flushed stay locked until it commits, and it writes back the        *)
(* balances it computed from what it read.                                 *)
(*                                                                         *)
(* The blocks are those consensus has certified, one per height, so block  *)
(* h is chain[h + 1] and is named by its height.  The peers are the        *)
(* environment: they send any certified block at any time, late, twice or  *)
(* out of order.  What a block carries is not checked by add_block beyond  *)
(* the balance and the nonce of a sender: amounts, fees and rewards are    *)
(* any integers here.                                                      *)
(*                                                                         *)
(* The wallets are those of the application, which had balances before the *)
(* first block and goes on changing them (app).                            *)
(***************************************************************************)
EXTENDS Integers, Sequences, FiniteSets, SequencesExt

CONSTANTS
    Addresses,      \* addresses of senders, recipients and validators
    NoWallet,       \* the value of an address that no wallet belongs to
    Registered,     \* the addresses that have a wallet before the first block
    Opening,        \* what the application had put into each of those wallets
    Amounts,        \* by how much the application may change a balance
    Workloads,      \* the certified chains of the instance, each with the kinds
                    \* of messages that arrive; one is picked
    Transactions,   \* transactions the peers gossip: [id, block], see Pending
    Tasks,          \* the coroutines that may run add_block at once
    MempoolSize,    \* Mempool.max_size
    SeenSize,       \* GossipHandler.SEEN_CACHE_SIZE
    MaxRows,        \* bound: rows of the chain table
    MaxMoves,       \* bound: changes of a balance by the application
    MaxFaults       \* bound: failed statements, failed commits and restarts

ASSUME Bounds ==
    /\ MempoolSize \in Nat \ {0} /\ SeenSize \in Nat \ {0}
    /\ MaxRows \in Nat /\ MaxMoves \in Nat /\ MaxFaults \in Nat
    /\ Registered \subseteq Addresses
    /\ Opening \in [Registered -> Nat] /\ Amounts \subseteq Int

Wallet == [bal : Int, nonce : Int]

Tx == [from : Addresses, to : Addresses, amount : Int, fee : Int,
       nonce : Nat, mint : BOOLEAN]

Block == [txs : Seq(Tx), validator : Addresses, reward : Int, fees : Int]

Kinds == {"gossip", "batch", "local", "tx", "app"}

ASSUME Certified ==
    /\ Workloads \subseteq [chain : Seq(Block), arrives : SUBSET Kinds]
    /\ NoWallet \notin Wallet

(* Coins are minted by the transactions of block 0, from the zero address,  *)
(* which nobody has a wallet for, to other addresses.                      *)
MintsAtGenesis(c) ==
    \A h \in 1 .. Len(c) : \A i \in 1 .. Len(c[h].txs) : c[h].txs[i].mint =>
        /\ h = 1 /\ c[h].txs[i].from \notin Registered
        /\ \A j \in 1 .. Len(c[h].txs) :
             c[h].txs[j].mint => c[h].txs[j].to # c[h].txs[i].from

ASSUME Genesis == \A load \in Workloads : MintsAtGenesis(load.chain)

VARIABLES
    chain,      \* the certified chain and
    arrives,    \* the messages of the behaviour; no action changes them
    rows,       \* the committed IoTEvent rows, in the order of their ids
    index,      \* the heights of the committed ChainBlock rows
    wallet,     \* the committed wallets
    account,    \* the committed ChainAccount rows
    task,       \* the coroutines
    seen,       \* the ids the gossip handler remembers, oldest first
    mempool,    \* the pending transactions
    expired,    \* the transactions older than the pool's tx_ttl
    raced,      \* history: a block was committed on a tip already replaced
    app,        \* history: what the application has put into each wallet
                \* (given), in how many changes (moves), and the wallets it
                \* changed while a session was about to write back a balance
                \* read before (crossed)
    faults

store == <<rows, index, wallet, account>>
memory == <<seen, mempool>>
vars == <<chain, arrives, store, task, memory, expired, raced, app, faults>>

Heights == 0 .. Len(chain) - 1
BlockAt(h) == chain[h + 1]

----------------------------------------------------------------------------
(* What add_block does to balances                                         *)

Empty == [bal |-> 0, nonce |-> 0]
Reward(b) == b.reward + b.fees

Credit(w, a, n) == [w EXCEPT ![a].bal = @ + n]

(* A sender loses amount and fee and uses up a nonce; the recipient gains. *)
Move(w, tx) ==
    Credit([w EXCEPT ![tx.from] = [bal |-> @.bal - tx.amount - tx.fee,
                                   nonce |-> tx.nonce + 1]],
           tx.to, tx.amount)

(* The whole effect of a block on the chain accounts: no balance or nonce  *)
(* is checked, and the validator is always paid.                           *)
IndexBlock(acc, b) ==
    Credit(FoldLeft(Move, acc, b.txs), b.validator, Reward(b))

----------------------------------------------------------------------------
(* Sessions                                                                *)

(* What a session has written and not committed.  dirty: changed in Python *)
(* and not flushed yet.  The others of own are locked in the database.     *)
Nothing == [wallet |-> [a \in Addresses |-> NoWallet], own |-> {},
            dirty |-> {}, rows |-> <<>>, index |-> {},
            account |-> [a \in Addresses |-> Empty]]

Idle == [pc |-> "idle", kind |-> "none", todo |-> <<>>, tx |-> 1,
         sender |-> NoWallet, base |-> 0, mine |-> Nothing, save |-> Nothing]

Locked(t) == (task[t].mine.own \ task[t].mine.dirty) \cup task[t].save.own

(* A flush has to wait for the rows that another session holds.            *)
CanFlush(t) ==
    \A u \in Tasks \ {t} : Locked(u) \cap task[t].mine.dirty = {}

Flushed(t) == [task[t].mine EXCEPT !.dirty = {}]

Read(t, a) ==
    IF a \in task[t].mine.own THEN task[t].mine.wallet[a] ELSE wallet[a]

Write(m, a, w) ==
    [m EXCEPT !.wallet[a] = w, !.own = @ \cup {a}, !.dirty = @ \cup {a}]

Current(t) == BlockAt(Head(task[t].todo))
CurrentTx(t) == Current(t).txs[task[t].tx]
HasTx(t) == task[t].tx <= Len(Current(t).txs)

(* add_block has returned: with m written when it succeeded.  A batch goes *)
(* on with its next block and commits at the end whatever came of them; a  *)
(* single block is committed only if it was added.                         *)
Returned(t, m, added) ==
    LET k == task[t]
        more == Len(k.todo) > 1
        end  == IF k.kind = "batch" \/ added THEN "commit" ELSE "idle"
    IN IF more \/ end = "commit"
       THEN [k EXCEPT !.pc = IF more THEN "tip" ELSE end,
                      !.todo = Tail(@), !.tx = 1, !.sender = NoWallet,
                      !.mine = m, !.save = m]
       ELSE Idle

\* Mutant: no savepoint, a refused block leaves what it has written.
KeepPartialBlock(t) == task' = [task EXCEPT ![t] = Returned(t, @.mine, FALSE)]

(* The savepoint of begin_nested is rolled back and add_block is False.    *)
Refuse(t) == task' = [task EXCEPT ![t] = Returned(t, @.save, FALSE)]

Begin(t, kind, todo) ==
    /\ task[t].pc = "idle" /\ kind \in arrives
    /\ task' = [task EXCEPT ![t] =
                    [Idle EXCEPT !.pc = "tip", !.kind = kind, !.todo = todo]]

----------------------------------------------------------------------------
(* Messages                                                                *)

(* _is_seen: the id is remembered before anything is done with it, and the *)
(* oldest one is forgotten when the cache is full.                         *)
Remember(id) ==
    /\ \A i \in DOMAIN seen : seen[i] # id
    /\ seen' = Append(IF Len(seen) >= SeenSize THEN Tail(seen) ELSE seen, id)

NewBlock(t, h) ==
    /\ Remember(<<"block", h>>)
    /\ Begin(t, "gossip", <<h>>)
    /\ UNCHANGED <<chain, arrives, store, mempool, expired, raced, app, faults>>

(* BLOCKS_RESPONSE: the blocks from..to, without a look at the cache.      *)
BlocksResponse(t, from, to) ==
    /\ from <= to
    /\ Begin(t, "batch", [i \in 1 .. to - from + 1 |-> from + i - 1])
    /\ UNCHANGED <<chain, arrives, store, memory, expired, raced, app, faults>>

(* BlockchainManager.process_new_block, one at a time under its lock,      *)
(* which is released before the caller commits.                            *)
ProcessNewBlock(t, h) ==
    /\ \A u \in Tasks : task[u].kind = "local" => task[u].pc = "commit"
    /\ Begin(t, "local", <<h>>)
    /\ UNCHANGED <<chain, arrives, store, memory, expired, raced, app, faults>>

\* Mutant: a full pool drops what it holds.
EvictAll == IF Cardinality(mempool) >= MempoolSize THEN {} ELSE mempool

(* The pool after clear_expired, which runs only when the pool is full.    *)
Room == IF Cardinality(mempool) >= MempoolSize THEN mempool \ expired ELSE mempool

\* Mutant: the size is not looked at again after clear_expired.
NewTransactionAnyway(x) ==
    /\ "tx" \in arrives
    /\ Remember(<<"tx", x>>)
    /\ mempool' = IF x \in expired THEN Room ELSE Room \cup {x}
    /\ UNCHANGED <<chain, arrives, store, task, expired, raced, app, faults>>

NewTransaction(x) ==
    /\ "tx" \in arrives
    /\ Remember(<<"tx", x>>)
    /\ mempool' = IF x \in mempool THEN mempool
                  ELSE IF Cardinality(Room) >= MempoolSize \/ x \in expired
                       THEN Room ELSE Room \cup {x}
    /\ UNCHANGED <<chain, arrives, store, task, expired, raced, app, faults>>

Expire(x) ==
    /\ "tx" \in arrives /\ x \notin expired
    /\ expired' = expired \cup {x}
    /\ UNCHANGED <<chain, arrives, store, task, memory, raced, app, faults>>

----------------------------------------------------------------------------
(* add_block, one action per database round trip                           *)

Tip(t) == LET m == task[t].mine.rows IN
          IF m # <<>> THEN Last(m) ELSE IF rows # <<>> THEN Last(rows) ELSE -1

\* Mutant: any block above the tip is taken.
ReadTipAbove(t) ==
    /\ task[t].pc = "tip"
    /\ IF Head(task[t].todo) > Tip(t) /\ Len(rows) < MaxRows
       THEN task' = [task EXCEPT ![t].pc = "tx",
                         ![t].base = IF task[t].mine.rows = <<>> THEN Len(rows)
                                     ELSE @]
       ELSE Refuse(t)
    /\ UNCHANGED <<chain, arrives, store, memory, expired, raced, app, faults>>

(* get_latest_block and validate_block.  The savepoint begins.  (MaxRows is *)
(* a bound of the model: the table is full then.)                          *)
ReadTip(t) ==
    /\ task[t].pc = "tip"
    /\ IF Head(task[t].todo) = Tip(t) + 1 /\ Len(rows) < MaxRows
       THEN task' = [task EXCEPT ![t].pc = "tx",
                         ![t].base = IF task[t].mine.rows = <<>> THEN Len(rows)
                                     ELSE @]
       ELSE Refuse(t)
    /\ UNCHANGED <<chain, arrives, store, memory, expired, raced, app, faults>>

Step(t) == UNCHANGED <<chain, arrives, store, memory, expired, raced, app, faults>>

(* apply_transaction of a genesis mint: a wallet is made if there is none. *)
ApplyMint(t) ==
    /\ task[t].pc = "tx" /\ HasTx(t) /\ CurrentTx(t).mint
    /\ CanFlush(t)
    /\ LET tx == CurrentTx(t)
           w  == Read(t, tx.to)
           was == IF w = NoWallet THEN Empty ELSE w
       IN IF tx.nonce # 0 \/ tx.fee # 0
          THEN Refuse(t)
          ELSE task' = [task EXCEPT ![t].tx = @ + 1, ![t].mine =
                   Write(Flushed(t), tx.to, [was EXCEPT !.bal = @ + tx.amount])]
    /\ Step(t)

(* apply_transaction of a transfer loads the sender's wallet ...           *)
ReadSender(t) ==
    /\ task[t].pc = "tx" /\ HasTx(t) /\ ~CurrentTx(t).mint
    /\ CanFlush(t)
    /\ task' = [task EXCEPT ![t].pc = "apply",
                    ![t].sender = Read(t, CurrentTx(t).from),
                    ![t].mine = Flushed(t)]
    /\ Step(t)

(* ... checks its balance and its nonce, loads the recipient's and changes *)
(* both in Python.                                                         *)
\* Mutant: the fee is not part of the balance check.
AcceptableWithoutFee(s, tx) ==
    /\ s # NoWallet
    /\ s.bal >= tx.amount
    /\ s.nonce = tx.nonce

Acceptable(s, tx) ==
    /\ s # NoWallet
    /\ s.bal >= tx.amount + tx.fee
    /\ s.nonce = tx.nonce

ApplyTransfer(t) ==
    /\ task[t].pc = "apply"
    /\ LET tx == CurrentTx(t)
           s  == task[t].sender
           r  == IF tx.to = tx.from THEN s ELSE Read(t, tx.to)
       IN IF ~Acceptable(s, tx) \/ r = NoWallet
          THEN Refuse(t)
          ELSE LET m == Write(Write(task[t].mine, tx.from, s), tx.to, r)
               IN task' = [task EXCEPT ![t].pc = "tx", ![t].tx = @ + 1,
                               ![t].sender = NoWallet,
                               ![t].mine = [m EXCEPT !.wallet = Move(@, tx)]]
    /\ Step(t)

(* apply_block_reward: a validator without a wallet gets nothing.          *)
ApplyReward(t) ==
    /\ task[t].pc = "tx" /\ ~HasTx(t)
    /\ CanFlush(t)
    /\ LET v == Current(t).validator
           w == Read(t, v)
           paid == [w EXCEPT !.bal = @ + Reward(Current(t))]
       IN task' = [task EXCEPT ![t].pc = "check", ![t].mine =
              IF w = NoWallet THEN Flushed(t) ELSE Write(Flushed(t), v, paid)]
    /\ Step(t)

(* add_block returns True, with m written; process_new_block then drops the *)
(* transactions of the block from the mempool, before anything is committed. *)
Added(t, m) ==
    /\ task' = [task EXCEPT ![t] = Returned(t, m, TRUE)]
    /\ mempool' = IF task[t].kind = "local"
                  THEN {x \in mempool : x.block # Head(task[t].todo)}
                  ELSE mempool
    /\ UNCHANGED <<chain, arrives, store, seen, expired, raced, app, faults>>

(* index_block begins: the new IoTEvent row is flushed with the wallets    *)
(* and a block indexed before is skipped.                                  *)
CheckIndex(t) ==
    /\ task[t].pc = "check"
    /\ CanFlush(t)
    /\ LET h == Head(task[t].todo)
           m == [Flushed(t) EXCEPT !.rows = Append(@, h)]
       IN IF h \in index
          THEN Added(t, m)
          ELSE /\ task' = [task EXCEPT ![t].pc = "insert", ![t].mine = m]
               /\ Step(t)

\* Mutant: the height is not a key of ChainBlock.
InsertIndexNoKey(t) ==
    /\ task[t].pc = "insert"
    /\ LET h == Head(task[t].todo)
           m == task[t].mine
           acc == IF m.index = {} THEN account ELSE m.account
       IN Added(t, [m EXCEPT !.index = @ \cup {h},
                             !.account = IndexBlock(acc, Current(t))])

(* The ChainBlock row is inserted and the accounts are brought up to date. *)
(* The height is the primary key: a second insert waits for the session    *)
(* that holds the first one and fails once that one is committed.          *)
InsertIndex(t) ==
    /\ task[t].pc = "insert"
    /\ LET h == Head(task[t].todo)
           m == task[t].mine
           acc == IF m.index = {} THEN account ELSE m.account
       IN /\ \A u \in Tasks \ {t} : h \notin task[u].mine.index
          /\ IF h \in index
             THEN Refuse(t) /\ Step(t)
             ELSE Added(t, [m EXCEPT !.index = @ \cup {h},
                                     !.account = IndexBlock(acc, Current(t))])

----------------------------------------------------------------------------
(* The end of a session                                                    *)

(* Ids are given out at the flush, so rows committed since this session    *)
(* read the tip may have smaller ids than its own, or greater ones.        *)
RowsWith(mine, base) ==
    {SubSeq(rows, 1, p) \o mine \o SubSeq(rows, p + 1, Len(rows)) :
        p \in base .. Len(rows)}

Commit(t) ==
    /\ task[t].pc = "commit"
    /\ LET k == task[t]
           m == k.mine
       IN /\ IF m.rows = <<>> THEN rows' = rows
             ELSE rows' \in RowsWith(m.rows, k.base)
          /\ raced' = (raced \/ (m.rows # <<>> /\ k.base # Len(rows)))
          /\ wallet' = [a \in Addresses |->
                           IF a \in m.own THEN m.wallet[a] ELSE wallet[a]]
          /\ index' = index \cup m.index
          /\ account' = IF m.index = {} THEN account ELSE m.account
    /\ task' = [task EXCEPT ![t] = Idle]
    /\ UNCHANGED <<chain, arrives, memory, expired, app, faults>>

Fault == faults < MaxFaults /\ faults' = faults + 1

(* A statement of add_block fails, or it is the victim of a deadlock: the  *)
(* exception is caught inside add_block.                                   *)
InAddBlock(t) == task[t].pc \in {"tx", "apply", "check", "insert"}

StatementFails(t) ==
    /\ InAddBlock(t)
    /\ Fault
    /\ Refuse(t)
    /\ UNCHANGED <<chain, arrives, store, memory, expired, raced, app>>

(* t waits for a row of u, and u for one of t.                             *)
Waits(t, u) ==
    \/ Locked(u) \cap task[t].mine.dirty # {}
    \/ task[t].pc = "insert" /\ Head(task[t].todo) \in task[u].mine.index

Deadlock(t) ==
    /\ InAddBlock(t)
    /\ \E u \in Tasks \ {t} : Waits(t, u) /\ Waits(u, t)
    /\ Refuse(t)
    /\ UNCHANGED <<chain, arrives, store, memory, expired, raced, app, faults>>

(* The commit raises, or the connection of the session is lost.            *)
SessionLost(t) ==
    /\ task[t].pc # "idle"
    /\ Fault
    /\ task' = [task EXCEPT ![t] = Idle]
    /\ UNCHANGED <<chain, arrives, store, memory, expired, raced, app>>

Restart ==
    /\ Fault
    /\ task' = [t \in Tasks |-> Idle]
    /\ seen' = <<>> /\ mempool' = {}
    /\ UNCHANGED <<chain, arrives, store, expired, raced, app>>

----------------------------------------------------------------------------
(* The application                                                         *)

(* t has read the balance of a and not written it yet: it will write over  *)
(* whatever is committed before its next statement.                        *)
Carries(t, a) ==
    \/ a \in task[t].mine.dirty
    \/ task[t].pc = "apply" /\ CurrentTx(t).from = a

(* A handler of the application commits a balance, computed by credit or   *)
(* by debit, which leaves no less than 0; the row must not be locked.      *)
ApplicationMoves(a, n) ==
    /\ "app" \in arrives /\ app.moves < MaxMoves
    /\ wallet[a] # NoWallet /\ (n >= 0 \/ wallet[a].bal + n >= 0)
    /\ \A t \in Tasks : a \notin Locked(t)
    /\ wallet' = Credit(wallet, a, n)
    /\ app' = [given |-> [app.given EXCEPT ![a] = @ + n],
               moves |-> app.moves + 1,
               crossed |-> IF \E t \in Tasks : Carries(t, a)
                           THEN app.crossed \cup {a} ELSE app.crossed]
    /\ UNCHANGED <<chain, arrives, rows, index, account, task, memory,
                   expired, raced, faults>>

----------------------------------------------------------------------------
(* Specification                                                           *)

Init ==
    /\ \E load \in Workloads : chain = load.chain /\ arrives = load.arrives
    /\ rows = <<>> /\ index = {}
    /\ app = [given |-> [a \in Addresses |->
                            IF a \in Registered THEN Opening[a] ELSE 0],
              moves |-> 0, crossed |-> {}]
    /\ wallet = [a \in Addresses |->
                    IF a \in Registered THEN [bal |-> Opening[a], nonce |-> 0]
                    ELSE NoWallet]
    /\ account = [a \in Addresses |-> Empty]
    /\ task = [t \in Tasks |-> Idle]
    /\ seen = <<>> /\ mempool = {}
    /\ expired = {} /\ raced = FALSE /\ faults = 0

AddBlock(t) ==
    \/ ReadTip(t) \/ ApplyMint(t) \/ ReadSender(t) \/ ApplyTransfer(t)
    \/ ApplyReward(t) \/ CheckIndex(t) \/ InsertIndex(t) \/ Commit(t)

Next ==
    \/ \E t \in Tasks :
         \/ AddBlock(t)
         \/ StatementFails(t) \/ Deadlock(t) \/ SessionLost(t)
         \/ \E h \in Heights : NewBlock(t, h) \/ ProcessNewBlock(t, h)
         \/ \E from, to \in Heights : BlocksResponse(t, from, to)
    \/ \E x \in Transactions : NewTransaction(x) \/ Expire(x)
    \/ \E a \in Addresses, n \in Amounts : ApplicationMoves(a, n)
    \/ Restart

Spec == Init /\ [][Next]_vars

----------------------------------------------------------------------------
(* Properties                                                              *)

Session == [wallet : [Addresses -> Wallet \cup {NoWallet}],
            own : SUBSET Addresses, dirty : SUBSET Addresses,
            rows : Seq(Nat), index : SUBSET Nat,
            account : [Addresses -> Wallet]]

TypeOK ==
    /\ [chain |-> chain, arrives |-> arrives] \in Workloads
    /\ rows \in Seq(Heights) /\ index \subseteq Heights
    /\ wallet \in [Addresses -> Wallet \cup {NoWallet}]
    /\ account \in [Addresses -> Wallet]
    /\ task \in [Tasks ->
         [pc : {"idle", "tip", "tx", "apply", "check", "insert", "commit"},
          kind : {"none", "gossip", "batch", "local"}, todo : Seq(Heights),
          tx : Nat, sender : Wallet \cup {NoWallet}, base : Nat,
          mine : Session, save : Session]]
    /\ Len(seen) <= SeenSize
    /\ mempool \subseteq Transactions /\ Cardinality(mempool) <= MempoolSize
    /\ expired \subseteq Transactions
    /\ app \in [given : [Addresses -> Int], moves : 0 .. MaxMoves,
               crossed : SUBSET Addresses]
    /\ raced \in BOOLEAN /\ faults \in 0 .. MaxFaults

(* Whatever sessions overlap, the chain accounts are the result of the     *)
(* blocks 0, 1, ... up to the last one indexed, each applied once and in   *)
(* order: the primary key of ChainBlock decides which session pays.        *)
IndexIsReplay ==
    /\ index = 0 .. Cardinality(index) - 1
    /\ account = FoldLeft(IndexBlock, [a \in Addresses |-> Empty],
                          SubSeq(chain, 1, Cardinality(index)))

(* As long as no session has committed a block on a tip that another one   *)
(* had replaced, the rows are the certified chain without gap or double,   *)
(* each row is indexed, and the latest row is the highest block.           *)
RowsAreTheChain ==
    ~raced => /\ \A i \in DOMAIN rows : rows[i] = i - 1
              /\ index = {rows[i] : i \in DOMAIN rows}

(* Under the same condition every wallet holds what the chain account of   *)
(* its address holds and what the application has put in, no more and no   *)
(* less: no block is paid twice, in part, or to one side only, and of two  *)
(* writers one is lost only where the application commits between the read *)
(* of a balance in state.py and the flush of the balance computed from it. *)
WalletMatchesIndex ==
    ~raced => \A a \in Addresses \ app.crossed :
        wallet[a] # NoWallet =>
            wallet[a] = [account[a] EXCEPT !.bal = @ + app.given[a]]

(* Every amount and every reward of the chain c adds to a balance.  Only   *)
(* the mempool checks an amount (verify_transaction) and nothing checks a  *)
(* fee, so this is a condition on the blocks, not a fact about them.       *)
Gives(c) ==
    \A h \in DOMAIN c :
        /\ Reward(c[h]) >= 0
        /\ \A i \in DOMAIN c[h].txs : c[h].txs[i].amount >= 0

(* No wallet is overdrawn by such blocks, even when sessions overlap and   *)
(* balances are lost: the balance check of apply_transaction is enough.    *)
NoWalletOverdrawn ==
    Gives(chain) =>
        \A a \in Addresses : wallet[a] # NoWallet => wallet[a].bal >= 0

(* A pending transaction leaves the mempool only expired, in a block that  *)
(* process_new_block has added, or with the process.                       *)
PendingLeavesForAReason ==
    [][\A x \in mempool \ mempool' :
         \/ x \in expired
         \/ \E t \in Tasks : /\ task[t].kind = "local" /\ InAddBlock(t)
                             /\ Head(task[t].todo) = x.block
         \/ faults' = faults + 1]_vars
============================================================================
