----------------------------- MODULE Registries -----------------------------
(***************************************************************************)
(* The registries of the application: sub-chains and the messages between  *)
(* them, contracts and their upgrades, and the agents' records of tasks.   *)
(***************************************************************************)
EXTENDS WalletOps

Registered(s) == Copy(session[s], Row(s))

(* Each of these handlers first loads the row it is about, or fails.       *)
Lookup(s) ==
    /\ session[s].pc = "start"
    /\ Args(s).op \in {"produce", "relay_message", "confirm_message", "call",
                       "upgrade", "execute_upgrade", "record_task"}
    /\ IF table[Row(s)] = Absent
       THEN Refuse(s)
       ELSE Query(s, Load(session[s], Row(s)), "found")

----------------------------------------------------------------------------
(* produce_block.  A hash is salted, so the session stands for it.  The    *)
(* key of a block is unique: of two producers of a height one fails.       *)

Block(c, n) == <<"subblock", <<c[2], n>>>>
BlocksOf(c) == {r \in Rows : r[1] = "subblock" /\ r[2][1] = c[2] /\ table[r] # Absent}

\* Mutant: the height is counted now, the parent is the one read before.
ProducedByCount(s) ==
    LET c == Registered(s) n == Cardinality(BlocksOf(Row(s))) + 1 IN
    Set(Insert(session[s], Block(Row(s), n),
               [parent |-> c.latest, hash |-> s, txns |-> Args(s).amount]),
        Row(s), [height |-> n, latest |-> s, txns |-> c.txns + Args(s).amount])

Produced(s) ==
    LET c == Registered(s) n == c.height + 1 IN
    Set(Insert(session[s], Block(Row(s), n),
               [parent |-> c.latest, hash |-> s, txns |-> Args(s).amount]),
        Row(s), [height |-> n, latest |-> s, txns |-> c.txns + Args(s).amount])

(* Bound: the instance has a row for the next block.                       *)
Produce(s) ==
    /\ At(s, "produce", "found")
    /\ Block(Row(s), Registered(s).height + 1) \in Rows
    /\ Commit(s, Produced(s))

(* relay_message wants a message that is queued, confirm_message takes any.*)
Relay(s) ==
    \/ /\ At(s, "relay_message", "found")
       /\ IF Registered(s).status # "queued"
          THEN Refuse(s)
          ELSE Commit(s, Set(session[s], Row(s), [status |-> "relayed"]))
    \/ /\ At(s, "confirm_message", "found")
       /\ Commit(s, Set(session[s], Row(s), [status |-> "confirmed"]))

----------------------------------------------------------------------------
(* call_contract, of the token.  Its state is one JSON column.             *)

(* The least amount of a transfer is compared with the amount before the   *)
(* handler catches anything.  It is a string in the rules that bootstrap   *)
(* stores, which raises: only rules brought by an upgrade can be numeric.  *)
Raises(x, a) == a.method = "transfer" /\ a.amount > 0 /\ ~x.numeric

Moved(balances, user, n) == [balances EXCEPT ![user] = @ + n]

Reverts(x, a) ==
    \/ a.method = "transfer" /\ a.amount <= 0
    \/ a.method \in {"transfer", "burn"} /\ x.state.balances[a.user] < a.amount
    \/ a.method = "mint" /\ x.state.supply + a.amount > x.max

NewState(state, a) ==
    CASE a.method = "transfer" ->
           [state EXCEPT !.balances = Moved(Moved(@, a.user, -a.amount), a.to, a.amount)]
      [] a.method = "mint" ->
           [supply |-> state.supply + a.amount,
            balances |-> Moved(state.balances, a.user, a.amount)]
      [] a.method = "burn" ->
           [supply |-> state.supply - a.amount,
            balances |-> Moved(state.balances, a.user, -a.amount)]

(* The balances are changed in place, in the dictionary that was loaded as *)
(* well: the session sees a change of the column only if something else in *)
(* it has changed.                                                         *)
Noticed(state, a) ==
    IF NewState(state, a).supply = state.supply THEN state ELSE NewState(state, a)

Called(s) ==
    LET x == Registered(s) a == Args(s)
        record(status) == Insert(session[s], <<"contract_call", s>>,
                                 [contract |-> Row(s), status |-> status,
                                  method |-> a.method, user |-> a.user,
                                  amount |-> a.amount])
    IN IF Reverts(x, a)
       THEN record("reverted")
       ELSE Set(record("success"), Row(s),
                [state |-> Noticed(x.state, a), calls |-> x.calls + 1])

(* The call is flushed before its events are added.                        *)
Call(s) ==
    \/ /\ At(s, "call", "found")
       /\ IF Raises(Registered(s), Args(s))
          THEN Refuse(s)
          ELSE Query(s, Called(s), "events")
    \/ At(s, "call", "events") /\ Commit(s, session[s])

(* upgrade_contract and execute_upgrade.                                   *)
Upgrade(s) ==
    \/ /\ At(s, "upgrade", "found")
       /\ Commit(s, Insert(session[s], Args(s).upgrade,
                           [contract |-> Row(s), max |-> Args(s).amount,
                            numeric |-> Args(s).numeric, version |-> Args(s).version,
                            status |-> "proposed"]))
    \/ /\ At(s, "execute_upgrade", "found")
       /\ IF Registered(s).status = "executed"
          THEN Refuse(s)
          ELSE Query(s, Load(session[s], Registered(s).contract), "contract")
    \/ /\ At(s, "execute_upgrade", "contract")
       /\ LET u == Registered(s) IN
          Commit(s, Pay(Set(Set(session[s], u.contract,
                                [max |-> u.max, numeric |-> u.numeric,
                                 version |-> u.version]),
                            Row(s), [status |-> "executed"]), Row(s)))

----------------------------------------------------------------------------
(* record_agent_task.                                                      *)
RecordTask(s) ==
    /\ At(s, "record_task", "found")
    /\ LET x == Registered(s) good == Args(s).success IN
       Commit(s, Set(Insert(session[s], <<"agent_record", s>>,
                            [agent |-> Row(s), success |-> good]),
                     Row(s), [tasks |-> x.tasks + 1,
                              good |-> x.good + IF good THEN 1 ELSE 0,
                              bad |-> x.bad + IF good THEN 0 ELSE 1]))

RegistryStep(s) ==
    Lookup(s) \/ Produce(s) \/ Relay(s) \/ Call(s) \/ Upgrade(s) \/ RecordTask(s)
=============================================================================
