------------------------------ MODULE Rewards ------------------------------
(***************************************************************************)
(* Tasks and offers: what earns a user VITCoin and experience.  A row      *)
(* <<"completion", id>> records a user's progress on a task; no constraint *)
(* keeps a user from having two for one task.                              *)
(***************************************************************************)
EXTENDS WalletOps

CONSTANTS Required,     \* the progress that completes a task
          Experience    \* the experience a completed task gives

User(s) == <<"user", Args(s).user>>

(* The rows of this user and task that can be seen now.                    *)
Completions(s) ==
    {r \in Rows : /\ r[1] = "completion" /\ table[r] # Absent
                  /\ table[r].user = Args(s).user /\ table[r].task = Args(s).task}

(* The row a session works on: the one found, or one with an id of its own.*)
Completion(s) ==
    LET found == {r \in Known(session[s]) : r[1] = "completion"}
    IN IF found = {} THEN Args(s).row ELSE CHOOSE r \in found : TRUE

NewCompletion(s) ==
    [user |-> Args(s).user, task |-> Args(s).task, progress |-> 0,
     completed |-> FALSE, times |-> 0]

(* update_task_progress.  The user has been loaded by the authentication;  *)
(* more than one completion row is an error.                               *)
ProgressLoad(s) ==
    \/ /\ At(s, "progress", "start")
       /\ Query(s, Load(session[s], User(s)), "find")
    \/ /\ At(s, "progress", "find")
       /\ \/ Cardinality(Completions(s)) > 1 /\ Refuse(s)
          \/ /\ Cardinality(Completions(s)) = 1
             /\ Query(s, LoadAll(session[s], Completions(s)), "found")
          \/ /\ Completions(s) = {}
             /\ Query(s, Insert(session[s], Args(s).row, NewCompletion(s)), "found")

Progress(s) == Copy(session[s], Completion(s)).progress + 1

(* The progress is flushed by the query for the task, if that is complete. *)
AddProgress(s) ==
    /\ At(s, "progress", "found")
    /\ LET k == Set(session[s], Completion(s), [progress |-> Progress(s)]) IN
       IF Progress(s) >= Required /\ ~Copy(session[s], Completion(s)).completed
       THEN Query(s, k, "complete")
       ELSE Commit(s, k)

TaskKey(s) == <<"task-completion", Completion(s)>>

(* A task that recurs starts again at once; its later completions find the *)
(* reference of the first one and pay nothing.                             *)
Completed(s) ==
    LET x == Copy(session[s], Completion(s))
        k == Set(session[s], Completion(s),
                 [completed |-> ~Args(s).recurring, times |-> x.times + 1,
                  progress |-> IF Args(s).recurring THEN 0 ELSE x.progress])
    IN Set(k, User(s), [xp |-> Copy(k, User(s)).xp + Experience])

CompleteTask(s) ==
    \/ /\ At(s, "progress", "complete")
       /\ IF table[Ref(TaskKey(s))] # Absent
          THEN Commit(s, Completed(s))
          ELSE Query(s, Load(session[s], W(Args(s).user)), "award")
    \/ /\ At(s, "progress", "award")
       /\ Commit(s, Pay(Reference(Add(Completed(s), W(Args(s).user), "vit", Args(s).amount),
                                  TaskKey(s), Args(s).amount), Ref(TaskKey(s))))

(* process_postback: one completion per provider and payload, with a valid *)
(* signature.                                                              *)
Postback(s) ==
    LET a == Args(s) IN
    \/ /\ At(s, "postback", "start")
       /\ IF table[a.row] # Absent
          THEN End(s, "done")
          ELSE Query(s, session[s], "event")
    \/ /\ At(s, "postback", "event")
       /\ Query(s, Insert(session[s], a.row, [status |-> "pending", amount |-> a.amount]),
                "reward")
    \/ /\ At(s, "postback", "reward")
       /\ Query(s, Load(session[s], W(a.user)), "award")
    \/ /\ At(s, "postback", "award")
       /\ Commit(s, Pay(Reference(Add(Set(session[s], a.row, [status |-> "paid"]),
                                      W(a.user), "vit", a.amount),
                                  <<"offer", a.row>>, a.amount), a.row))

RewardRequests ==
    {"progress", "postback"}

RewardStep(s) ==
    /\ Args(s).op \in RewardRequests
    /\ \/ ProgressLoad(s) \/ AddProgress(s) \/ CompleteTask(s) \/ Postback(s)
=============================================================================
