--------------------------- MODULE CoordinatorProofs ---------------------------
(***************************************************************************)
(* Theorems about Coordinator, for every number of validators, every       *)
(* bound on rounds and faults, and every set of blocks: types and          *)
(* certificates first, then what is signed, the locks, and finality.       *)
(***************************************************************************)
EXTENDS Coordinator, FiniteSetTheorems, TLAPS

--------------------------------------------------------------------------------
(***************************************************************************)
(* Types.                                                                  *)
(***************************************************************************)
\* What a vote created by this node is made of.
LEMMA CreateVoteType ==
  ASSUME NEW n \in Nodes, NEW r, NEW b
  PROVE  /\ r \in Rounds /\ b \in Blocks =>
              /\ CreateVote(n, "prevote", r, b) \in Vote
              /\ CreateVote(n, "precommit", r, b) \in Vote
         /\ r \in TimeoutRounds => TimeoutVote(n, r) \in Vote
  BY DEF CreateVote, TimeoutVote, Vote

\* A round whose timer may fire is not the last one.
LEMMA TimeoutRoundsType ==
  ASSUME NEW r \in TimeoutRounds
  PROVE  r \in Rounds /\ r + 1 \in Rounds
<1>1. r \in 0..(MaxRound - 1)
  BY DriverAssumption
<1>2. QED
  BY <1>1, MaxRoundAssumption DEF Rounds

\* The fields of a vote.
LEMMA VoteFields ==
  ASSUME NEW v \in Vote
  PROVE  /\ v.from \in Nodes
         /\ v.round \in Rounds
         /\ v.type \in {"prevote", "precommit", "round_timeout"}
         /\ v.type # "round_timeout" => v.block \in Blocks
         /\ v.type = "round_timeout" => v.block = Nil /\ v.round + 1 \in Rounds
         /\ v = CreateVote(v.from, v.type, v.round, v.block)
<1>1. CASE v \in [type : {"prevote", "precommit"}, round : Rounds, block : Blocks,
                  from : Nodes]
  BY <1>1 DEF CreateVote
<1>2. CASE v \in [type : {"round_timeout"}, round : TimeoutRounds, block : {Nil},
                  from : Nodes]
  BY <1>2, TimeoutRoundsType DEF CreateVote
<1>3. QED
  BY <1>1, <1>2 DEF Vote

\* What the record of a suspended handler holds, by the point it waits at.
LEMMA TaskFields ==
  ASSUME NEW t \in Task
  PROVE  /\ t.pc \in {"idle", "tip", "proposal_commit", "vote_lock", "vote_commit",
                      "lock_commit", "advance_commit", "final_commit"}
         /\ t.pc = "tip" => /\ t.round \in Rounds
                            /\ t.block \in Blocks
                            /\ t.validRound \in Rounds \cup {-1}
         /\ t.pc = "proposal_commit" => t.round \in Rounds /\ t.block \in Blocks
         /\ t.pc \in {"vote_lock", "vote_commit", "lock_commit"} =>
              t.vote \in Vote /\ t.sends \in SUBSET Vote
         /\ t.pc = "lock_commit" => t.vote.type = "prevote"
         /\ t.pc = "advance_commit" => t.round \in Rounds /\ t.sends \in SUBSET Vote
         /\ t.pc = "final_commit" =>
              /\ t.round \in Rounds /\ t.block \in Blocks
              /\ t.own \in BOOLEAN /\ t.sends \in SUBSET Vote
  BY DEF Task, Idle

\* Every record a handler leaves behind is a task.
LEMMA TaskForms ==
  ASSUME NEW r \in Rounds, NEW b \in Blocks, NEW vr \in Rounds \cup {-1},
         NEW v \in Vote, NEW S \in SUBSET Vote, NEW own \in BOOLEAN,
         NEW pc \in {"vote_lock", "vote_commit"}
  PROVE  /\ Idle \in Task
         /\ [pc |-> "tip", round |-> r, block |-> b, validRound |-> vr] \in Task
         /\ [pc |-> "proposal_commit", round |-> r, block |-> b] \in Task
         /\ [pc |-> pc, vote |-> v, sends |-> S] \in Task
         /\ v.type = "prevote" => [pc |-> "lock_commit", vote |-> v, sends |-> S] \in Task
         /\ [pc |-> "advance_commit", round |-> r, sends |-> S] \in Task
         /\ [pc |-> "final_commit", round |-> r, block |-> b, own |-> own,
             sends |-> S] \in Task
  BY DEF Task

\* Suspending a handler, or ending it, keeps the types.
LEMMA GotoType ==
  ASSUME TypeOK, NEW n \in Nodes, NEW l \in Lanes, NEW t \in Task, Goto(n, l, t)
  PROVE  task' \in [Nodes -> [Lanes -> Task]]
  BY DEF TypeOK, Goto

LEMMA ReturnType ==
  ASSUME TypeOK, NEW n \in Nodes, NEW l \in Lanes, NEW S \in SUBSET Vote, Return(n, l, S)
  PROVE  task' \in [Nodes -> [Lanes -> Task]] /\ sentVotes' \subseteq Vote
<1>1. Idle \in Task
  BY DEF Task
<1>2. QED
  BY <1>1, GotoType DEF Return, TypeOK

\* So does taking a vote in.
LEMMA RecordVoteType ==
  ASSUME TypeOK, NEW n \in Nodes, NEW l \in Lanes, NEW v \in Vote, NEW S \in SUBSET Vote,
         RecordVote(n, l, v, S)
  PROVE  /\ task' \in [Nodes -> [Lanes -> Task]]
         /\ sentVotes' \subseteq Vote
         /\ votes' \in [Nodes -> SUBSET Vote]
<1>1. CASE Return(n, l, S) /\ UNCHANGED votes
  BY <1>1, ReturnType DEF TypeOK
<1>2. CASE /\ votes' = [votes EXCEPT ![n] = @ \cup {v}]
           /\ Goto(n, l, [pc |-> "vote_commit", vote |-> v, sends |-> S])
           /\ UNCHANGED sentVotes
  <2>1. [pc |-> "vote_commit", vote |-> v, sends |-> S] \in Task
    BY DEF Task
  <2>2. QED
    BY <1>2, <2>1, GotoType DEF TypeOK
<1>3. QED
  BY <1>1, <1>2 DEF RecordVote

LEMMA BeginVoteType ==
  ASSUME TypeOK, NEW n \in Nodes, NEW l \in Lanes, NEW v \in Vote, NEW S \in SUBSET Vote,
         BeginVote(n, l, v, S)
  PROVE  /\ task' \in [Nodes -> [Lanes -> Task]]
         /\ sentVotes' \subseteq Vote
         /\ votes' \in [Nodes -> SUBSET Vote]
<1>1. CASE RecordVote(n, l, v, S)
  BY <1>1, RecordVoteType
<1>2. CASE /\ Goto(n, l, [pc |-> "vote_lock", vote |-> v, sends |-> S])
           /\ UNCHANGED <<votes, sentVotes>>
  <2>1. [pc |-> "vote_lock", vote |-> v, sends |-> S] \in Task
    BY DEF Task
  <2>2. QED
    BY <1>2, <2>1, GotoType DEF TypeOK
<1>3. QED
  BY <1>1, <1>2 DEF BeginVote

\* So does the start of finalize.
LEMMA BeginFinalizeType ==
  ASSUME TypeOK, NEW n \in Nodes, NEW l \in Lanes, NEW r \in Rounds, NEW b \in Blocks,
         NEW own \in BOOLEAN, NEW S \in SUBSET Vote, BeginFinalize(n, l, r, b, own, S)
  PROVE  /\ task' \in [Nodes -> [Lanes -> Task]]
         /\ sentVotes' \subseteq Vote
         /\ locked' \in [Nodes -> Mark \cup {Unset}]
         /\ certificates' \subseteq Mark
<1> DEFINE mark == [round |-> r, block |-> b]
<1>1. mark \in Mark
  BY DEF Mark
<1>2. CASE Return(n, l, S) /\ UNCHANGED <<locked, certificates>>
  BY <1>2, ReturnType DEF TypeOK
<1>3. CASE /\ locked' = [locked EXCEPT ![n] = mark]
           /\ certificates' = IF own /\ finalized[n].block = b
                              THEN certificates \cup {mark} ELSE certificates
           /\ Return(n, l, S)
  BY <1>1, <1>3, ReturnType DEF TypeOK
<1>4. CASE /\ locked' = [locked EXCEPT ![n] = mark]
           /\ Goto(n, l, [pc |-> "final_commit", round |-> r, block |-> b,
                          own |-> own, sends |-> S])
           /\ UNCHANGED <<sentVotes, certificates>>
  <2>1. [pc |-> "final_commit", round |-> r, block |-> b, own |-> own, sends |-> S] \in Task
    BY DEF Task
  <2>2. QED
    BY <1>1, <1>4, <2>1, GotoType DEF TypeOK
<1>5. QED
  BY <1>2, <1>3, <1>4 DEF BeginFinalize
\* The initial state is typed.
LEMMA TypeInit ==
  ASSUME Init
  PROVE  TypeOK
<1>1. 0 \in Rounds
  BY MaxRoundAssumption DEF Rounds
<1>2. Idle \in Task
  BY DEF Task
<1>3. QED
  BY <1>1, <1>2 DEF Init, TypeOK

\* So is what every step makes of a typed state.
LEMMA TypeStep ==
  ASSUME TypeOK, [Next]_vars
  PROVE  TypeOK'
<1> USE DEF network, memory, disk
<1>1. ASSUME NEW n \in Nodes, NEW r \in Rounds, NEW b \in Blocks,
             NEW vr \in Rounds \cup {-1}, Propose(n, r, b, vr)
      PROVE  TypeOK'
  BY <1>1 DEF Propose, TypeOK
<1>2. ASSUME NEW n \in Nodes, NEW l \in Lanes, NEW r \in Rounds, OnRoundTimeout(n, l, r)
      PROVE  TypeOK'
  <2>1. TimeoutVote(n, r) \in Vote
    BY <1>2, CreateVoteType DEF OnRoundTimeout
  <2>2. BeginVote(n, l, TimeoutVote(n, r), {})
    BY <1>2 DEF OnRoundTimeout
  <2>3. QED
    BY <1>2, <2>1, <2>2, BeginVoteType DEF OnRoundTimeout, TypeOK
<1>3. ASSUME NEW n \in Nodes, NEW l \in Lanes, NEW m \in proposals, ReceiveProposal(n, l, m)
      PROVE  TypeOK'
  <2>1. [pc |-> "tip", round |-> m.round, block |-> m.block,
         validRound |-> m.validRound] \in Task
    BY TaskForms DEF TypeOK, Task
  <2>2. QED
    BY <1>3, <2>1, GotoType DEF ReceiveProposal, TypeOK
<1>4. ASSUME NEW n \in Nodes, NEW l \in Lanes, NEW v \in sentVotes, ReceiveVote(n, l, v)
      PROVE  TypeOK'
  <2>1. v \in Vote /\ BeginVote(n, l, v, {})
    BY <1>4 DEF ReceiveVote, TypeOK
  <2>2. QED
    BY <1>4, <2>1, BeginVoteType DEF ReceiveVote, TypeOK
<1>5. ASSUME NEW n \in Nodes, NEW l \in Lanes, NEW c \in certificates,
             ReceiveCertificate(n, l, c)
      PROVE  TypeOK'
  <2>1. c.round \in Rounds /\ c.block \in Blocks
    BY DEF TypeOK, Mark
  <2>2. /\ BeginFinalize(n, l, c.round, c.block, FALSE, {})
        /\ FALSE \in BOOLEAN /\ {} \in SUBSET Vote
    BY <1>5 DEF ReceiveCertificate
  <2>3. /\ task' \in [Nodes -> [Lanes -> Task]]
        /\ sentVotes' \subseteq Vote
        /\ locked' \in [Nodes -> Mark \cup {Unset}]
        /\ certificates' \subseteq Mark
    BY <2>1, <2>2, BeginFinalizeType
  <2>4. QED
    BY <1>5, <2>3 DEF ReceiveCertificate, TypeOK
<1>6. ASSUME NEW n \in Nodes, NEW l \in Lanes, Resume(n, l)
      PROVE  TypeOK'
  <2> DEFINE t == task[n][l]
  <2>1. t \in Task
    BY DEF TypeOK
  <2>2. t.pc \in {"vote_lock", "vote_commit", "lock_commit"} =>
          t.vote \in Vote /\ t.sends \in SUBSET Vote /\ Sends(n, t) \in SUBSET Vote
    BY <2>1, TaskFields DEF Sends
  <2>3. CASE ReadTip(n, l)
    <3>1. t.pc = "tip" /\ t.round \in Rounds /\ t.block \in Blocks
      BY <2>1, <2>3, TaskFields DEF ReadTip
    <3>2. /\ Idle \in Task
          /\ [pc |-> "proposal_commit", round |-> t.round, block |-> t.block] \in Task
      BY <3>1 DEF Task
    <3>3. task' \in [Nodes -> [Lanes -> Task]]
      BY <2>3, <3>2, GotoType DEF ReadTip
    <3>4. pending' \in [Nodes -> [Rounds -> Blocks \cup {Nil}]]
      <4>1. CASE UNCHANGED pending
        BY <4>1 DEF TypeOK
      <4>2. CASE pending' = [pending EXCEPT ![n][t.round] = t.block]
        BY <3>1, <4>2 DEF TypeOK
      <4>3. QED
        BY <2>3, <4>1, <4>2 DEF ReadTip
    <3>5. QED
      BY <2>3, <3>3, <3>4 DEF ReadTip, TypeOK
  <2>4. CASE CommitProposal(n, l)
    <3>1. t.pc = "proposal_commit" /\ t.round \in Rounds /\ t.block \in Blocks
      BY <2>1, <2>4, TaskFields DEF CommitProposal
    <3>2. CreateVote(n, "prevote", t.round, t.block) \in Vote
      BY <3>1, CreateVoteType
    <3>3. /\ task' \in [Nodes -> [Lanes -> Task]]
          /\ sentVotes' \subseteq Vote
          /\ votes' \in [Nodes -> SUBSET Vote]
      <4>1. CASE Return(n, l, {}) /\ UNCHANGED votes
        BY <4>1, ReturnType DEF TypeOK
      <4>2. CASE BeginVote(n, l, CreateVote(n, "prevote", t.round, t.block), {})
        BY <3>2, <4>2, BeginVoteType
      <4>3. QED
        BY <2>4, <4>1, <4>2 DEF CommitProposal
    <3>4. savedPending' \in [Nodes -> [Rounds -> Blocks \cup {Nil}]]
      BY <2>4, <3>1 DEF CommitProposal, TypeOK
    <3>5. QED
      BY <2>4, <3>3, <3>4 DEF CommitProposal, TypeOK
  <2>5. CASE AcquireVoteLock(n, l)
    BY <2>2, <2>5, RecordVoteType DEF AcquireVoteLock, TypeOK
  <2>6. CASE CommitPrevote(n, l)
    <3>1. t.pc = "vote_commit" /\ t.vote.type = "prevote"
      BY <2>6 DEF CommitPrevote
    <3>2. t.vote.round \in Rounds /\ t.vote.block \in Blocks
      BY <2>2, <3>1, VoteFields
    <3>3. /\ task' \in [Nodes -> [Lanes -> Task]]
          /\ sentVotes' \subseteq Vote
          /\ locked' \in [Nodes -> Mark \cup {Unset}]
      <4>1. CASE Return(n, l, Sends(n, t)) /\ UNCHANGED locked
        BY <2>2, <3>1, <4>1, ReturnType DEF TypeOK
      <4>2. CASE /\ locked' = [locked EXCEPT ![n] = [round |-> t.vote.round,
                                                     block |-> t.vote.block]]
                 /\ Goto(n, l, [pc |-> "lock_commit", vote |-> t.vote,
                                sends |-> Sends(n, t)])
                 /\ UNCHANGED sentVotes
        <5>1. [pc |-> "lock_commit", vote |-> t.vote, sends |-> Sends(n, t)] \in Task
          BY <2>2, <3>1 DEF Task
        <5>2. [round |-> t.vote.round, block |-> t.vote.block] \in Mark
          BY <3>2 DEF Mark
        <5>3. QED
          BY <4>2, <5>1, <5>2, GotoType DEF TypeOK
      <4>3. QED
        BY <2>6, <4>1, <4>2 DEF CommitPrevote
    <3>4. savedVotes' \in [Nodes -> SUBSET Vote]
      BY <2>2, <2>6, <3>1 DEF CommitPrevote, TypeOK
    <3>5. QED
      BY <2>6, <3>3, <3>4 DEF CommitPrevote, TypeOK
  <2>7. CASE CommitLock(n, l)
    <3>1. t.pc = "lock_commit" /\ t.vote.round \in Rounds /\ t.vote.block \in Blocks
      BY <2>1, <2>2, <2>7, TaskFields, VoteFields DEF CommitLock
    <3>2. CreateVote(n, "precommit", t.vote.round, t.vote.block) \in Vote
      BY <3>1, CreateVoteType
    <3>3. /\ task' \in [Nodes -> [Lanes -> Task]]
          /\ sentVotes' \subseteq Vote
          /\ votes' \in [Nodes -> SUBSET Vote]
      <4>1. CASE Return(n, l, t.sends) /\ UNCHANGED votes
        BY <2>2, <3>1, <4>1, ReturnType DEF TypeOK
      <4>2. CASE BeginVote(n, l, CreateVote(n, "precommit", t.vote.round, t.vote.block),
                           t.sends)
        BY <2>2, <3>1, <3>2, <4>2, BeginVoteType
      <4>3. QED
        BY <2>7, <4>1, <4>2 DEF CommitLock
    <3>4. savedLocks' \in [Nodes -> SUBSET Mark]
      BY <2>7, <3>1 DEF CommitLock, TypeOK, Mark
    <3>5. QED
      BY <2>7, <3>3, <3>4 DEF CommitLock, TypeOK
  <2>8. CASE CommitTimeout(n, l)
    <3>1. t.pc = "vote_commit" /\ t.vote.round + 1 \in Rounds
      BY <2>2, <2>8, VoteFields DEF CommitTimeout
    <3>2. [pc |-> "advance_commit", round |-> t.vote.round + 1, sends |-> Sends(n, t)] \in Task
      BY <2>2, <3>1 DEF Task
    <3>3. task' \in [Nodes -> [Lanes -> Task]] /\ sentVotes' \subseteq Vote
      <4>1. CASE Return(n, l, Sends(n, t))
        BY <2>2, <3>1, <4>1, ReturnType
      <4>2. CASE /\ Goto(n, l, [pc |-> "advance_commit", round |-> t.vote.round + 1,
                                sends |-> Sends(n, t)])
                 /\ UNCHANGED sentVotes
        BY <3>2, <4>2, GotoType DEF TypeOK
      <4>3. QED
        BY <2>8, <4>1, <4>2 DEF CommitTimeout
    <3>4. savedVotes' \in [Nodes -> SUBSET Vote]
      BY <2>2, <2>8, <3>1 DEF CommitTimeout, TypeOK
    <3>5. QED
      BY <2>8, <3>3, <3>4 DEF CommitTimeout, TypeOK
  <2>9. CASE CommitAdvance(n, l)
    <3>1. t.pc = "advance_commit" /\ t.round \in Rounds /\ t.sends \in SUBSET Vote
      BY <2>1, <2>9, TaskFields DEF CommitAdvance
    <3>2. QED
      BY <2>9, <3>1, ReturnType DEF CommitAdvance, TypeOK, Larger
  <2>10. CASE CommitPrecommit(n, l)
    <3>1. t.pc = "vote_commit" /\ t.vote.round \in Rounds /\ t.vote.block \in Blocks
      BY <2>2, <2>10, VoteFields DEF CommitPrecommit
    <3>2. /\ task' \in [Nodes -> [Lanes -> Task]]
          /\ sentVotes' \subseteq Vote
          /\ locked' \in [Nodes -> Mark \cup {Unset}]
          /\ certificates' \subseteq Mark
      <4>1. CASE Return(n, l, Sends(n, t)) /\ UNCHANGED <<locked, certificates>>
        BY <2>2, <3>1, <4>1, ReturnType DEF TypeOK
      <4>2. CASE BeginFinalize(n, l, t.vote.round, t.vote.block, TRUE, Sends(n, t))
        BY <2>2, <3>1, <4>2, BeginFinalizeType
      <4>3. QED
        BY <2>10, <4>1, <4>2 DEF CommitPrecommit
    <3>3. savedVotes' \in [Nodes -> SUBSET Vote]
      BY <2>2, <2>10, <3>1 DEF CommitPrecommit, TypeOK
    <3>4. QED
      BY <2>10, <3>2, <3>3 DEF CommitPrecommit, TypeOK
  <2>11. CASE CommitFinal(n, l)
    <3>1. /\ t.pc = "final_commit" /\ t.sends \in SUBSET Vote
          /\ [round |-> t.round, block |-> t.block] \in Mark
      BY <2>1, <2>11, TaskFields DEF CommitFinal, Mark
    <3>2. task' \in [Nodes -> [Lanes -> Task]] /\ sentVotes' \subseteq Vote
      BY <2>11, <3>1, ReturnType DEF CommitFinal
    <3>3. finalized' \in [Nodes -> Mark \cup {Unset}] /\ certificates' \subseteq Mark
      BY <2>11, <3>1 DEF CommitFinal, TypeOK
    <3>4. QED
      BY <2>11, <3>2, <3>3 DEF CommitFinal, TypeOK
  <2>12. QED
    BY <1>6, <2>3, <2>4, <2>5, <2>6, <2>7, <2>8, <2>9, <2>10, <2>11 DEF Resume
<1>7. ASSUME NEW n \in Nodes, NEW l \in Lanes, CommitRaises(n, l)
      PROVE  TypeOK'
  <2>1. task' \in [Nodes -> [Lanes -> Task]]
    BY <1>7, GotoType DEF CommitRaises, Task
  <2>2. QED
    BY <1>7, <2>1, MaxFaultsAssumption DEF CommitRaises, Fault, TypeOK
<1>8. ASSUME NEW n \in Nodes, NEW l \in Lanes, CommitCaught(n, l)
      PROVE  TypeOK'
  <2>1. task[n][l] \in Task
    BY DEF TypeOK
  <2>2. task[n][l].sends \in SUBSET Vote
    BY <1>8, <2>1, TaskFields DEF CommitCaught
  <2>3. task' \in [Nodes -> [Lanes -> Task]] /\ sentVotes' \subseteq Vote
    BY <1>8, <2>2, ReturnType DEF CommitCaught
  <2>4. QED
    BY <1>8, <2>3 DEF CommitCaught, Fault, TypeOK
<1>9. ASSUME NEW n \in Nodes, Restart(n)
      PROVE  TypeOK'
  <2>1. RestoredLocks(n) \subseteq Mark \cup {Unset}
    BY DEF TypeOK, RestoredLocks, SavedMarks
  <2>2. RestoredRounds(n) \subseteq Rounds
    BY TimeoutRoundsType DEF TypeOK, RestoredRounds
  <2>3. PICK r \in RestoredRounds(n) :
          /\ currentRound' = [currentRound EXCEPT ![n] = r]
          /\ savedRound' = [savedRound EXCEPT ![n] = r]
    BY <1>9 DEF Restart
  <2>4. PICK lock \in RestoredLocks(n) : locked' = [locked EXCEPT ![n] = lock]
    BY <1>9 DEF Restart
  <2>5. task' \in [Nodes -> [Lanes -> Task]]
    BY <1>9 DEF Restart, TypeOK, Task
  <2>6. /\ votes' \in [Nodes -> SUBSET Vote]
        /\ pending' \in [Nodes -> [Rounds -> Blocks \cup {Nil}]]
    BY <1>9 DEF Restart, RestoredVotes, TypeOK
  <2>7. /\ currentRound' \in [Nodes -> Rounds]
        /\ savedRound' \in [Nodes -> Rounds]
        /\ locked' \in [Nodes -> Mark \cup {Unset}]
    BY <2>1, <2>2, <2>3, <2>4 DEF TypeOK
  <2>8. QED
    BY <1>9, <2>5, <2>6, <2>7 DEF Restart, Fault, TypeOK
<1>10. CASE UNCHANGED vars
  BY <1>10 DEF vars, TypeOK
<1>11. QED
  BY <1>1, <1>2, <1>3, <1>4, <1>5, <1>6, <1>7, <1>8, <1>9, <1>10
     DEF Next, Driver, Deliver
\* Whatever the nodes, the driver, the network and the crashes do, the
\* coordinator's state keeps its shape: rounds stay in range, a node's rows
\* and votes are votes, a lock or a finality record names a block.
THEOREM TypeCorrect == Spec => []TypeOK
<1>1. Init => TypeOK
  BY TypeInit
<1>2. TypeOK /\ [Next]_vars => TypeOK'
  BY TypeStep
<1>3. QED
  BY <1>1, <1>2, PTL DEF Spec
--------------------------------------------------------------------------------
(***************************************************************************)
(* Quorums.                                                                *)
(***************************************************************************)
LEMMA NodesFinite == IsFiniteSet(Nodes) /\ Cardinality(Nodes) = N
  BY FS_Interval, NAssumption DEF Nodes

\* Two thirds, rounded down, plus one: two quorums intersect, and with two
\* validators or more so do a quorum and a quorum short of one vote.
LEMMA QuorumSizes ==
  /\ QuorumSize \in Nat
  /\ QuorumSize >= 1
  /\ QuorumSize + QuorumSize > N
  /\ N > 1 => QuorumSize >= 2 /\ QuorumSize + (QuorumSize - 1) > N
<1>1. PICK k \in Nat : N = 3 * k \/ N = 3 * k + 1 \/ N = 3 * k + 2
  <2> DEFINE k == N \div 3
  <2>1. k \in Nat /\ (N = 3 * k \/ N = 3 * k + 1 \/ N = 3 * k + 2)
    BY NAssumption
  <2>2. QED
    BY <2>1
<1>2. QED
  BY <1>1, NAssumption DEF QuorumSize

\* A larger set of nodes has no smaller cardinality.
LEMMA NodeSets ==
  ASSUME NEW S \in SUBSET Nodes, NEW T \in SUBSET Nodes, S \subseteq T
  PROVE  /\ Cardinality(S) \in Nat /\ Cardinality(T) \in Nat
         /\ Cardinality(S) <= Cardinality(T)
  BY NodesFinite, FS_Subset, FS_CardinalityType

LEMMA QuorumsMeet ==
  ASSUME NEW S \in SUBSET Nodes, NEW T \in SUBSET Nodes,
         Cardinality(S) + Cardinality(T) > N
  PROVE  S \cap T # {}
  BY NodesFinite, FS_MajoritiesIntersect
--------------------------------------------------------------------------------
(***************************************************************************)
(* Votes of one validator in a set of votes.                               *)
(***************************************************************************)
LEMMA VotedMonotone ==
  ASSUME NEW S, NEW T, S \subseteq T, NEW m, NEW type, NEW r, Voted(S, m, type, r)
  PROVE  Voted(T, m, type, r)
  BY DEF Voted

LEMMA VoteIsVoted ==
  ASSUME NEW S \in SUBSET Vote, NEW v \in S
  PROVE  Voted(S, v.from, v.type, v.round)
  BY VoteFields DEF Voted, Vote

LEMMA VotedVote ==
  ASSUME NEW S \in SUBSET Vote, NEW m, NEW type, NEW r, Voted(S, m, type, r)
  PROVE  \E v \in S : v.from = m /\ v.type = type /\ v.round = r
  BY DEF Voted, CreateVote

\* One more vote adds nothing but itself.
LEMMA VotedAdd ==
  ASSUME NEW S \in SUBSET Vote, NEW v \in Vote, NEW m, NEW type, NEW r,
         Voted(S \cup {v}, m, type, r)
  PROVE  Voted(S, m, type, r) \/ (v.from = m /\ v.type = type /\ v.round = r)
  BY DEF Voted, CreateVote
--------------------------------------------------------------------------------
(***************************************************************************)
(* One handler at a time.                                                  *)
(***************************************************************************)
LEMMA BeginVoteSerial ==
  ASSUME SerialLanes, NEW n \in Nodes, NEW l \in Lanes, NEW v, NEW S, BeginVote(n, l, v, S)
  PROVE  RecordVote(n, l, v, S)
  BY DEF SerialLanes, BeginVote, VoteLockFree

\* What no step ever takes back: a durable vote, a round, a finalized block;
\* and a prevote is new only in the current round, before a timeout vote.
Progress ==
  \A q \in Nodes :
    /\ savedVotes[q] \subseteq savedVotes'[q]
    /\ currentRound[q] <= currentRound'[q]
    /\ finalized[q] # Unset => finalized'[q] = finalized[q]
    /\ \A r \in Rounds :
         Voted(votes'[q], q, "prevote", r) =>
           \/ Voted(votes[q], q, "prevote", r)
           \/ r = currentRound[q] /\ ~Voted(votes[q], q, "round_timeout", r)

\* The votes of the other nodes, and which vote n takes in, for Progress.
LEMMA RecordVoteProgress ==
  ASSUME TypeOK, NEW n \in Nodes, NEW l \in Lanes, NEW v \in Vote, NEW S,
         RecordVote(n, l, v, S),
         v.from = n /\ v.type = "prevote" =>
           v.round = currentRound[n] /\ ~Voted(votes[n], n, "round_timeout", v.round)
  PROVE  \A q \in Nodes, r \in Rounds :
           Voted(votes'[q], q, "prevote", r) =>
             \/ Voted(votes[q], q, "prevote", r)
             \/ r = currentRound[q] /\ ~Voted(votes[q], q, "round_timeout", r)
<1>1. SUFFICES ASSUME NEW q \in Nodes, NEW r \in Rounds,
                      Voted(votes'[q], q, "prevote", r)
               PROVE  \/ Voted(votes[q], q, "prevote", r)
                      \/ r = currentRound[q] /\ ~Voted(votes[q], q, "round_timeout", r)
  OBVIOUS
<1>2. CASE UNCHANGED votes
  BY <1>1, <1>2
<1>3. CASE votes' = [votes EXCEPT ![n] = @ \cup {v}]
  <2>1. votes[q] \in SUBSET Vote
    BY DEF TypeOK
  <2>2. CASE q # n
    BY <1>1, <1>3, <2>2 DEF TypeOK
  <2>3. CASE q = n
    <3>1. Voted(votes[n] \cup {v}, n, "prevote", r)
      BY <1>1, <1>3, <2>3 DEF TypeOK
    <3>2. QED
      BY <2>1, <2>3, <3>1, VotedAdd
  <2>4. QED
    BY <2>2, <2>3
<1>4. QED
  BY <1>2, <1>3 DEF RecordVote
LEMMA SerialProgress ==
  ASSUME TypeOK, SerialLanes, SerialInv, Next
  PROVE  Progress
<1> USE DEF network, memory, disk
<1> DEFINE Prevotes ==
      \A q \in Nodes, r \in Rounds :
        Voted(votes'[q], q, "prevote", r) =>
          \/ Voted(votes[q], q, "prevote", r)
          \/ r = currentRound[q] /\ ~Voted(votes[q], q, "round_timeout", r)
<1>1. ASSUME NEW n \in Nodes, NEW r \in Rounds, NEW b \in Blocks,
             NEW vr \in Rounds \cup {-1}, Propose(n, r, b, vr)
      PROVE  Progress
  BY <1>1 DEF Propose, Progress, TypeOK, Rounds
<1>2. ASSUME NEW n \in Nodes, NEW l \in Lanes, NEW r \in Rounds, OnRoundTimeout(n, l, r)
      PROVE  Progress
  <2>1. /\ TimeoutVote(n, r) \in Vote
        /\ TimeoutVote(n, r).type = "round_timeout"
        /\ RecordVote(n, l, TimeoutVote(n, r), {})
    BY <1>2, CreateVoteType, BeginVoteSerial DEF OnRoundTimeout, TimeoutVote, CreateVote
  <2>2. Prevotes
    BY <2>1, RecordVoteProgress
  <2>3. QED
    BY <1>2, <2>2 DEF OnRoundTimeout, Progress, TypeOK, Rounds
<1>3. ASSUME NEW n \in Nodes, NEW l \in Lanes, NEW m \in proposals, ReceiveProposal(n, l, m)
      PROVE  Progress
  BY <1>3 DEF ReceiveProposal, Progress, TypeOK, Rounds
<1>4. ASSUME NEW n \in Nodes, NEW l \in Lanes, NEW v \in sentVotes, ReceiveVote(n, l, v)
      PROVE  Progress
  <2>1. v \in Vote /\ RecordVote(n, l, v, {})
    BY <1>4, BeginVoteSerial DEF ReceiveVote, TypeOK
  <2>2. v.from # n
    <3>1. SUFFICES ASSUME v.from = n
                   PROVE  FALSE
      OBVIOUS
    <3>2. v \in votes[n]
      BY <3>1 DEF SerialInv, DiskInMemory, SeenIsDurable
    <3>3. QED
      BY <1>4, <3>1, <3>2, VoteIsVoted DEF ReceiveVote, TypeOK
  <2>3. Prevotes
    BY <2>1, <2>2, RecordVoteProgress
  <2>4. QED
    BY <1>4, <2>3 DEF ReceiveVote, Progress, TypeOK, Rounds
<1>5. ASSUME NEW n \in Nodes, NEW l \in Lanes, NEW c \in certificates,
             ReceiveCertificate(n, l, c)
      PROVE  Progress
  BY <1>5 DEF ReceiveCertificate, Progress, TypeOK, Rounds
<1>6. ASSUME NEW n \in Nodes, NEW l \in Lanes, Resume(n, l)
      PROVE  Progress
  <2> DEFINE t == task[n][l]
  <2>1. t \in Task /\ HandlerOK(n, t)
    BY DEF TypeOK, SerialInv, HandlersOK
  <2>2. CASE ReadTip(n, l)
    BY <2>2 DEF ReadTip, Progress, TypeOK, Rounds
  <2>3. CASE CommitProposal(n, l)
    <3>1. t.pc = "proposal_commit" /\ t.round \in Rounds /\ t.block \in Blocks
      BY <2>1, <2>3, TaskFields DEF CommitProposal
    <3>2. Prevotes
      <4>1. CASE UNCHANGED votes
        BY <4>1
      <4>2. CASE BeginVote(n, l, CreateVote(n, "prevote", t.round, t.block), {})
        <5>1. /\ CreateVote(n, "prevote", t.round, t.block) \in Vote
              /\ RecordVote(n, l, CreateVote(n, "prevote", t.round, t.block), {})
              /\ CreateVote(n, "prevote", t.round, t.block).round = t.round
          BY <3>1, <4>2, CreateVoteType, BeginVoteSerial DEF CreateVote
        <5>2. t.round = currentRound[n] /\ ~Voted(votes[n], n, "round_timeout", t.round)
          BY <2>1, <3>1 DEF HandlerOK
        <5>3. QED
          BY <5>1, <5>2, RecordVoteProgress
      <4>3. QED
        BY <2>3, <4>1, <4>2 DEF CommitProposal
    <3>3. QED
      BY <2>3, <3>2 DEF CommitProposal, Progress, TypeOK, Rounds
  <2>4. CASE AcquireVoteLock(n, l)
    BY <2>1, <2>4 DEF AcquireVoteLock, HandlerOK
  <2>5. CASE CommitPrevote(n, l)
    BY <2>5 DEF CommitPrevote, Progress, TypeOK, Rounds
  <2>6. CASE CommitLock(n, l)
    <3>1. t.pc = "lock_commit" /\ t.vote.round \in Rounds /\ t.vote.block \in Blocks
      BY <2>1, <2>6, TaskFields, VoteFields DEF CommitLock
    <3>2. Prevotes
      <4>1. CASE UNCHANGED votes
        BY <4>1
      <4>2. CASE BeginVote(n, l, CreateVote(n, "precommit", t.vote.round, t.vote.block),
                           t.sends)
        <5>1. /\ CreateVote(n, "precommit", t.vote.round, t.vote.block) \in Vote
              /\ RecordVote(n, l, CreateVote(n, "precommit", t.vote.round, t.vote.block),
                            t.sends)
              /\ CreateVote(n, "precommit", t.vote.round, t.vote.block).type = "precommit"
          BY <3>1, <4>2, CreateVoteType, BeginVoteSerial DEF CreateVote
        <5>2. QED
          BY <5>1, RecordVoteProgress
      <4>3. QED
        BY <2>6, <4>1, <4>2 DEF CommitLock
    <3>3. QED
      BY <2>6, <3>2 DEF CommitLock, Progress, TypeOK, Rounds
  <2>7. CASE CommitTimeout(n, l)
    BY <2>7 DEF CommitTimeout, Progress, TypeOK, Rounds
  <2>8. CASE CommitAdvance(n, l)
    <3>1. t.pc = "advance_commit" /\ t.round \in Rounds /\ t.round > currentRound[n]
      BY <2>1, <2>8, TaskFields DEF CommitAdvance, HandlerOK
    <3>2. QED
      BY <2>8, <3>1 DEF CommitAdvance, Progress, TypeOK, Rounds
  <2>9. CASE CommitPrecommit(n, l)
    BY <2>9 DEF CommitPrecommit, Progress, TypeOK, Rounds
  <2>10. CASE CommitFinal(n, l)
    BY <2>10 DEF CommitFinal, Progress, TypeOK, Rounds
  <2>11. QED
    BY <1>6, <2>2, <2>3, <2>4, <2>5, <2>6, <2>7, <2>8, <2>9, <2>10 DEF Resume
<1>7. ASSUME NEW n \in Nodes, NEW l \in Lanes, CommitRaises(n, l)
      PROVE  Progress
  BY <1>7 DEF CommitRaises, Progress, TypeOK, Rounds
<1>8. ASSUME NEW n \in Nodes, NEW l \in Lanes, CommitCaught(n, l)
      PROVE  Progress
  BY <1>8 DEF CommitCaught, Progress, TypeOK, Rounds
<1>9. ASSUME NEW n \in Nodes, Restart(n)
      PROVE  Progress
  <2>1. PICK r \in RestoredRounds(n) : currentRound' = [currentRound EXCEPT ![n] = r]
    BY <1>9 DEF Restart
  <2>2. r \in Rounds /\ currentRound[n] <= r
    <3>1. currentRound[n] \in Rounds /\ savedRound[n] = currentRound[n]
      BY DEF TypeOK, SerialInv, DiskInMemory
    <3>2. QED
      BY <3>1, TimeoutRoundsType DEF RestoredRounds, Rounds
  <2>3. Prevotes
    <3>1. savedVotes[n] \subseteq votes[n]
      BY DEF SerialInv, DiskInMemory
    <3>2. votes' = [votes EXCEPT ![n] = savedVotes[n]]
      BY <1>9 DEF Restart, RestoredVotes
    <3>3. QED
      BY <3>1, <3>2, VotedMonotone DEF TypeOK
  <2>4. QED
    BY <1>9, <2>1, <2>2, <2>3 DEF Restart, Progress, TypeOK, Rounds
<1>10. QED
  BY <1>1, <1>2, <1>3, <1>4, <1>5, <1>6, <1>7, <1>8, <1>9 DEF Next, Driver, Deliver
\* A round that has been given up stays given up, and what backs a block
\* keeps backing it.
LEMMA SetsGrow ==
  ASSUME TypeOK, TypeOK', DiskInMemory, Progress, NEW r \in Rounds
  PROVE  /\ Leavers(r) \subseteq Leavers(r)'
         /\ \A b \in Blocks : Backed(r, b) => Backed(r, b)'
<1>1. Leavers(r) \subseteq Leavers(r)'
  <2>1. SUFFICES ASSUME NEW q \in Nodes, GivenUp(q, r)
                 PROVE  GivenUp(q, r)'
    BY DEF Leavers
  <2>2. CASE Voted(savedVotes[q], q, "round_timeout", r)
    <3>1. Voted(savedVotes'[q], q, "round_timeout", r)
      BY <2>2, VotedMonotone DEF Progress
    <3>2. Voted(votes[q], q, "round_timeout", r)
      BY <2>2, VotedMonotone DEF DiskInMemory
    <3>3. ~Voted(votes'[q], q, "prevote", r)
      BY <2>1, <3>2 DEF Progress, GivenUp
    <3>4. QED
      BY <3>1, <3>3 DEF GivenUp
  <2>3. CASE currentRound[q] > r
    <3>1. /\ currentRound[q] \in Int /\ currentRound'[q] \in Int /\ r \in Int
          /\ currentRound[q] <= currentRound'[q]
      BY DEF Progress, TypeOK, Rounds
    <3>2. ~Voted(votes'[q], q, "prevote", r)
      BY <2>1, <2>3, <3>1 DEF Progress, GivenUp
    <3>3. QED
      BY <2>3, <3>1, <3>2 DEF GivenUp
  <2>4. QED
    BY <2>1, <2>2, <2>3 DEF GivenUp
<1>2. ASSUME NEW b \in Blocks, Backed(r, b)
      PROVE  Backed(r, b)'
  <2>1. Backers(r, b) \subseteq Backers(r, b)'
    BY DEF Backers, Progress
  <2>2. Cardinality(Backers(r, b)) <= Cardinality(Backers(r, b)')
    BY <2>1, NodeSets DEF Backers
  <2>3. QED
    BY <1>2, <2>2, NodeSets, QuorumSizes DEF Backed, Backers
<1>3. QED
  BY <1>1, <1>2
--------------------------------------------------------------------------------
(***************************************************************************)
(* What a step can do to the votes: node n takes one in, saves one, or     *)
(* does not touch them.  CommitAdvance and Restart are left as they are.   *)
(***************************************************************************)
TakesVote(n) ==
  /\ UNCHANGED <<savedVotes, savedRound, currentRound>>
  /\ \E v \in Vote :
       /\ votes' = [votes EXCEPT ![n] = @ \cup {v}]
       /\ v.from # n => v \in sentVotes
       /\ v.from = n /\ v.type = "prevote" =>
            v.round = currentRound[n] /\ ~Voted(votes[n], n, "round_timeout", v.round)
       /\ v.from = n /\ v.type = "round_timeout" =>
            v.round = currentRound[n] /\ ~Voted(votes[n], n, "prevote", v.round)

SavesVote(n) ==
  /\ UNCHANGED <<votes, savedRound, currentRound>>
  /\ \E v \in votes[n] : savedVotes' = [savedVotes EXCEPT ![n] = @ \cup {v}]

VotesStay == UNCHANGED <<votes, savedVotes, savedRound, currentRound>>

\* What goes on the wire is durable.
SendsDurable == \A v \in sentVotes' : v \in sentVotes \/ v \in savedVotes'[v.from]

VoteEffect ==
  /\ SendsDurable
  /\ \/ VotesStay
     \/ \E n \in Nodes : TakesVote(n) \/ SavesVote(n) \/ Restart(n)
     \/ \E n \in Nodes, l \in Lanes : CommitAdvance(n, l)

\* A vote that a handler records is taken in, and what it had to send may go.
LEMMA RecordVoteEffect ==
  ASSUME TypeOK, NEW n \in Nodes, NEW l \in Lanes, NEW v \in Vote, NEW S,
         RecordVote(n, l, v, S), UNCHANGED <<savedVotes, savedRound, currentRound>>,
         \A u \in S : u \in savedVotes[u.from],
         v.from # n => v \in sentVotes,
         v.from = n /\ v.type = "prevote" =>
           v.round = currentRound[n] /\ ~Voted(votes[n], n, "round_timeout", v.round),
         v.from = n /\ v.type = "round_timeout" =>
           v.round = currentRound[n] /\ ~Voted(votes[n], n, "prevote", v.round)
  PROVE  VoteEffect
<1>1. CASE Return(n, l, S) /\ UNCHANGED votes
  BY <1>1 DEF Return, VoteEffect, SendsDurable, VotesStay
<1>2. CASE votes' = [votes EXCEPT ![n] = @ \cup {v}] /\ UNCHANGED sentVotes
  BY <1>2 DEF VoteEffect, SendsDurable, TakesVote
<1>3. QED
  BY <1>1, <1>2 DEF RecordVote

LEMMA VoteEffects ==
  ASSUME TypeOK, SerialLanes, SerialInv, Next
  PROVE  VoteEffect
<1> USE DEF network, memory, disk
<1>1. ASSUME NEW n \in Nodes, NEW r \in Rounds, NEW b \in Blocks,
             NEW vr \in Rounds \cup {-1}, Propose(n, r, b, vr)
      PROVE  VoteEffect
  BY <1>1 DEF Propose, VoteEffect, SendsDurable, VotesStay
<1>2. ASSUME NEW n \in Nodes, NEW l \in Lanes, NEW r \in Rounds, OnRoundTimeout(n, l, r)
      PROVE  VoteEffect
  <2> DEFINE v == TimeoutVote(n, r)
  <2>1. /\ v \in Vote
        /\ v.type = "round_timeout" /\ v.round = r /\ v.from = n
        /\ RecordVote(n, l, v, {})
    BY <1>2, CreateVoteType, BeginVoteSerial DEF OnRoundTimeout, TimeoutVote, CreateVote
  <2>2. r = currentRound[n] /\ ~Voted(votes[n], n, "prevote", r)
    BY <1>2 DEF OnRoundTimeout
  <2>3. UNCHANGED <<savedVotes, savedRound, currentRound>>
    BY <1>2 DEF OnRoundTimeout
  <2> HIDE DEF v
  <2>4. QED
    BY <2>1, <2>2, <2>3, RecordVoteEffect
<1>3. ASSUME NEW n \in Nodes, NEW l \in Lanes, NEW m \in proposals, ReceiveProposal(n, l, m)
      PROVE  VoteEffect
  BY <1>3 DEF ReceiveProposal, VoteEffect, SendsDurable, VotesStay
<1>4. ASSUME NEW n \in Nodes, NEW l \in Lanes, NEW v \in sentVotes, ReceiveVote(n, l, v)
      PROVE  VoteEffect
  <2>1. /\ v \in Vote /\ RecordVote(n, l, v, {})
        /\ UNCHANGED <<savedVotes, savedRound, currentRound>>
    BY <1>4, BeginVoteSerial DEF ReceiveVote, TypeOK
  <2>2. v.from # n
    BY <1>4, VoteIsVoted DEF ReceiveVote, TypeOK, SerialInv, DiskInMemory, SeenIsDurable
  <2>3. QED
    BY <2>1, <2>2, RecordVoteEffect
<1>5. ASSUME NEW n \in Nodes, NEW l \in Lanes, NEW c \in certificates,
             ReceiveCertificate(n, l, c)
      PROVE  VoteEffect
  BY <1>5 DEF ReceiveCertificate, BeginFinalize, Return, VoteEffect, SendsDurable, VotesStay
<1>6. ASSUME NEW n \in Nodes, NEW l \in Lanes, Resume(n, l)
      PROVE  VoteEffect
  <2> DEFINE t == task[n][l]
  <2>1. t \in Task /\ HandlerOK(n, t)
    BY DEF TypeOK, SerialInv, HandlersOK
  <2>2. CASE ReadTip(n, l)
    BY <2>2 DEF ReadTip, VoteEffect, SendsDurable, VotesStay
  <2>3. CASE CommitProposal(n, l)
    <3>1. t.pc = "proposal_commit" /\ t.round \in Rounds /\ t.block \in Blocks
      BY <2>1, <2>3, TaskFields DEF CommitProposal
    <3>2. UNCHANGED <<savedVotes, savedRound, currentRound>>
      BY <2>3 DEF CommitProposal
    <3>3. CASE Return(n, l, {}) /\ UNCHANGED votes
      BY <3>2, <3>3 DEF Return, VoteEffect, SendsDurable, VotesStay
    <3>4. CASE BeginVote(n, l, CreateVote(n, "prevote", t.round, t.block), {})
      <4> DEFINE v == CreateVote(n, "prevote", t.round, t.block)
      <4>1. /\ v \in Vote
            /\ v.type = "prevote" /\ v.round = t.round /\ v.from = n
            /\ RecordVote(n, l, v, {})
        BY <3>1, <3>4, CreateVoteType, BeginVoteSerial DEF CreateVote
      <4>2. t.round = currentRound[n] /\ ~Voted(votes[n], n, "round_timeout", t.round)
        BY <2>1, <3>1 DEF HandlerOK
      <4> HIDE DEF v
      <4>3. QED
        BY <3>2, <4>1, <4>2, RecordVoteEffect
    <3>5. QED
      BY <2>3, <3>3, <3>4 DEF CommitProposal
  <2>4. CASE AcquireVoteLock(n, l)
    BY <2>1, <2>4 DEF AcquireVoteLock, HandlerOK
  <2>5. CASE t.pc = "vote_commit" /\ (CommitPrevote(n, l) \/ CommitTimeout(n, l)
                                       \/ CommitPrecommit(n, l))
    <3>1. /\ t.vote \in votes[n]
          /\ \A v \in Sends(n, t) : v.from = n /\ v \in savedVotes[n] \cup {t.vote}
      BY <2>1, <2>5 DEF HandlerOK, Sends
    <3>2. /\ savedVotes' = [savedVotes EXCEPT ![n] = @ \cup {t.vote}]
          /\ UNCHANGED <<votes, savedRound, currentRound>>
      BY <2>5 DEF CommitPrevote, CommitTimeout, CommitPrecommit
    <3>3. sentVotes' \subseteq sentVotes \cup Sends(n, t)
      BY <2>5 DEF CommitPrevote, CommitTimeout, CommitPrecommit, BeginFinalize, Return
    <3>4. SavesVote(n)
      BY <3>1, <3>2 DEF SavesVote
    <3>5. SendsDurable
      BY <3>1, <3>2, <3>3 DEF SendsDurable, TypeOK
    <3>6. QED
      BY <3>4, <3>5 DEF VoteEffect
  <2>6. CASE CommitLock(n, l)
    <3>1. t.pc = "lock_commit" /\ t.vote.round \in Rounds /\ t.vote.block \in Blocks
      BY <2>1, <2>6, TaskFields, VoteFields DEF CommitLock
    <3>2. UNCHANGED <<savedVotes, savedRound, currentRound>>
      BY <2>6 DEF CommitLock
    <3>3. \A u \in t.sends : u \in savedVotes[u.from]
      BY <2>1, <3>1 DEF HandlerOK
    <3>4. CASE Return(n, l, t.sends) /\ UNCHANGED votes
      BY <3>2, <3>3, <3>4 DEF Return, VoteEffect, SendsDurable, VotesStay
    <3>5. CASE BeginVote(n, l, CreateVote(n, "precommit", t.vote.round, t.vote.block),
                         t.sends)
      <4> DEFINE v == CreateVote(n, "precommit", t.vote.round, t.vote.block)
      <4>1. /\ v \in Vote
            /\ v.type = "precommit" /\ v.from = n
            /\ RecordVote(n, l, v, t.sends)
        BY <3>1, <3>5, CreateVoteType, BeginVoteSerial DEF CreateVote
      <4> HIDE DEF v
      <4>2. QED
        BY <3>2, <3>3, <4>1, RecordVoteEffect
    <3>6. QED
      BY <2>6, <3>4, <3>5 DEF CommitLock
  <2>7. CASE CommitAdvance(n, l)
    <3>1. \A u \in t.sends : u \in savedVotes[u.from]
      BY <2>1, <2>7 DEF HandlerOK, CommitAdvance
    <3>2. QED
      BY <2>7, <3>1 DEF CommitAdvance, Return, VoteEffect, SendsDurable
  <2>8. CASE CommitFinal(n, l)
    <3>1. \A u \in t.sends : u \in savedVotes[u.from]
      BY <2>1, <2>8 DEF HandlerOK, CommitFinal
    <3>2. QED
      BY <2>8, <3>1 DEF CommitFinal, Return, VoteEffect, SendsDurable, VotesStay
  <2>9. QED
    BY <1>6, <2>2, <2>3, <2>4, <2>5, <2>6, <2>7, <2>8
       DEF Resume, CommitPrevote, CommitTimeout, CommitPrecommit
<1>7. ASSUME NEW n \in Nodes, NEW l \in Lanes, CommitRaises(n, l)
      PROVE  VoteEffect
  BY <1>7 DEF CommitRaises, VoteEffect, SendsDurable, VotesStay
<1>8. ASSUME NEW n \in Nodes, NEW l \in Lanes, CommitCaught(n, l)
      PROVE  VoteEffect
  <2>1. HandlerOK(n, task[n][l])
    BY DEF SerialInv, HandlersOK
  <2>2. \A u \in task[n][l].sends : u \in savedVotes[u.from]
    BY <1>8, <2>1 DEF HandlerOK, CommitCaught
  <2>3. QED
    BY <1>8, <2>2 DEF CommitCaught, Return, VoteEffect, SendsDurable, VotesStay
<1>9. ASSUME NEW n \in Nodes, Restart(n)
      PROVE  VoteEffect
  BY <1>9 DEF Restart, VoteEffect, SendsDurable
<1>10. QED
  BY <1>1, <1>2, <1>3, <1>4, <1>5, <1>6, <1>7, <1>8, <1>9 DEF Next, Driver, Deliver
\* The four invariants about votes follow from what a step can do to them.
LEMMA VotesStep ==
  ASSUME TypeOK, TypeOK', SerialLanes, SerialInv, Next
  PROVE  DiskInMemory' /\ SeenIsDurable' /\ PrevoteOrTimeout' /\ VotesInPast'
<1> USE DEF SerialInv
<1>1. Progress /\ SendsDurable
  BY SerialProgress, VoteEffects DEF VoteEffect
<1>2. \A v \in sentVotes' : v \in savedVotes'[v.from]
  <2>1. SUFFICES ASSUME NEW v \in sentVotes', v \in sentVotes
                 PROVE  v \in savedVotes'[v.from]
    BY <1>1 DEF SendsDurable
  <2>2. v.from \in Nodes /\ v \in savedVotes[v.from]
    BY <2>1, VoteFields DEF SeenIsDurable, TypeOK
  <2>3. QED
    BY <1>1, <2>2 DEF Progress
<1>3. \A n \in Nodes : \A v \in votes[n] : v.from # n => v \in savedVotes'[v.from]
  BY <1>1, VoteFields DEF SeenIsDurable, Progress, TypeOK
<1>4. \A n \in Nodes, r \in Rounds :
        Voted(votes[n], n, "prevote", r) \/ Voted(votes[n], n, "round_timeout", r)
          => r <= currentRound'[n]
  BY <1>1 DEF VotesInPast, Progress, TypeOK, Rounds
<1>5. CASE VotesStay
  BY <1>2, <1>3, <1>5 DEF VotesStay, DiskInMemory, SeenIsDurable, PrevoteOrTimeout, VotesInPast
<1>6. ASSUME NEW n \in Nodes, TakesVote(n)
      PROVE  DiskInMemory' /\ SeenIsDurable' /\ PrevoteOrTimeout' /\ VotesInPast'
  <2>1. PICK v \in Vote :
          /\ votes' = [votes EXCEPT ![n] = @ \cup {v}]
          /\ v.from # n => v \in sentVotes
          /\ v.from = n /\ v.type = "prevote" =>
               v.round = currentRound[n] /\ ~Voted(votes[n], n, "round_timeout", v.round)
          /\ v.from = n /\ v.type = "round_timeout" =>
               v.round = currentRound[n] /\ ~Voted(votes[n], n, "prevote", v.round)
    BY <1>6 DEF TakesVote
  <2>2. UNCHANGED <<savedVotes, savedRound, currentRound>>
    BY <1>6 DEF TakesVote
  <2>3. /\ votes'[n] = votes[n] \cup {v}
        /\ \A m \in Nodes : m # n => votes'[m] = votes[m]
    BY <2>1 DEF TypeOK
  <2>4. \A type, r : Voted(votes'[n], n, type, r) =>
          Voted(votes[n], n, type, r) \/ (v.from = n /\ v.type = type /\ v.round = r)
    <3>1. SUFFICES ASSUME NEW type, NEW r, Voted(votes[n] \cup {v}, n, type, r)
                   PROVE  Voted(votes[n], n, type, r)
                            \/ (v.from = n /\ v.type = type /\ v.round = r)
      BY <2>3
    <3>2. QED
      BY <3>1 DEF Voted, CreateVote
  <2>5. DiskInMemory'
    BY <2>2, <2>3 DEF DiskInMemory
  <2>6. SeenIsDurable'
    BY <1>2, <1>3, <2>1, <2>2, <2>3 DEF SeenIsDurable
  <2>7. PrevoteOrTimeout'
    BY <2>1, <2>3, <2>4 DEF PrevoteOrTimeout
  <2>8. VotesInPast'
    BY <1>4, <2>1, <2>2, <2>3, <2>4 DEF VotesInPast, TypeOK, Rounds
  <2>9. QED
    BY <2>5, <2>6, <2>7, <2>8
<1>7. ASSUME NEW n \in Nodes, SavesVote(n)
      PROVE  DiskInMemory' /\ SeenIsDurable' /\ PrevoteOrTimeout' /\ VotesInPast'
  <2>1. UNCHANGED <<votes, savedRound, currentRound>>
    BY <1>7 DEF SavesVote
  <2>2. DiskInMemory'
    BY <1>7 DEF SavesVote, DiskInMemory, TypeOK
  <2>3. QED
    BY <1>2, <1>3, <2>1, <2>2 DEF SeenIsDurable, PrevoteOrTimeout, VotesInPast
<1>8. ASSUME NEW n \in Nodes, Restart(n)
      PROVE  DiskInMemory' /\ SeenIsDurable' /\ PrevoteOrTimeout' /\ VotesInPast'
  <2>1. /\ votes' = [votes EXCEPT ![n] = savedVotes[n]]
        /\ UNCHANGED savedVotes
    BY <1>8 DEF Restart, RestoredVotes
  <2>2. PICK r \in RestoredRounds(n) :
          /\ currentRound' = [currentRound EXCEPT ![n] = r]
          /\ savedRound' = [savedRound EXCEPT ![n] = r]
    BY <1>8 DEF Restart
  <2>3. \A m \in Nodes : votes'[m] \subseteq votes[m]
    BY <2>1 DEF DiskInMemory, TypeOK
  <2>4. \A m \in Nodes : \A type, x : Voted(votes'[m], m, type, x) => Voted(votes[m], m, type, x)
    BY <2>3, VotedMonotone
  <2>5. DiskInMemory'
    BY <2>1, <2>2 DEF DiskInMemory, TypeOK
  <2>6. QED
    BY <1>2, <1>3, <1>4, <2>3, <2>4, <2>5 DEF SeenIsDurable, PrevoteOrTimeout, VotesInPast
<1>9. ASSUME NEW n \in Nodes, NEW l \in Lanes, CommitAdvance(n, l)
      PROVE  DiskInMemory' /\ SeenIsDurable' /\ PrevoteOrTimeout' /\ VotesInPast'
  <2>1. UNCHANGED <<votes, savedVotes>>
    BY <1>9 DEF CommitAdvance
  <2>2. DiskInMemory'
    <3> DEFINE t == task[n][l]
    <3>1. t \in Task /\ HandlerOK(n, t) /\ t.pc = "advance_commit"
      BY <1>9 DEF TypeOK, HandlersOK, CommitAdvance
    <3>2. t.round \in Rounds /\ t.round > savedRound[n]
      BY <3>1, TaskFields DEF HandlerOK, DiskInMemory
    <3>3. /\ savedRound' = [savedRound EXCEPT ![n] = t.round]
          /\ currentRound' = [currentRound EXCEPT ![n] = t.round]
      <4>1. Larger(savedRound[n], t.round) = t.round
        BY <3>2 DEF Larger, TypeOK, Rounds
      <4>2. QED
        BY <1>9, <4>1 DEF CommitAdvance
    <3>4. QED
      BY <2>1, <3>3 DEF DiskInMemory, TypeOK
  <2>3. QED
    BY <1>2, <1>3, <1>4, <2>1, <2>2 DEF SeenIsDurable, PrevoteOrTimeout, VotesInPast
<1>10. QED
  BY <1>5, <1>6, <1>7, <1>8, <1>9, VoteEffects DEF VoteEffect
--------------------------------------------------------------------------------
(***************************************************************************)
(* Rounds left behind.                                                     *)
(***************************************************************************)
\* A vote a node holds is in its signer's memory too.
LEMMA HeldBySigner ==
  ASSUME TypeOK, SerialInv, NEW n \in Nodes, NEW v \in votes[n]
  PROVE  /\ v.from \in Nodes
         /\ v \in votes[v.from]
         /\ v.from # n => v \in savedVotes[v.from]
<1>1. v.from \in Nodes
  BY VoteFields DEF TypeOK
<1>2. v.from # n => v \in savedVotes[v.from]
  BY DEF SerialInv, SeenIsDurable
<1>3. QED
  BY <1>1, <1>2 DEF SerialInv, DiskInMemory

\* A quorum has somebody in it.
LEMMA QuorumMember ==
  ASSUME NEW S \in SUBSET Nodes, Cardinality(S) >= QuorumSize
  PROVE  \E q \in Nodes : q \in S
<1>1. SUFFICES ASSUME S = {}
               PROVE  FALSE
  OBVIOUS
<1>2. QED
  BY <1>1, FS_EmptySet, QuorumSizes

\* A timeout quorum of a round, in the memory of a node, gives up that round
\* and every round before it; only the node's own vote need not be durable.
LEMMA TimeoutQuorum ==
  ASSUME TypeOK, SerialInv, NEW n \in Nodes, NEW x \in Rounds, NEW r \in Rounds, r <= x,
         NEW S \in SUBSET votes[n], HasQuorum(S, "round_timeout", x, Nil)
  PROVE  /\ Cardinality(LeaversWith(n, r)) >= QuorumSize
         /\ S \subseteq savedVotes[n] => Cardinality(Leavers(r)) >= QuorumSize
<1> DEFINE T == Voters(S, "round_timeout", x, Nil)
           vote(q) == CreateVote(q, "round_timeout", x, Nil)
<1>1. T \subseteq Nodes /\ Cardinality(T) >= QuorumSize
  BY DEF Voters, HasQuorum
<1>2. \A q \in T : /\ vote(q) \in S /\ vote(q) \in votes[n] /\ vote(q) \in votes[q]
                   /\ q # n => vote(q) \in savedVotes[q]
  BY HeldBySigner DEF Voters, CreateVote
<1>3. \A q \in T : Voted(votes[q], q, "round_timeout", x)
  BY <1>2 DEF Voted
<1>4. /\ Leavers(r) \subseteq Nodes /\ LeaversWith(n, r) \subseteq Nodes
      /\ Leavers(r) \subseteq LeaversWith(n, r)
  BY DEF Leavers, LeaversWith
<1>5. CASE r < x
  <2>1. PICK q \in Nodes : q \in T
    BY <1>1, QuorumMember
  <2>2. x <= currentRound[q]
    BY <1>3, <2>1 DEF SerialInv, VotesInPast
  <2>3. r < currentRound[q]
    BY <1>5, <2>2 DEF TypeOK, Rounds
  <2>4. Cardinality(Leavers(r)) >= QuorumSize
    BY <2>3 DEF SerialInv, RoundsGivenUp
  <2>5. QED
    BY <1>4, <2>4, NodeSets, QuorumSizes
<1>6. CASE r = x
  <2>1. \A q \in T : ~Voted(votes[q], q, "prevote", x)
    BY <1>1, <1>3 DEF SerialInv, PrevoteOrTimeout
  <2>2. \A q \in T : q # n \/ S \subseteq savedVotes[n] =>
          Voted(savedVotes[q], q, "round_timeout", x)
    BY <1>2 DEF Voted
  <2>3. /\ T \subseteq LeaversWith(n, r)
        /\ S \subseteq savedVotes[n] => T \subseteq Leavers(r)
    BY <1>1, <1>6, <2>1, <2>2 DEF LeaversWith, Leavers, GivenUp
  <2> HIDE DEF T
  <2>4. QED
    BY <1>1, <1>4, <2>3, NodeSets, QuorumSizes
<1>7. QED
  BY <1>5, <1>6 DEF Rounds

\* No step makes a node leave a round that could still decide.
LEMMA RoundsStep ==
  ASSUME TypeOK, TypeOK', SerialLanes, SerialInv, Next
  PROVE  RoundsGivenUp'
<1>1. Progress /\ DiskInMemory
  BY SerialProgress DEF SerialInv
<1>2. \A n \in Nodes, r \in Rounds :
        r < currentRound[n] => Cardinality(Leavers(r)') >= QuorumSize
  <2>1. SUFFICES ASSUME NEW r \in Rounds, Cardinality(Leavers(r)) >= QuorumSize
                 PROVE  Cardinality(Leavers(r)') >= QuorumSize
    BY DEF SerialInv, RoundsGivenUp
  <2>2. Leavers(r) \subseteq Leavers(r)' /\ Leavers(r)' \subseteq Nodes
    BY <1>1, SetsGrow DEF Leavers
  <2>3. QED
    BY <2>1, <2>2, NodeSets, QuorumSizes
<1>3. CASE UNCHANGED currentRound
  BY <1>2, <1>3 DEF RoundsGivenUp
<1>4. ASSUME NEW n \in Nodes, NEW l \in Lanes, CommitAdvance(n, l)
      PROVE  RoundsGivenUp'
  <2> DEFINE t == task[n][l]
  <2>1. t \in Task /\ HandlerOK(n, t) /\ t.pc = "advance_commit"
    BY <1>4 DEF TypeOK, SerialInv, HandlersOK, CommitAdvance
  <2>2. /\ t.round \in Rounds
        /\ \A r \in Rounds : r < t.round => Cardinality(LeaversWith(n, r)) >= QuorumSize
    BY <2>1, TaskFields DEF HandlerOK
  <2>3. /\ currentRound' = [currentRound EXCEPT ![n] = t.round]
        /\ UNCHANGED votes
    BY <1>4 DEF CommitAdvance
  <2>4. SUFFICES ASSUME NEW r \in Rounds, r < t.round
                 PROVE  Cardinality(Leavers(r)') >= QuorumSize
    BY <1>2, <2>3 DEF RoundsGivenUp, TypeOK
  <2>5. LeaversWith(n, r) \subseteq Leavers(r)'
    <3>1. Leavers(r) \subseteq Leavers(r)'
      BY <1>1, SetsGrow
    <3>2. currentRound'[n] > r
      BY <2>2, <2>3, <2>4 DEF TypeOK, Rounds
    <3>3. ~Voted(votes[n], n, "prevote", r) => n \in Leavers(r)'
      BY <2>3, <3>2 DEF Leavers, GivenUp
    <3>4. QED
      BY <3>1, <3>3 DEF LeaversWith
  <2>6. Leavers(r)' \subseteq Nodes /\ LeaversWith(n, r) \subseteq Nodes
    BY DEF Leavers, LeaversWith
  <2>7. QED
    BY <2>2, <2>4, <2>5, <2>6, NodeSets, QuorumSizes
<1>5. ASSUME NEW n \in Nodes, Restart(n)
      PROVE  RoundsGivenUp'
  <2>1. PICK x \in RestoredRounds(n) : currentRound' = [currentRound EXCEPT ![n] = x]
    BY <1>5 DEF Restart
  <2>2. CASE x = savedRound[n]
    BY <1>1, <1>2, <2>1, <2>2 DEF RoundsGivenUp, TypeOK, DiskInMemory
  <2>3. ASSUME NEW y \in TimeoutRounds, x = y + 1,
               HasCertificate(savedVotes[n], "round_timeout", y, Nil)
        PROVE  RoundsGivenUp'
    <3>1. y \in Rounds
      BY TimeoutRoundsType
    <3>2. SUFFICES ASSUME NEW r \in Rounds, r < y + 1
                   PROVE  Cardinality(Leavers(r)') >= QuorumSize
      BY <1>2, <2>1, <2>3 DEF RoundsGivenUp, TypeOK
    <3>3. /\ HasQuorum(savedVotes[n], "round_timeout", y, Nil)
          /\ savedVotes[n] \in SUBSET votes[n] /\ r <= y
      BY <1>1, <2>3, <3>1, <3>2 DEF HasCertificate, DiskInMemory, Rounds
    <3>4. Cardinality(Leavers(r)) >= QuorumSize
      BY <3>1, <3>3, TimeoutQuorum
    <3>5. Leavers(r) \subseteq Leavers(r)' /\ Leavers(r)' \subseteq Nodes
      BY <1>1, SetsGrow DEF Leavers
    <3>6. QED
      BY <3>4, <3>5, NodeSets, QuorumSizes
  <2>4. QED
    BY <2>2, <2>3 DEF RestoredRounds
<1>6. QED
  BY <1>3, <1>4, <1>5, VoteEffects DEF VoteEffect, VotesStay, TakesVote, SavesVote
--------------------------------------------------------------------------------
(***************************************************************************)
(* Finality.                                                               *)
(***************************************************************************)
LEMMA ProposerIsNode == \A r \in Rounds : Proposer(r) \in Nodes
  BY NAssumption, HeightAssumption DEF Proposer, Nodes, Rounds

\* A precommit certificate has the prevotes of a quorum behind it.
LEMMA CertificateBacks ==
  ASSUME TypeOK, SerialInv, NEW n \in Nodes, NEW r \in Rounds, NEW b \in Blocks,
         HasCertificate(votes[n], "precommit", r, b)
  PROVE  Backed(r, b)
<1> DEFINE T == Voters(votes[n], "prevote", r, b)
<1>1. T \in SUBSET Nodes /\ Cardinality(T) >= QuorumSize
  BY DEF Voters, HasCertificate, HasQuorum
<1>2. T \ {n} \subseteq Backers(r, b)
  BY HeldBySigner DEF Voters, Backers, CreateVote
<1>3. IsFiniteSet(T)
  BY <1>1, NodesFinite, FS_Subset
<1> HIDE DEF T
<1>4. Cardinality(T) <= Cardinality(T \ {n}) + 1
  BY <1>3, FS_RemoveElement, FS_CardinalityType
<1>5. T \ {n} \in SUBSET Nodes /\ Backers(r, b) \in SUBSET Nodes
  BY <1>1 DEF Backers
<1>6. Cardinality(T \ {n}) <= Cardinality(Backers(r, b))
  BY <1>2, <1>5, NodeSets
<1>7. /\ Cardinality(T) \in Nat /\ Cardinality(T \ {n}) \in Nat
      /\ Cardinality(Backers(r, b)) \in Nat
  BY <1>1, <1>5, NodeSets
<1>8. QED
  BY <1>1, <1>4, <1>6, <1>7, QuorumSizes DEF Backed

\* What is certified stays certified.
LEMMA CertifiedStays ==
  ASSUME TypeOK, TypeOK', DiskInMemory, Progress, NEW c \in Mark, Certified(c)
  PROVE  Certified(c)'
<1>1. c.round \in Rounds /\ c.block \in Blocks /\ Proposer(c.round) \in Nodes
  BY ProposerIsNode DEF Mark
<1>2. Backed(c.round, c.block)'
  BY <1>1, SetsGrow DEF Certified
<1>3. finalized[Proposer(c.round)] # Unset
  BY <1>1, NilAssumption DEF Certified, Unset
<1>4. finalized'[Proposer(c.round)].block = c.block
  BY <1>1, <1>3 DEF Progress, Certified
<1>5. QED
  BY <1>2, <1>4 DEF Certified

\* Certificates and finality records are only made of what is certified.
LEMMA FinalityStep ==
  ASSUME TypeOK, TypeOK', SerialLanes, SerialInv, Next
  PROVE  FinalityCertified'
<1> USE DEF network, memory, disk
<1>1. Progress /\ DiskInMemory
  BY SerialProgress DEF SerialInv
<1>2. \A c \in Mark : Certified(c) => Certified(c)'
  BY <1>1, CertifiedStays
<1>3. ASSUME NEW n \in Nodes, NEW c \in Mark, Certified(c)',
             certificates' \subseteq certificates \cup {c},
             finalized' = finalized \/ finalized' = [finalized EXCEPT ![n] = c]
      PROVE  FinalityCertified'
  <2>1. \A d \in certificates' : Certified(d)'
    BY <1>2, <1>3 DEF SerialInv, FinalityCertified, TypeOK
  <2>2. ASSUME NEW m \in Nodes, NEW d, d = finalized'[m], d # Unset
        PROVE  Certified(d)'
    <3>1. d = c \/ d = finalized[m]
      BY <1>3, <2>2 DEF TypeOK
    <3>2. QED
      BY <1>2, <1>3, <2>2, <3>1 DEF SerialInv, FinalityCertified, TypeOK
  <2>3. \A m \in Nodes : finalized'[m] # Unset => Certified(finalized[m])'
    BY <2>2 DEF Certified
  <2>4. QED
    BY <2>1, <2>3 DEF FinalityCertified
<1>4. CASE UNCHANGED <<certificates, finalized>>
  <2>1. \A d \in certificates' : Certified(d)'
    BY <1>2, <1>4 DEF SerialInv, FinalityCertified, TypeOK
  <2>2. ASSUME NEW m \in Nodes, NEW d, d = finalized'[m], d # Unset
        PROVE  Certified(d)'
    BY <1>2, <1>4, <2>2 DEF SerialInv, FinalityCertified, TypeOK
  <2>3. \A m \in Nodes : finalized'[m] # Unset => Certified(finalized[m])'
    BY <2>2 DEF Certified
  <2>4. QED
    BY <2>1, <2>3 DEF FinalityCertified
<1>5. ASSUME NEW n \in Nodes, NEW l \in Lanes, CommitPrecommit(n, l)
      PROVE  FinalityCertified'
  <2> DEFINE t == task[n][l]
             v == t.vote
             c == [round |-> v.round, block |-> v.block]
  <2>1. /\ t \in Task /\ t.pc = "vote_commit" /\ v.type = "precommit"
        /\ UNCHANGED finalized
    BY <1>5 DEF TypeOK, CommitPrecommit
  <2>2. v.round \in Rounds /\ v.block \in Blocks /\ c \in Mark
    BY <2>1, TaskFields, VoteFields DEF Mark
  <2>3. CASE UNCHANGED certificates
    BY <1>4, <2>1, <2>3
  <2>4. CASE /\ HasCertificate(votes[n], "precommit", v.round, v.block)
             /\ n = Proposer(v.round)
             /\ finalized[n].block = v.block
             /\ certificates' = certificates \cup {c}
    <3>1. Certified(c)
      BY <2>2, <2>4, CertificateBacks DEF Certified
    <3>2. QED
      BY <1>2, <1>3, <2>1, <2>2, <2>4, <3>1
  <2>5. QED
    BY <1>5, <2>3, <2>4 DEF CommitPrecommit, BeginFinalize
<1>6. ASSUME NEW n \in Nodes, NEW l \in Lanes, CommitFinal(n, l)
      PROVE  FinalityCertified'
  <2> DEFINE t == task[n][l]
  <2>1. t \in Task /\ HandlerOK(n, t) /\ t.pc = "final_commit"
    BY <1>6 DEF TypeOK, SerialInv, HandlersOK, CommitFinal
  <2>2. PICK r \in Rounds, b \in Blocks : r = t.round /\ b = t.block
    BY <2>1, TaskFields
  <2> DEFINE c == [round |-> r, block |-> b]
  <2>3. c \in Mark /\ c.round = r /\ c.block = b
    BY DEF Mark
  <2>4. CASE UNCHANGED <<certificates, finalized>>
    BY <1>4, <2>4
  <2>5. CASE /\ finalized' = [finalized EXCEPT ![n] = c]
             /\ certificates' = IF t.own THEN certificates \cup {c} ELSE certificates
    <3>1. Certified(c)'
      <4>1. CASE t.own
        <5>1. n = Proposer(r) /\ Backed(r, b)
          BY <2>1, <2>2, <4>1 DEF HandlerOK
        <5>2. Backed(r, b)'
          BY <1>1, <5>1, SetsGrow
        <5>3. finalized'[Proposer(r)].block = b
          BY <2>5, <5>1 DEF TypeOK
        <5>4. QED
          BY <2>3, <5>2, <5>3 DEF Certified
      <4>2. CASE ~t.own
        <5>1. c \in certificates
          BY <2>1, <2>2, <4>2 DEF HandlerOK
        <5>2. QED
          BY <1>2, <2>3, <5>1 DEF SerialInv, FinalityCertified
      <4>3. QED
        BY <4>1, <4>2
    <3>2. QED
      BY <1>3, <2>3, <2>5, <3>1
  <2>6. QED
    BY <1>6, <2>2, <2>4, <2>5 DEF CommitFinal
<1>7. ASSUME NEW n \in Nodes, Driver(n) \/ Restart(n)
      PROVE  FinalityCertified'
  BY <1>4, <1>7 DEF Driver, Propose, OnRoundTimeout, Restart
<1>8. ASSUME NEW n \in Nodes, NEW l \in Lanes, Deliver(n, l)
      PROVE  FinalityCertified'
  <2>1. UNCHANGED <<certificates, finalized>>
    BY <1>8 DEF Deliver, ReceiveProposal, ReceiveVote, ReceiveCertificate, BeginFinalize
  <2>2. QED
    BY <1>4, <2>1
<1>9. ASSUME NEW n \in Nodes, NEW l \in Lanes,
             \/ ReadTip(n, l) \/ CommitProposal(n, l) \/ AcquireVoteLock(n, l)
             \/ CommitPrevote(n, l) \/ CommitLock(n, l) \/ CommitTimeout(n, l)
             \/ CommitAdvance(n, l) \/ CommitRaises(n, l) \/ CommitCaught(n, l)
      PROVE  FinalityCertified'
  <2>1. UNCHANGED <<certificates, finalized>>
    BY <1>9 DEF ReadTip, CommitProposal, AcquireVoteLock, CommitPrevote, CommitLock,
                CommitTimeout, CommitAdvance, CommitRaises, CommitCaught
  <2>2. QED
    BY <1>4, <2>1
<1>10. QED
  BY <1>5, <1>6, <1>7, <1>8, <1>9 DEF Next, Resume
--------------------------------------------------------------------------------
(***************************************************************************)
(* Suspended handlers.                                                     *)
(***************************************************************************)
\* A step of node n leaves the handlers, the votes and the rounds of the
\* other nodes alone.
StepOf(n) ==
  /\ \A m \in Nodes \ {n} :
       task'[m] = task[m] /\ votes'[m] = votes[m] /\ currentRound'[m] = currentRound[m]
  /\ certificates \subseteq certificates'

LEMMA LeaversWithGrow ==
  ASSUME TypeOK, TypeOK', DiskInMemory, Progress, NEW n \in Nodes, NEW r \in Rounds,
         votes'[n] = votes[n], Cardinality(LeaversWith(n, r)) >= QuorumSize
  PROVE  Cardinality(LeaversWith(n, r)') >= QuorumSize
<1>1. LeaversWith(n, r) \subseteq LeaversWith(n, r)'
  BY SetsGrow DEF LeaversWith
<1>2. LeaversWith(n, r) \subseteq Nodes /\ LeaversWith(n, r)' \subseteq Nodes
  BY DEF LeaversWith, Leavers
<1>3. QED
  BY <1>1, <1>2, NodeSets, QuorumSizes

\* A handler that does not run keeps what it relies on.
LEMMA HandlerStays ==
  ASSUME TypeOK, TypeOK', DiskInMemory, Progress, certificates \subseteq certificates',
         NEW n \in Nodes, NEW t \in Task, HandlerOK(n, t),
         votes'[n] = votes[n], currentRound'[n] = currentRound[n]
  PROVE  HandlerOK(n, t)'
<1>1. t.pc # "vote_lock"
  BY DEF HandlerOK
<1>2. t.pc \in {"tip", "proposal_commit"} =>
        t.round = currentRound'[n] /\ ~Voted(votes'[n], n, "round_timeout", t.round)
  BY DEF HandlerOK
<1>3. t.pc \in {"vote_commit", "lock_commit"} => t.vote \in votes'[n]
  BY DEF HandlerOK
<1>4. t.pc \in {"vote_commit", "lock_commit", "advance_commit", "final_commit"} =>
        \A v \in t.sends : v.from = n /\ v \in savedVotes'[n]
  BY DEF HandlerOK, Progress
<1>5. t.pc = "advance_commit" =>
        /\ t.round > currentRound'[n]
        /\ \A r \in Rounds : r < t.round => Cardinality(LeaversWith(n, r)') >= QuorumSize
  BY LeaversWithGrow DEF HandlerOK
<1>6. t.pc = "final_commit" =>
        IF t.own
        THEN n = Proposer(t.round) /\ Backed(t.round, t.block)'
        ELSE [round |-> t.round, block |-> t.block] \in certificates'
  BY SetsGrow, TaskFields DEF HandlerOK
<1>7. QED
  BY <1>1, <1>2, <1>3, <1>4, <1>5, <1>6 DEF HandlerOK

\* With one lane, only the handler that ran needs looking at.
LEMMA HandlersOfStep ==
  ASSUME TypeOK, TypeOK', SerialLanes, SerialInv, Progress,
         NEW n \in Nodes, NEW l \in Lanes, StepOf(n),
         NEW t, t = task'[n][l], HandlerOK(n, t)'
  PROVE  HandlersOK'
<1>1. ASSUME NEW m \in Nodes, NEW k \in Lanes, NEW u, u = task'[m][k]
      PROVE  HandlerOK(m, u)'
  <2>1. CASE m = n
    BY <1>1, <2>1 DEF SerialLanes
  <2>2. CASE m # n
    <3>1. u \in Task /\ HandlerOK(m, u)
      BY <1>1, <2>2 DEF StepOf, TypeOK, SerialInv, HandlersOK
    <3>2. QED
      BY <2>2, <3>1, HandlerStays DEF StepOf, SerialInv
  <2>3. QED
    BY <2>1, <2>2
<1>2. \A m \in Nodes, k \in Lanes : HandlerOK(m, task[m][k])'
  BY <1>1 DEF HandlerOK
<1>3. QED
  BY <1>2 DEF HandlersOK

\* A handler that has ended relies on nothing.
LEMMA IdleOK == \A n : HandlerOK(n, Idle)'
  BY DEF HandlerOK, Idle

\* A handler that has just recorded a vote.
LEMMA RecordVoteHandler ==
  ASSUME TypeOK, TypeOK', SerialLanes, SerialInv, Progress,
         NEW n \in Nodes, NEW l \in Lanes, NEW v \in Vote, NEW S \in SUBSET Vote,
         RecordVote(n, l, v, S),
         \A u \in S : u.from = n /\ u \in savedVotes[n],
         UNCHANGED <<currentRound, certificates>>
  PROVE  HandlersOK'
<1>1. StepOf(n)
  BY DEF StepOf, RecordVote, Return, Goto, TypeOK
<1>2. CASE Return(n, l, S)
  <2>1. task'[n][l] = Idle
    BY <1>2 DEF Return, Goto, TypeOK
  <2>2. QED
    BY <1>1, <2>1, IdleOK, HandlersOfStep
<1>3. CASE /\ votes' = [votes EXCEPT ![n] = @ \cup {v}]
           /\ Goto(n, l, [pc |-> "vote_commit", vote |-> v, sends |-> S])
  <2> DEFINE t == [pc |-> "vote_commit", vote |-> v, sends |-> S]
  <2>1. task'[n][l] = t
    BY <1>3 DEF Goto, TypeOK
  <2>2. v \in votes'[n] /\ \A u \in S : u.from = n /\ u \in savedVotes'[n]
    BY <1>3 DEF TypeOK, Progress
  <2>3. HandlerOK(n, t)'
    BY <2>2 DEF HandlerOK
  <2> HIDE DEF t
  <2>4. QED
    BY <1>1, <2>1, <2>3, HandlersOfStep
<1>4. QED
  BY <1>2, <1>3 DEF RecordVote
\* Every handler that suspends relies only on what is so, and stays so.
LEMMA HandlersStep ==
  ASSUME TypeOK, TypeOK', SerialLanes, SerialInv, Next
  PROVE  HandlersOK'
<1> USE DEF network, memory, disk
<1>1. Progress /\ DiskInMemory
  BY SerialProgress DEF SerialInv
<1>2. ASSUME NEW n \in Nodes, NEW l \in Lanes, task'[n][l] = Idle, StepOf(n)
      PROVE  HandlersOK'
  BY <1>1, <1>2, IdleOK, HandlersOfStep
<1>3. ASSUME NEW n \in Nodes, NEW l \in Lanes, NEW S, Return(n, l, S), StepOf(n)
      PROVE  HandlersOK'
  BY <1>2, <1>3 DEF Return, Goto, TypeOK
<1>4. ASSUME UNCHANGED <<task, votes, currentRound, certificates>>
      PROVE  HandlersOK'
  <2>1. PICK n \in Nodes, l \in Lanes : TRUE
    BY LanesAssumption, NAssumption DEF Nodes
  <2>2. ASSUME NEW t, t = task'[n][l]
        PROVE  HandlerOK(n, t)'
    <3>1. t \in Task /\ HandlerOK(n, t)
      BY <1>4, <2>2 DEF TypeOK, SerialInv, HandlersOK
    <3>2. QED
      BY <1>1, <1>4, <3>1, HandlerStays
  <2>3. StepOf(n)
    BY <1>4 DEF StepOf
  <2>4. QED
    BY <1>1, <2>2, <2>3, HandlersOfStep
<1>5. ASSUME NEW n \in Nodes, NEW r \in Rounds, NEW b \in Blocks,
             NEW vr \in Rounds \cup {-1}, Propose(n, r, b, vr)
      PROVE  HandlersOK'
  BY <1>4, <1>5 DEF Propose
<1>6. ASSUME NEW n \in Nodes, NEW l \in Lanes, NEW r \in Rounds, OnRoundTimeout(n, l, r)
      PROVE  HandlersOK'
  <2>1. /\ TimeoutVote(n, r) \in Vote /\ {} \in SUBSET Vote
        /\ RecordVote(n, l, TimeoutVote(n, r), {})
        /\ UNCHANGED <<currentRound, certificates>>
    BY <1>6, CreateVoteType, BeginVoteSerial DEF OnRoundTimeout
  <2>2. QED
    BY <1>1, <2>1, RecordVoteHandler
<1>7. ASSUME NEW n \in Nodes, NEW l \in Lanes, NEW m \in proposals, ReceiveProposal(n, l, m)
      PROVE  HandlersOK'
  <2>1. PICK t : t = [pc |-> "tip", round |-> m.round, block |-> m.block,
                      validRound |-> m.validRound]
    OBVIOUS
  <2>2. task'[n][l] = t /\ StepOf(n)
    BY <1>7, <2>1 DEF ReceiveProposal, Goto, StepOf, TypeOK
  <2>3. HandlerOK(n, t)'
    BY <1>7, <2>1 DEF ReceiveProposal, HandlerOK
  <2>4. QED
    BY <1>1, <2>2, <2>3, HandlersOfStep
<1>8. ASSUME NEW n \in Nodes, NEW l \in Lanes, NEW v \in sentVotes, ReceiveVote(n, l, v)
      PROVE  HandlersOK'
  <2>1. /\ v \in Vote /\ {} \in SUBSET Vote
        /\ RecordVote(n, l, v, {})
        /\ UNCHANGED <<currentRound, certificates>>
    BY <1>8, BeginVoteSerial DEF ReceiveVote, TypeOK
  <2>2. QED
    BY <1>1, <2>1, RecordVoteHandler
<1>9. ASSUME NEW n \in Nodes, NEW l \in Lanes, NEW c \in certificates,
             ReceiveCertificate(n, l, c)
      PROVE  HandlersOK'
  <2>1. UNCHANGED <<votes, currentRound, certificates>>
    BY <1>9 DEF ReceiveCertificate, BeginFinalize
  <2>2. StepOf(n)
    BY <1>9, <2>1 DEF StepOf, ReceiveCertificate, BeginFinalize, Return, Goto, TypeOK
  <2>3. CASE Return(n, l, {})
    BY <1>3, <2>2, <2>3
  <2>4. ASSUME NEW t, t = [pc |-> "final_commit", round |-> c.round, block |-> c.block,
                           own |-> FALSE, sends |-> {}],
               Goto(n, l, t)
        PROVE  HandlersOK'
    <3>1. task'[n][l] = t
      BY <2>4 DEF Goto, TypeOK
    <3>2. [round |-> t.round, block |-> t.block] \in certificates'
      BY <2>1, <2>4 DEF TypeOK, Mark
    <3>3. HandlerOK(n, t)'
      BY <2>4, <3>2 DEF HandlerOK
    <3>4. QED
      BY <1>1, <2>2, <3>1, <3>3, HandlersOfStep
  <2>5. QED
    BY <1>9, <2>3, <2>4 DEF ReceiveCertificate, BeginFinalize
<1>10. ASSUME NEW n \in Nodes, NEW l \in Lanes, Resume(n, l)
       PROVE  HandlersOK'
  <2> DEFINE h == task[n][l]
  <2>1. h \in Task /\ HandlerOK(n, h)
    BY DEF TypeOK, SerialInv, HandlersOK
  <2>2. CASE ReadTip(n, l)
    <3>1. h.pc = "tip" /\ StepOf(n) /\ UNCHANGED <<votes, currentRound>>
      BY <2>2 DEF ReadTip, Goto, StepOf, TypeOK
    <3>2. CASE task'[n][l] = Idle
      BY <1>2, <3>1, <3>2
    <3>3. ASSUME NEW t, t = [pc |-> "proposal_commit", round |-> h.round, block |-> h.block],
                 task'[n][l] = t
          PROVE  HandlersOK'
      <4>1. HandlerOK(n, t)'
        BY <2>1, <3>1, <3>3 DEF HandlerOK
      <4>2. QED
        BY <1>1, <3>1, <3>3, <4>1, HandlersOfStep
    <3>4. QED
      BY <2>2, <3>2, <3>3 DEF ReadTip, Goto, TypeOK
  <2>3. CASE CommitProposal(n, l)
    <3>1. h.pc = "proposal_commit" /\ h.round \in Rounds /\ h.block \in Blocks
      BY <2>1, <2>3, TaskFields DEF CommitProposal
    <3>2. CASE Return(n, l, {}) /\ UNCHANGED votes
      BY <1>3, <2>3, <3>2 DEF CommitProposal, Return, Goto, StepOf, TypeOK
    <3>3. CASE BeginVote(n, l, CreateVote(n, "prevote", h.round, h.block), {})
      <4>1. /\ CreateVote(n, "prevote", h.round, h.block) \in Vote /\ {} \in SUBSET Vote
            /\ RecordVote(n, l, CreateVote(n, "prevote", h.round, h.block), {})
            /\ UNCHANGED <<currentRound, certificates>>
        BY <2>3, <3>1, <3>3, CreateVoteType, BeginVoteSerial DEF CommitProposal
      <4>2. QED
        BY <1>1, <4>1, RecordVoteHandler
    <3>4. QED
      BY <2>3, <3>2, <3>3 DEF CommitProposal
  <2>4. CASE AcquireVoteLock(n, l)
    BY <2>1, <2>4 DEF AcquireVoteLock, HandlerOK
  <2>5. h.pc = "vote_commit" /\ savedVotes' = [savedVotes EXCEPT ![n] = @ \cup {h.vote}] =>
          /\ h.vote \in Vote /\ h.vote \in votes[n]
          /\ \A v \in Sends(n, h) : v.from = n /\ v \in savedVotes'[n]
    BY <2>1, TaskFields DEF HandlerOK, Sends, TypeOK
  <2>6. CASE CommitPrevote(n, l)
    <3>1. /\ h.pc = "vote_commit" /\ savedVotes' = [savedVotes EXCEPT ![n] = @ \cup {h.vote}]
          /\ StepOf(n) /\ UNCHANGED <<votes, currentRound>>
      BY <2>6 DEF CommitPrevote, Return, Goto, StepOf, TypeOK
    <3>2. CASE Return(n, l, Sends(n, h))
      BY <1>3, <3>1, <3>2
    <3>3. ASSUME NEW t, t = [pc |-> "lock_commit", vote |-> h.vote, sends |-> Sends(n, h)],
                 Goto(n, l, t)
          PROVE  HandlersOK'
      <4>1. task'[n][l] = t
        BY <3>3 DEF Goto, TypeOK
      <4>2. HandlerOK(n, t)'
        BY <2>5, <3>1, <3>3 DEF HandlerOK
      <4>3. QED
        BY <1>1, <3>1, <4>1, <4>2, HandlersOfStep
    <3>4. QED
      BY <2>6, <3>2, <3>3 DEF CommitPrevote
  <2>7. CASE CommitLock(n, l)
    <3>1. /\ h.pc = "lock_commit" /\ h.vote.round \in Rounds /\ h.vote.block \in Blocks
          /\ h.sends \in SUBSET Vote /\ \A u \in h.sends : u.from = n /\ u \in savedVotes[n]
      BY <2>1, <2>7, TaskFields, VoteFields DEF CommitLock, HandlerOK
    <3>2. CASE Return(n, l, h.sends) /\ UNCHANGED votes
      BY <1>3, <2>7, <3>2 DEF CommitLock, Return, Goto, StepOf, TypeOK
    <3>3. CASE BeginVote(n, l, CreateVote(n, "precommit", h.vote.round, h.vote.block), h.sends)
      <4>1. /\ CreateVote(n, "precommit", h.vote.round, h.vote.block) \in Vote
            /\ RecordVote(n, l, CreateVote(n, "precommit", h.vote.round, h.vote.block), h.sends)
            /\ UNCHANGED <<currentRound, certificates>>
        BY <2>7, <3>1, <3>3, CreateVoteType, BeginVoteSerial DEF CommitLock
      <4>2. QED
        BY <1>1, <3>1, <4>1, RecordVoteHandler
    <3>4. QED
      BY <2>7, <3>2, <3>3 DEF CommitLock
  <2>8. CASE CommitTimeout(n, l)
    <3>1. /\ h.pc = "vote_commit" /\ savedVotes' = [savedVotes EXCEPT ![n] = @ \cup {h.vote}]
          /\ StepOf(n) /\ UNCHANGED <<votes, currentRound>>
      BY <2>8 DEF CommitTimeout, Return, Goto, StepOf, TypeOK
    <3>2. CASE Return(n, l, Sends(n, h))
      BY <1>3, <3>1, <3>2
    <3>3. ASSUME NEW x, NEW t, x = h.vote.round,
                 t = [pc |-> "advance_commit", round |-> x + 1, sends |-> Sends(n, h)],
                 HasCertificate(votes[n], "round_timeout", x, Nil),
                 x + 1 > currentRound[n], Goto(n, l, t)
          PROVE  HandlersOK'
      <4>1. task'[n][l] = t
        BY <3>3 DEF Goto, TypeOK
      <4>2. x \in Rounds
        BY <2>5, <3>1, <3>3, VoteFields
      <4>3. \A r \in Rounds : r < x + 1 => Cardinality(LeaversWith(n, r)') >= QuorumSize
        <5>1. SUFFICES ASSUME NEW r \in Rounds, r < x + 1
                       PROVE  Cardinality(LeaversWith(n, r)') >= QuorumSize
          OBVIOUS
        <5>2. r <= x /\ HasQuorum(votes[n], "round_timeout", x, Nil)
          BY <3>3, <4>2, <5>1 DEF HasCertificate, Rounds
        <5>3. Cardinality(LeaversWith(n, r)) >= QuorumSize
          BY <4>2, <5>2, TimeoutQuorum
        <5>4. QED
          BY <1>1, <3>1, <5>3, LeaversWithGrow
      <4>4. HandlerOK(n, t)'
        BY <2>5, <3>1, <3>3, <4>3 DEF HandlerOK
      <4>5. QED
        BY <1>1, <3>1, <4>1, <4>4, HandlersOfStep
    <3>4. QED
      BY <2>8, <3>2, <3>3 DEF CommitTimeout
  <2>9. CASE CommitAdvance(n, l)
    BY <1>3, <2>9 DEF CommitAdvance, Return, Goto, StepOf, TypeOK
  <2>10. CASE CommitPrecommit(n, l)
    <3>1. /\ h.pc = "vote_commit" /\ savedVotes' = [savedVotes EXCEPT ![n] = @ \cup {h.vote}]
          /\ StepOf(n) /\ h.vote.type = "precommit"
      BY <2>10 DEF CommitPrecommit, BeginFinalize, Return, Goto, StepOf, TypeOK
    <3>2. CASE Return(n, l, Sends(n, h))
      BY <1>3, <3>1, <3>2
    <3>3. ASSUME NEW r, NEW b, NEW t, r = h.vote.round, b = h.vote.block,
                 t = [pc |-> "final_commit", round |-> r, block |-> b, own |-> TRUE,
                      sends |-> Sends(n, h)],
                 HasCertificate(votes[n], "precommit", r, b), n = Proposer(r), Goto(n, l, t)
          PROVE  HandlersOK'
      <4>1. task'[n][l] = t
        BY <3>3 DEF Goto, TypeOK
      <4>2. r \in Rounds /\ b \in Blocks
        BY <2>5, <3>1, <3>3, VoteFields
      <4>3. Backed(r, b)'
        BY <1>1, <3>3, <4>2, CertificateBacks, SetsGrow
      <4>4. HandlerOK(n, t)'
        BY <2>5, <3>1, <3>3, <4>3 DEF HandlerOK
      <4>5. QED
        BY <1>1, <3>1, <4>1, <4>4, HandlersOfStep
    <3>4. QED
      BY <2>10, <3>2, <3>3 DEF CommitPrecommit, BeginFinalize
  <2>11. CASE CommitFinal(n, l)
    BY <1>3, <2>11 DEF CommitFinal, Return, Goto, StepOf, TypeOK
  <2>12. QED
    BY <1>10, <2>2, <2>3, <2>4, <2>6, <2>7, <2>8, <2>9, <2>10, <2>11 DEF Resume
<1>11. ASSUME NEW n \in Nodes, NEW l \in Lanes, CommitRaises(n, l)
       PROVE  HandlersOK'
  BY <1>2, <1>11 DEF CommitRaises, Goto, StepOf, TypeOK
<1>12. ASSUME NEW n \in Nodes, NEW l \in Lanes, CommitCaught(n, l)
       PROVE  HandlersOK'
  BY <1>3, <1>12 DEF CommitCaught, Return, Goto, StepOf, TypeOK
<1>13. ASSUME NEW n \in Nodes, Restart(n)
       PROVE  HandlersOK'
  <2>1. PICK l \in Lanes : TRUE
    BY LanesAssumption
  <2>2. task'[n][l] = Idle /\ StepOf(n)
    BY <1>13 DEF Restart, StepOf, TypeOK
  <2>3. QED
    BY <1>2, <2>2
<1>14. QED
  BY <1>5, <1>6, <1>7, <1>8, <1>9, <1>10, <1>11, <1>12, <1>13 DEF Next, Driver, Deliver
--------------------------------------------------------------------------------
(***************************************************************************)
(* The invariant, and what it implies.                                     *)
(***************************************************************************)
LEMMA SerialInvInit ==
  ASSUME Init
  PROVE  SerialInv
<1> USE DEF Init
<1>1. \A n \in Nodes : \A type, r : ~Voted(votes[n], n, type, r)
  BY DEF Voted
<1>2. \A n \in Nodes : currentRound[n] = 0 /\ \A r \in Rounds : ~(r < 0)
  BY DEF Rounds
<1>3. DiskInMemory /\ SeenIsDurable
  BY DEF DiskInMemory, SeenIsDurable
<1>4. PrevoteOrTimeout /\ VotesInPast
  BY <1>1 DEF PrevoteOrTimeout, VotesInPast
<1>5. RoundsGivenUp
  BY <1>2 DEF RoundsGivenUp
<1>6. HandlersOK
  BY DEF HandlersOK, HandlerOK, Idle
<1>7. FinalityCertified
  BY DEF FinalityCertified
<1>8. QED
  BY <1>3, <1>4, <1>5, <1>6, <1>7 DEF SerialInv

LEMMA SerialInvStep ==
  ASSUME TypeOK, TypeOK', SerialLanes, SerialInv, [Next]_vars
  PROVE  SerialInv'
<1>1. CASE Next
  BY <1>1, VotesStep, RoundsStep, HandlersStep, FinalityStep DEF SerialInv
<1>2. CASE UNCHANGED vars
  <2> USE <1>2 DEF vars, network, memory, disk, SerialInv
  <2>1. DiskInMemory' /\ SeenIsDurable' /\ PrevoteOrTimeout' /\ VotesInPast'
    BY DEF DiskInMemory, SeenIsDurable, PrevoteOrTimeout, VotesInPast
  <2>2. \A r : Leavers(r)' = Leavers(r)
    BY DEF Leavers, GivenUp
  <2>3. \A r, b : Backed(r, b)' <=> Backed(r, b)
    BY DEF Backed, Backers
  <2>4. RoundsGivenUp'
    BY <2>2 DEF RoundsGivenUp
  <2>5. HandlersOK'
    <3>1. \A n, r : LeaversWith(n, r)' = LeaversWith(n, r)
      BY <2>2 DEF LeaversWith
    <3>2. QED
      BY <2>3, <3>1 DEF HandlersOK, HandlerOK
  <2>6. FinalityCertified'
    BY <2>3 DEF FinalityCertified, Certified
  <2>7. QED
    BY <2>1, <2>4, <2>5, <2>6
<1>3. QED
  BY <1>1, <1>2

\* When every node handles one message at a time, the invariant holds.
THEOREM SerialInvariant ==
  ASSUME SerialLanes
  PROVE  Spec => []SerialInv
<1>1. Init => SerialInv
  BY SerialInvInit
<1>2. TypeOK /\ TypeOK' /\ SerialInv /\ [Next]_vars => SerialInv'
  BY SerialInvStep
<1>3. QED
  BY <1>1, <1>2, TypeCorrect, PTL DEF Spec

\* A finalized block was decided in one round, and a round decides one block.
LEMMA CertifiedAgree ==
  ASSUME TypeOK, SerialInv, N > 1, NEW c \in Mark, NEW d \in Mark,
         Certified(c), Certified(d), c.round <= d.round
  PROVE  c.block = d.block
<1>1. /\ c.round \in Rounds /\ c.block \in Blocks
      /\ d.round \in Rounds /\ d.block \in Blocks
  BY DEF Mark
<1>2. CASE c.round = d.round
  BY <1>2 DEF Certified
<1>3. CASE c.round < d.round
  <2> DEFINE C == Backers(c.round, c.block)
             D == Backers(d.round, d.block)
             L == Leavers(c.round)
  <2>1. /\ C \in SUBSET Nodes /\ D \in SUBSET Nodes /\ L \in SUBSET Nodes
        /\ Cardinality(C) \in Nat /\ Cardinality(D) \in Nat /\ Cardinality(L) \in Nat
    BY NodeSets DEF Backers, Leavers
  <2>2. /\ Cardinality(C) >= QuorumSize - 1
        /\ Cardinality(D) >= 1
    BY <2>1, QuorumSizes DEF Certified, Backed
  <2>3. PICK q \in Nodes : q \in D
    BY <2>1, <2>2, FS_EmptySet
  <2>4. d.round <= currentRound[q]
    <3>1. CreateVote(q, "prevote", d.round, d.block) \in votes[q]
      BY <2>3 DEF Backers, SerialInv, DiskInMemory
    <3>2. Voted(votes[q], q, "prevote", d.round)
      BY <1>1, <3>1 DEF Voted
    <3>3. QED
      BY <1>1, <3>2 DEF SerialInv, VotesInPast
  <2>5. c.round < currentRound[q]
    BY <1>1, <1>3, <2>4 DEF TypeOK, Rounds
  <2>6. Cardinality(L) >= QuorumSize
    BY <1>1, <2>5 DEF SerialInv, RoundsGivenUp
  <2>7. Cardinality(C) + Cardinality(L) > N
    BY <2>1, <2>2, <2>6, QuorumSizes, NAssumption
  <2>8. PICK p \in Nodes : p \in C /\ p \in L
    <3> HIDE DEF C, L
    <3>1. C \cap L # {}
      BY <2>1, <2>7, QuorumsMeet
    <3>2. QED
      BY <2>1, <3>1
  <2>9. CreateVote(p, "prevote", c.round, c.block) \in votes[p]
    BY <2>8 DEF Backers, SerialInv, DiskInMemory
  <2>10. ~Voted(votes[p], p, "prevote", c.round)
    BY <2>8 DEF Leavers, GivenUp
  <2>11. QED
    BY <1>1, <2>9, <2>10 DEF Voted
<1>4. QED
  BY <1>1, <1>2, <1>3 DEF Rounds

LEMMA InvAgreement ==
  ASSUME TypeOK, SerialInv
  PROVE  Agreement
<1>1. SUFFICES ASSUME NEW m \in Nodes, NEW n \in Nodes,
                      finalized[m] # Unset, finalized[n] # Unset
               PROVE  finalized[m].block = finalized[n].block
  BY DEF Agreement
<1>2. CASE N = 1
  BY <1>2 DEF Nodes
<1>3. CASE N > 1
  <2>1. /\ finalized[m] \in Mark /\ Certified(finalized[m])
        /\ finalized[n] \in Mark /\ Certified(finalized[n])
    BY <1>1 DEF TypeOK, SerialInv, FinalityCertified
  <2>2. finalized[m].round <= finalized[n].round \/ finalized[n].round <= finalized[m].round
    BY <2>1 DEF Mark, Rounds
  <2>3. QED
    BY <1>3, <2>1, <2>2, CertifiedAgree
<1>4. QED
  BY <1>2, <1>3, NAssumption

\* When every node handles one message at a time, no two of them ever finalize
\* different blocks at a height, whatever the crashes, the failed commits, the
\* lost and repeated messages and the blocks the proposers build.
THEOREM SerialAgreement ==
  ASSUME SerialLanes
  PROVE  Spec => []Agreement
<1>1. TypeOK /\ SerialInv => Agreement
  BY InvAgreement
<1>2. QED
  BY <1>1, TypeCorrect, SerialInvariant, PTL

LEMMA InvNoQuorumLeftBehind ==
  ASSUME TypeOK, SerialInv
  PROVE  NoQuorumLeftBehind
<1>1. SUFFICES ASSUME NEW m \in Nodes, NEW n \in Nodes, NEW r \in Rounds, NEW b \in Blocks,
                      currentRound[m] > r, HasQuorum(votes[n], "prevote", r, b)
               PROVE  FALSE
  BY DEF NoQuorumLeftBehind
<1> DEFINE V == Voters(votes[n], "prevote", r, b)
           L == Leavers(r)
<1>2. V \in SUBSET Nodes /\ L \in SUBSET Nodes
  BY DEF Voters, Leavers
<1>3. Cardinality(V) >= QuorumSize /\ Cardinality(L) >= QuorumSize
  BY <1>1 DEF HasQuorum, SerialInv, RoundsGivenUp, TypeOK, Rounds
<1>4. PICK q \in Nodes : q \in V /\ q \in L
  <2> HIDE DEF V, L
  <2>1. Cardinality(V) + Cardinality(L) > N
    BY <1>2, <1>3, NodeSets, QuorumSizes, NAssumption
  <2>2. QED
    BY <1>2, <2>1, QuorumsMeet
<1>5. CreateVote(q, "prevote", r, b) \in votes[q]
  BY <1>4, HeldBySigner DEF Voters, CreateVote
<1>6. QED
  BY <1>4, <1>5 DEF Voted, Leavers, GivenUp

\* When every node handles one message at a time, a round that some node has
\* left never shows a prevote quorum to any node.
THEOREM SerialNoQuorumLeftBehind ==
  ASSUME SerialLanes
  PROVE  Spec => []NoQuorumLeftBehind
<1>1. TypeOK /\ SerialInv => NoQuorumLeftBehind
  BY InvNoQuorumLeftBehind
<1>2. QED
  BY <1>1, TypeCorrect, SerialInvariant, PTL

\* When every node handles one message at a time, none signs both a prevote
\* and a timeout vote of a round.
THEOREM SerialPrevoteOrTimeout ==
  ASSUME SerialLanes
  PROVE  Spec => []PrevoteOrTimeout
<1>1. SerialInv => PrevoteOrTimeout
  BY DEF SerialInv
<1>2. QED
  BY <1>1, SerialInvariant, PTL

\* Likewise, a certificate on the wire names the block its proposer has
\* committed.
THEOREM SerialCertificateIsSaved ==
  ASSUME SerialLanes
  PROVE  Spec => []CertificateIsSaved
<1>1. SerialInv => CertificateIsSaved
  BY DEF SerialInv, FinalityCertified, Certified, CertificateIsSaved
<1>2. QED
  BY <1>1, SerialInvariant, PTL
--------------------------------------------------------------------------------
(***************************************************************************)
(* What a validator signs, its locks, and finality.  What it signs, and    *)
(* that a finalized block was proposed, holds however the handlers of a    *)
(* node interleave, for every number of lanes, crashes and failed commits. *)
(* If every node handles one message at a time, a validator keeps the lock *)
(* its precommit stands on, and the coordinator implements the promise of  *)
(* module Finality.                                                        *)
(***************************************************************************)

\* A precommit of n has its lock on disk.
Relied(n, v) ==
  v.from = n /\ v.type = "precommit" =>
    [round |-> v.round, block |-> v.block] \in savedLocks[n]

\* What a suspended handler has taken in is in the buckets, what it is about
\* to take in was signed over a durable lock, and what it has to send is
\* durable.
TaskSigns(n, t) ==
  /\ t.pc \in {"vote_commit", "lock_commit"} => t.vote \in votes[n]
  /\ t.pc = "vote_lock" => Relied(n, t.vote)
  /\ t.pc \in {"vote_lock", "vote_commit", "lock_commit", "advance_commit", "final_commit"} =>
       \A u \in t.sends : u.from = n /\ u \in savedVotes[n]

OnePerSlot(S) ==
  \A u, v \in S : u.from = v.from /\ u.type = v.type /\ u.round = v.round => u = v

\* The buckets hold one vote of a validator per type and round.  Rows are
\* votes that were taken in, and what is on the wire is a row of its signer.
SignInv ==
  /\ \A n \in Nodes : savedVotes[n] \subseteq votes[n]
  /\ \A n \in Nodes : OnePerSlot(votes[n])
  /\ \A n \in Nodes : \A v \in votes[n] : Relied(n, v)
  /\ \A v \in sentVotes : v \in savedVotes[v.from]
  /\ \A n \in Nodes, l \in Lanes : TaskSigns(n, task[n][l])

Grow ==
  \A q \in Nodes : /\ votes[q] \subseteq votes'[q]
                   /\ savedVotes[q] \subseteq savedVotes'[q]
                   /\ savedLocks[q] \subseteq savedLocks'[q]

\* A handler that is not running keeps what it relies on.
LEMMA TaskStays ==
  ASSUME Grow, NEW n \in Nodes, NEW t, TaskSigns(n, t)
  PROVE  TaskSigns(n, t)'
  BY DEF Grow, TaskSigns, Relied

\* A bucket takes a vote in only where it holds none.
LEMMA SlotAdd ==
  ASSUME NEW S \in SUBSET Vote, NEW v \in Vote, OnePerSlot(S),
         ~Voted(S, v.from, v.type, v.round)
  PROVE  OnePerSlot(S \cup {v})
<1>1. ASSUME NEW u \in S, u.from = v.from, u.type = v.type, u.round = v.round
      PROVE  FALSE
  BY <1>1, VoteIsVoted
<1>2. QED
  BY <1>1 DEF OnePerSlot

\* A handler's new state, next to those of the handlers that did not run.
LEMMA TasksKeep ==
  ASSUME TypeOK, SignInv, Grow, NEW n \in Nodes, NEW l \in Lanes, NEW t,
         Goto(n, l, t), TaskSigns(n, t)'
  PROVE  \A q \in Nodes, k \in Lanes : TaskSigns(q, task[q][k])'
<1>1. ASSUME NEW q \in Nodes, NEW k \in Lanes, NEW u, u = task'[q][k]
      PROVE  TaskSigns(q, u)'
  <2>1. CASE q = n /\ k = l
    <3>1. u = t
      BY <1>1, <2>1 DEF Goto, TypeOK
    <3>2. QED
      BY <2>1, <3>1
  <2>2. CASE ~(q = n /\ k = l)
    <3>1. u = task[q][k]
      BY <1>1, <2>2 DEF Goto, TypeOK
    <3>2. TaskSigns(q, u)
      BY <3>1 DEF SignInv
    <3>3. QED
      BY <3>2, TaskStays
  <2>3. QED
    BY <2>1, <2>2
<1>2. QED
  BY <1>1 DEF TaskSigns, Relied

\* What a step adds to the wire is on its signer's disk.
LEMMA WireKeeps ==
  ASSUME TypeOK, SignInv, Grow,
         \A v \in sentVotes' : v \in sentVotes \/ v \in savedVotes'[v.from]
  PROVE  \A v \in sentVotes' : v \in savedVotes'[v.from]
<1>1. \A v \in sentVotes : v.from \in Nodes
  BY VoteFields DEF TypeOK
<1>2. QED
  BY <1>1 DEF SignInv, Grow

\* A step of one handler that takes no vote in.
LEMMA HandlerKeeps ==
  ASSUME TypeOK, SignInv, Grow, NEW n \in Nodes, NEW l \in Lanes, NEW t,
         Goto(n, l, t), TaskSigns(n, t)',
         votes' = votes, \A q \in Nodes : savedVotes'[q] \subseteq votes[q],
         \A v \in sentVotes' : v \in sentVotes \/ v \in savedVotes'[v.from]
  PROVE  SignInv'
<1>1. /\ \A q \in Nodes : OnePerSlot(votes'[q])
      /\ \A q \in Nodes : \A v \in votes'[q] : Relied(q, v)'
  BY DEF SignInv, Grow, Relied
<1>2. QED
  BY <1>1, TasksKeep, WireKeeps DEF SignInv

\* A step of one handler that takes the vote v in.
LEMMA TakesIn ==
  ASSUME TypeOK, SignInv, Grow, NEW n \in Nodes, NEW l \in Lanes, NEW t,
         Goto(n, l, t), TaskSigns(n, t)',
         NEW v \in Vote, votes' = [votes EXCEPT ![n] = @ \cup {v}],
         ~Voted(votes[n], v.from, v.type, v.round), Relied(n, v)',
         UNCHANGED <<savedVotes, sentVotes>>
  PROVE  SignInv'
<1>1. ASSUME NEW q \in Nodes
      PROVE  OnePerSlot(votes'[q]) /\ \A u \in votes'[q] : Relied(q, u)'
  <2>1. OnePerSlot(votes[q]) /\ \A u \in votes[q] : Relied(q, u)'
    BY DEF SignInv, Grow, Relied
  <2>2. CASE q # n
    BY <2>1, <2>2 DEF TypeOK
  <2>3. CASE q = n
    <3>1. votes[q] \in SUBSET Vote /\ votes'[q] = votes[q] \cup {v}
      BY <2>3 DEF TypeOK
    <3>2. OnePerSlot(votes[q] \cup {v})
      BY <2>1, <2>3, <3>1, SlotAdd
    <3>3. QED
      BY <2>1, <2>3, <3>1, <3>2
  <2>4. QED
    BY <2>2, <2>3
<1>2. \A q \in Nodes : savedVotes'[q] \subseteq votes'[q]
  BY DEF SignInv, Grow
<1>3. QED
  BY <1>1, <1>2, TasksKeep, WireKeeps DEF SignInv

\* The locks on disk may grow while a vote is recorded.
Records(n) == /\ UNCHANGED savedVotes
              /\ \A q \in Nodes : savedLocks[q] \subseteq savedLocks'[q]

LEMMA RecordSigns ==
  ASSUME TypeOK, SignInv, NEW n \in Nodes, NEW l \in Lanes, NEW v \in Vote, NEW S,
         RecordVote(n, l, v, S), Records(n), Relied(n, v)',
         \A u \in S : u.from = n /\ u \in savedVotes[n]
  PROVE  SignInv'
<1>1. Grow
  BY DEF RecordVote, Grow, Records, TypeOK
<1>2. CASE Return(n, l, S) /\ UNCHANGED votes
  <2>1. Goto(n, l, Idle) /\ TaskSigns(n, Idle)'
    BY <1>2 DEF Return, TaskSigns, Idle
  <2>2. /\ \A u \in sentVotes' : u \in sentVotes \/ u \in savedVotes'[u.from]
        /\ votes' = votes /\ \A q \in Nodes : savedVotes'[q] \subseteq votes[q]
    BY <1>2 DEF Return, Records, SignInv
  <2>3. QED
    BY <1>1, <2>1, <2>2, HandlerKeeps
<1>3. ASSUME NEW t, t = [pc |-> "vote_commit", vote |-> v, sends |-> S],
             ~Voted(votes[n], v.from, v.type, v.round),
             votes' = [votes EXCEPT ![n] = @ \cup {v}],
             Goto(n, l, t), UNCHANGED sentVotes
      PROVE  SignInv'
  <2>1. v \in votes'[n]
    BY <1>3 DEF TypeOK
  <2>2. TaskSigns(n, t)'
    BY <1>3, <2>1 DEF TaskSigns, Records
  <2>3. QED
    BY <1>1, <1>3, <2>2, TakesIn DEF Records
<1>4. QED
  BY <1>2, <1>3 DEF RecordVote

LEMMA BeginSigns ==
  ASSUME TypeOK, SignInv, NEW n \in Nodes, NEW l \in Lanes, NEW v \in Vote, NEW S,
         BeginVote(n, l, v, S), Records(n), Relied(n, v)',
         \A u \in S : u.from = n /\ u \in savedVotes[n]
  PROVE  SignInv'
<1>1. CASE RecordVote(n, l, v, S)
  BY <1>1, RecordSigns
<1>2. ASSUME NEW t, t = [pc |-> "vote_lock", vote |-> v, sends |-> S],
             Goto(n, l, t), UNCHANGED <<votes, sentVotes>>
      PROVE  SignInv'
  <2>1. Grow /\ TaskSigns(n, t)'
    BY <1>2 DEF Grow, TaskSigns, Records
  <2>2. QED
    BY <1>2, <2>1, HandlerKeeps DEF Records, SignInv
<1>3. QED
  BY <1>1, <1>2 DEF BeginVote
--------------------------------------------------------------------------------
\* A handler that ends, with what it has to send already on disk.
LEMMA ReturnSigns ==
  ASSUME TypeOK, SignInv, NEW n \in Nodes, NEW l \in Lanes, NEW S,
         Return(n, l, S), UNCHANGED <<votes, savedLocks>>,
         \A q \in Nodes : savedVotes[q] \subseteq savedVotes'[q],
         \A q \in Nodes : savedVotes'[q] \subseteq votes[q],
         \A u \in S : u.from = n /\ u \in savedVotes'[n]
  PROVE  SignInv'
<1>1. Grow
  BY DEF Grow
<1>2. Goto(n, l, Idle) /\ TaskSigns(n, Idle)'
  BY DEF Return, TaskSigns, Idle
<1>3. \A u \in sentVotes' : u \in sentVotes \/ u \in savedVotes'[u.from]
  BY DEF Return
<1>4. QED
  BY <1>1, <1>2, <1>3, HandlerKeeps

\* A handler that suspends, or dies, sending nothing.
LEMMA GotoSigns ==
  ASSUME TypeOK, SignInv, NEW n \in Nodes, NEW l \in Lanes, NEW t,
         Goto(n, l, t), TaskSigns(n, t)',
         UNCHANGED <<votes, savedLocks, sentVotes>>,
         \A q \in Nodes : savedVotes[q] \subseteq savedVotes'[q],
         \A q \in Nodes : savedVotes'[q] \subseteq votes[q]
  PROVE  SignInv'
<1>1. Grow
  BY DEF Grow
<1>2. QED
  BY <1>1, HandlerKeeps

\* The commit of a vote row, whatever the handler does next.
LEMMA SaveSigns ==
  ASSUME TypeOK, SignInv, NEW n \in Nodes, NEW l \in Lanes,
         task[n][l].pc = "vote_commit",
         savedVotes' = [savedVotes EXCEPT ![n] = @ \cup {task[n][l].vote}]
  PROVE  /\ \A q \in Nodes : savedVotes[q] \subseteq savedVotes'[q]
         /\ \A q \in Nodes : savedVotes'[q] \subseteq votes[q]
         /\ task[n][l].vote \in votes[n]
         /\ \A u \in Sends(n, task[n][l]) : u.from = n /\ u \in savedVotes'[n]
<1>1. TaskSigns(n, task[n][l])
  BY DEF SignInv
<1>2. QED
  BY <1>1 DEF TaskSigns, SignInv, TypeOK, Sends

\* finalize touches no vote.
LEMMA FinalizeSigns ==
  ASSUME TypeOK, SignInv, NEW n \in Nodes, NEW l \in Lanes, NEW r, NEW b, NEW own \in BOOLEAN, NEW S,
         BeginFinalize(n, l, r, b, own, S), UNCHANGED <<votes, savedLocks>>,
         \A q \in Nodes : savedVotes[q] \subseteq savedVotes'[q],
         \A q \in Nodes : savedVotes'[q] \subseteq votes[q],
         \A u \in S : u.from = n /\ u \in savedVotes'[n]
  PROVE  SignInv'
<1>1. CASE Return(n, l, S)
  BY <1>1, ReturnSigns
<1>2. ASSUME NEW t, t = [pc |-> "final_commit", round |-> r, block |-> b,
                         own |-> own, sends |-> S],
             Goto(n, l, t), UNCHANGED sentVotes
      PROVE  SignInv'
  <2>1. TaskSigns(n, t)'
    BY <1>2 DEF TaskSigns
  <2>2. QED
    BY <1>2, <2>1, GotoSigns
<1>3. QED
  BY <1>1, <1>2 DEF BeginFinalize

LEMMA ResumeSigns ==
  ASSUME TypeOK, SignInv, NEW n \in Nodes, NEW l \in Lanes, Resume(n, l)
  PROVE  SignInv'
<1> USE DEF network, memory, disk
<1> DEFINE t == task[n][l]
<1>1. t \in Task /\ TaskSigns(n, t)
  BY DEF TypeOK, SignInv
<1>2. \A q \in Nodes : savedVotes[q] \subseteq votes[q]
  BY DEF SignInv
<1>3. CASE ReadTip(n, l)
  <2>1. ASSUME NEW u, Goto(n, l, u), u.pc \in {"idle", "proposal_commit"}
        PROVE  SignInv'
    <3>1. TaskSigns(n, u)'
      BY <2>1 DEF TaskSigns
    <3>2. QED
      BY <1>2, <1>3, <2>1, <3>1, GotoSigns DEF ReadTip
  <2>2. QED
    BY <1>3, <2>1 DEF ReadTip, Idle
<1>4. CASE CommitProposal(n, l)
  <2>1. Records(n)
    BY <1>4 DEF CommitProposal, Records
  <2>2. CASE Return(n, l, {}) /\ UNCHANGED votes
    BY <1>2, <1>4, <2>2, ReturnSigns DEF CommitProposal
  <2>3. CASE BeginVote(n, l, CreateVote(n, "prevote", t.round, t.block), {})
    <3>1. t.round \in Rounds /\ t.block \in Blocks
      BY <1>1, <1>4, TaskFields DEF CommitProposal
    <3>2. PICK v \in Vote : v = CreateVote(n, "prevote", t.round, t.block)
      BY <3>1, CreateVoteType
    <3>3. Relied(n, v)'
      BY <3>2 DEF Relied, CreateVote
    <3>4. QED
      BY <2>1, <2>3, <3>2, <3>3, BeginSigns
  <2>4. QED
    BY <1>4, <2>2, <2>3 DEF CommitProposal
<1>5. CASE AcquireVoteLock(n, l)
  <2>1. PICK v \in Vote : v = t.vote
    BY <1>1, <1>5, TaskFields DEF AcquireVoteLock
  <2>2. /\ RecordVote(n, l, v, t.sends)
        /\ Relied(n, v) /\ UNCHANGED <<savedVotes, savedLocks>>
        /\ \A u \in t.sends : u.from = n /\ u \in savedVotes[n]
    BY <1>1, <1>5, <2>1 DEF AcquireVoteLock, TaskSigns
  <2>3. Records(n) /\ Relied(n, v)'
    BY <2>2 DEF Records, Relied
  <2>4. QED
    BY <2>2, <2>3, RecordSigns
<1>6. CASE CommitPrevote(n, l)
  <2>1. /\ t.pc = "vote_commit"
        /\ savedVotes' = [savedVotes EXCEPT ![n] = @ \cup {t.vote}]
        /\ UNCHANGED <<votes, savedLocks>>
    BY <1>6 DEF CommitPrevote
  <2>2. /\ \A q \in Nodes : savedVotes[q] \subseteq savedVotes'[q]
        /\ \A q \in Nodes : savedVotes'[q] \subseteq votes[q]
        /\ t.vote \in votes[n]
        /\ \A u \in Sends(n, t) : u.from = n /\ u \in savedVotes'[n]
    BY <2>1, SaveSigns
  <2>3. CASE Return(n, l, Sends(n, t))
    BY <2>1, <2>3, <2>2, ReturnSigns
  <2>4. ASSUME NEW u, u = [pc |-> "lock_commit", vote |-> t.vote, sends |-> Sends(n, t)],
               Goto(n, l, u), UNCHANGED sentVotes
        PROVE  SignInv'
    <3>1. TaskSigns(n, u)'
      BY <2>1, <2>4, <2>2 DEF TaskSigns
    <3>2. QED
      BY <2>1, <2>4, <2>2, <3>1, GotoSigns
  <2>5. QED
    BY <1>6, <2>3, <2>4 DEF CommitPrevote
<1>7. CASE CommitLock(n, l)
  <2> DEFINE mark == [round |-> t.vote.round, block |-> t.vote.block]
  <2>1. /\ t.pc = "lock_commit" /\ t.vote.round \in Rounds /\ t.vote.block \in Blocks
        /\ savedLocks' = [savedLocks EXCEPT ![n] = @ \cup {mark}]
        /\ UNCHANGED savedVotes
    BY <1>1, <1>7, TaskFields, VoteFields DEF CommitLock
  <2>2. \A u \in t.sends : u.from = n /\ u \in savedVotes[n]
    BY <1>1, <2>1 DEF TaskSigns
  <2>3. Records(n) /\ mark \in savedLocks'[n]
    BY <2>1 DEF Records, TypeOK
  <2>4. CASE Return(n, l, t.sends) /\ UNCHANGED votes
    <3>1. Grow /\ Goto(n, l, Idle) /\ TaskSigns(n, Idle)'
      BY <2>3, <2>4 DEF Grow, Records, Return, TaskSigns, Idle
    <3>2. \A u \in sentVotes' : u \in sentVotes \/ u \in savedVotes'[u.from]
      BY <2>1, <2>2, <2>4 DEF Return
    <3>3. QED
      BY <1>2, <2>1, <2>4, <3>1, <3>2, HandlerKeeps
  <2>5. CASE BeginVote(n, l, CreateVote(n, "precommit", t.vote.round, t.vote.block),
                       t.sends)
    <3>1. PICK v \in Vote : v = CreateVote(n, "precommit", t.vote.round, t.vote.block)
      BY <2>1, CreateVoteType
    <3>2. Relied(n, v)'
      BY <2>3, <3>1 DEF Relied, CreateVote
    <3>3. QED
      BY <2>2, <2>3, <2>5, <3>1, <3>2, BeginSigns
  <2>6. QED
    BY <1>7, <2>4, <2>5 DEF CommitLock
<1>8. CASE CommitTimeout(n, l)
  <2>1. /\ t.pc = "vote_commit"
        /\ savedVotes' = [savedVotes EXCEPT ![n] = @ \cup {t.vote}]
        /\ UNCHANGED <<votes, savedLocks>>
    BY <1>8 DEF CommitTimeout
  <2>2. /\ \A q \in Nodes : savedVotes[q] \subseteq savedVotes'[q]
        /\ \A q \in Nodes : savedVotes'[q] \subseteq votes[q]
        /\ t.vote \in votes[n]
        /\ \A u \in Sends(n, t) : u.from = n /\ u \in savedVotes'[n]
    BY <2>1, SaveSigns
  <2>3. CASE Return(n, l, Sends(n, t))
    BY <2>1, <2>3, <2>2, ReturnSigns
  <2>4. ASSUME NEW u, u = [pc |-> "advance_commit", round |-> t.vote.round + 1,
                           sends |-> Sends(n, t)],
               Goto(n, l, u), UNCHANGED sentVotes
        PROVE  SignInv'
    <3>1. TaskSigns(n, u)'
      BY <2>1, <2>4, <2>2 DEF TaskSigns
    <3>2. QED
      BY <2>1, <2>4, <2>2, <3>1, GotoSigns
  <2>5. QED
    BY <1>8, <2>3, <2>4 DEF CommitTimeout
<1>9. CASE CommitAdvance(n, l)
  <2>1. \A u \in t.sends : u.from = n /\ u \in savedVotes[n]
    BY <1>1, <1>9 DEF TaskSigns, CommitAdvance
  <2>2. QED
    BY <1>2, <1>9, <2>1, ReturnSigns DEF CommitAdvance
<1>10. CASE CommitPrecommit(n, l)
  <2>1. /\ t.pc = "vote_commit"
        /\ savedVotes' = [savedVotes EXCEPT ![n] = @ \cup {t.vote}]
        /\ UNCHANGED <<votes, savedLocks>>
    BY <1>10 DEF CommitPrecommit
  <2>2. /\ \A q \in Nodes : savedVotes[q] \subseteq savedVotes'[q]
        /\ \A q \in Nodes : savedVotes'[q] \subseteq votes[q]
        /\ t.vote \in votes[n]
        /\ \A u \in Sends(n, t) : u.from = n /\ u \in savedVotes'[n]
    BY <2>1, SaveSigns
  <2>3. CASE Return(n, l, Sends(n, t))
    BY <2>1, <2>3, <2>2, ReturnSigns
  <2>4. ASSUME NEW own \in BOOLEAN,
               BeginFinalize(n, l, t.vote.round, t.vote.block, own, Sends(n, t))
        PROVE  SignInv'
    BY <2>1, <2>2, <2>4, FinalizeSigns
  <2>5. QED
    BY <1>10, <2>3, <2>4 DEF CommitPrecommit
<1>11. CASE CommitFinal(n, l)
  <2>1. \A u \in t.sends : u.from = n /\ u \in savedVotes[n]
    BY <1>1, <1>11 DEF TaskSigns, CommitFinal
  <2>2. QED
    BY <1>2, <1>11, <2>1, ReturnSigns DEF CommitFinal
<1>12. QED
  BY <1>3, <1>4, <1>5, <1>6, <1>7, <1>8, <1>9, <1>10, <1>11 DEF Resume

\* What is read back is what was saved, and no handler survives the crash.
LEMMA RestartSigns ==
  ASSUME TypeOK, SignInv, NEW n \in Nodes, Restart(n)
  PROVE  SignInv'
<1> USE DEF network
<1>1. /\ votes' = [votes EXCEPT ![n] = savedVotes[n]]
      /\ UNCHANGED <<savedVotes, savedLocks, sentVotes>>
      /\ task' = [task EXCEPT ![n] = [l \in Lanes |-> Idle]]
  BY DEF Restart, RestoredVotes
<1>2. \A q \in Nodes : savedVotes'[q] \subseteq votes'[q] /\ votes'[q] \subseteq votes[q]
  BY <1>1 DEF SignInv, TypeOK
<1>3. /\ \A q \in Nodes : OnePerSlot(votes'[q])
      /\ \A q \in Nodes : \A v \in votes'[q] : Relied(q, v)'
  BY <1>1, <1>2 DEF SignInv, OnePerSlot, Relied
<1>4. ASSUME NEW q \in Nodes, NEW k \in Lanes
      PROVE  TaskSigns(q, task[q][k])'
  <2>1. CASE q = n
    <3>1. task'[q][k] = Idle
      BY <1>1, <2>1 DEF TypeOK
    <3>2. QED
      BY <3>1 DEF TaskSigns, Idle
  <2>2. CASE q # n
    <3>1. task'[q][k] = task[q][k] /\ votes'[q] = votes[q]
      BY <1>1, <2>2 DEF TypeOK
    <3>2. TaskSigns(q, task[q][k])
      BY DEF SignInv
    <3>3. QED
      BY <1>1, <3>1, <3>2 DEF TaskSigns, Relied
  <2>3. QED
    BY <2>1, <2>2
<1>5. \A v \in sentVotes' : v \in savedVotes'[v.from]
  BY <1>1 DEF SignInv
<1>6. QED
  BY <1>2, <1>3, <1>4, <1>5 DEF SignInv

LEMMA SignStep ==
  ASSUME TypeOK, SignInv, [Next]_vars
  PROVE  SignInv'
<1> USE DEF network, memory, disk
<1>1. \A q \in Nodes : savedVotes[q] \subseteq votes[q]
  BY DEF SignInv
<1>2. CASE UNCHANGED <<votes, savedVotes, savedLocks, sentVotes, task>>
  BY <1>2 DEF SignInv, Relied, TaskSigns
<1>3. ASSUME NEW n \in Nodes, NEW l \in Lanes, NEW r \in Rounds, OnRoundTimeout(n, l, r)
      PROVE  SignInv'
  <2>1. PICK v \in Vote : v = TimeoutVote(n, r)
    BY <1>3, CreateVoteType DEF OnRoundTimeout
  <2>2. Records(n) /\ Relied(n, v)'
    BY <1>3, <2>1 DEF OnRoundTimeout, Records, Relied, TimeoutVote, CreateVote
  <2>3. QED
    BY <1>3, <2>1, <2>2, BeginSigns DEF OnRoundTimeout
<1>4. ASSUME NEW n \in Nodes, NEW l \in Lanes, NEW m \in proposals, ReceiveProposal(n, l, m)
      PROVE  SignInv'
  <2>1. PICK t : t = [pc |-> "tip", round |-> m.round, block |-> m.block,
                      validRound |-> m.validRound]
    OBVIOUS
  <2>2. TaskSigns(n, t)'
    BY <2>1 DEF TaskSigns
  <2>3. QED
    BY <1>1, <1>4, <2>1, <2>2, GotoSigns DEF ReceiveProposal
<1>5. ASSUME NEW n \in Nodes, NEW l \in Lanes, NEW v \in sentVotes, ReceiveVote(n, l, v)
      PROVE  SignInv'
  <2>1. v \in Vote /\ Records(n)
    BY <1>5 DEF ReceiveVote, Records, TypeOK
  <2>2. v.from # n
    <3>1. v \in savedVotes[v.from]
      BY DEF SignInv
    <3>2. v \notin votes[n]
      BY <1>5, VoteIsVoted DEF ReceiveVote, TypeOK
    <3>3. QED
      BY <1>1, <3>1, <3>2
  <2>3. Relied(n, v)'
    BY <2>2 DEF Relied
  <2>4. QED
    BY <1>5, <2>1, <2>3, BeginSigns DEF ReceiveVote
<1>6. ASSUME NEW n \in Nodes, NEW l \in Lanes, NEW c \in certificates,
             ReceiveCertificate(n, l, c)
      PROVE  SignInv'
  <2>1. PICK own \in BOOLEAN :
        /\ BeginFinalize(n, l, c.round, c.block, own, {})
        /\ UNCHANGED <<votes, savedLocks, savedVotes>>
    BY <1>6 DEF ReceiveCertificate
  <2>2. \A q \in Nodes : savedVotes[q] \subseteq savedVotes'[q] /\ savedVotes'[q] \subseteq votes[q]
    BY <1>1, <2>1
  <2>3. \A u \in {} : u.from = n /\ u \in savedVotes'[n]
    OBVIOUS
  <2>4. QED
    BY <2>1, <2>2, <2>3, FinalizeSigns
<1>7. ASSUME NEW n \in Nodes, NEW l \in Lanes, CommitRaises(n, l)
      PROVE  SignInv'
  <2>1. TaskSigns(n, Idle)'
    BY DEF TaskSigns, Idle
  <2>2. QED
    BY <1>1, <1>7, <2>1, GotoSigns DEF CommitRaises
<1>8. ASSUME NEW n \in Nodes, NEW l \in Lanes, CommitCaught(n, l)
      PROVE  SignInv'
  <2>1. TaskSigns(n, task[n][l])
    BY DEF SignInv
  <2>2. \A u \in task[n][l].sends : u.from = n /\ u \in savedVotes[n]
    BY <1>8, <2>1 DEF TaskSigns, CommitCaught
  <2>3. QED
    BY <1>1, <1>8, <2>2, ReturnSigns DEF CommitCaught
<1>9. ASSUME NEW n \in Nodes, NEW r \in Rounds, NEW b \in Blocks,
             NEW vr \in Rounds \cup {-1}, Propose(n, r, b, vr)
      PROVE  SignInv'
  BY <1>2, <1>9 DEF Propose
<1>10. CASE UNCHANGED vars
  BY <1>2, <1>10 DEF vars
<1>11. QED
  BY <1>3, <1>4, <1>5, <1>6, <1>7, <1>8, <1>9, <1>10, ResumeSigns, RestartSigns
     DEF Next, Driver, Deliver

LEMMA SignInit ==
  ASSUME Init
  PROVE  SignInv
  BY DEF Init, SignInv, OnePerSlot, TaskSigns, Relied, Idle

\* However the handlers of a node interleave, its buckets hold one vote of a
\* validator per type and round, and what it sent is durable.
THEOREM SignInvariant == Spec => []SignInv
<1>1. Init => SignInv
  BY SignInit
<1>2. TypeOK /\ SignInv /\ [Next]_vars => SignInv'
  BY SignStep
<1>3. QED
  BY <1>1, <1>2, TypeCorrect, PTL DEF Spec

\* However the handlers of a node interleave and whenever it crashes or fails
\* to commit, it never lets two different votes of one type and round out.
THEOREM VoteOncePerSlot == Spec => []OneVotePerSlot
<1>1. TypeOK /\ SignInv => OneVotePerSlot
  <2>1. ASSUME TypeOK, SignInv, NEW u \in sentVotes, NEW v \in sentVotes,
               u.from = v.from, u.type = v.type, u.round = v.round
        PROVE  u = v
    <3>1. v.from \in Nodes
      BY <2>1, VoteFields DEF TypeOK
    <3>2. u \in votes[v.from] /\ v \in votes[v.from] /\ OnePerSlot(votes[v.from])
      BY <2>1, <3>1 DEF SignInv
    <3>3. QED
      BY <2>1, <3>2 DEF OnePerSlot
  <2>2. QED
    BY <2>1 DEF OneVotePerSlot
<1>2. QED
  BY <1>1, TypeCorrect, SignInvariant, PTL

\* Likewise, what leaves a node is on its disk, and under a precommit the lock
\* it stands on.
THEOREM WireIsSaved == Spec => []SentIsSaved
<1>1. TypeOK /\ SignInv => SentIsSaved
  <2>1. ASSUME TypeOK, SignInv, NEW v \in sentVotes
        PROVE  /\ v \in savedVotes[v.from]
               /\ v.type = "precommit" =>
                    [round |-> v.round, block |-> v.block] \in savedLocks[v.from]
    <3>1. v.from \in Nodes
      BY <2>1, VoteFields DEF TypeOK
    <3>2. v \in savedVotes[v.from] /\ Relied(v.from, v)
      BY <2>1, <3>1 DEF SignInv
    <3>3. QED
      BY <3>2 DEF Relied
  <2>2. QED
    BY <2>1 DEF SentIsSaved
<1>2. QED
  BY <1>1, TypeCorrect, SignInvariant, PTL

----------------------------------------------------------------------------
(* Locks and finality                                                      *)

Reached(r) == \E q \in Nodes : r <= currentRound[q]

LockOK(n, v) ==
  v.from = n /\ v.type = "precommit" =>
    locked[n] # Unset /\ v.round <= locked[n].round /\ Reached(v.round)

MarkOK(n, t) ==
  t.pc = "lock_commit" =>
    /\ locked[n] = [round |-> t.vote.round, block |-> t.vote.block]
    /\ Reached(t.vote.round)

\* A precommit in its signer's memory has a lock at least as late, and its
\* round is one some validator came to; a lock that is being written is the
\* one in memory.
LockInv ==
  /\ \A n \in Nodes : \A v \in votes[n] : LockOK(n, v)
  /\ \A n \in Nodes, l \in Lanes : MarkOK(n, task[n][l])

RoundsRise == \A q \in Nodes : currentRound[q] <= currentRound'[q]

\* Nobody is past round r.
Latest(r) == \A q \in Nodes : currentRound[q] <= r

LEMMA ReachedStays ==
  ASSUME TypeOK, TypeOK', RoundsRise, NEW r \in Rounds, Reached(r)
  PROVE  Reached(r)'
<1>1. PICK q \in Nodes : r <= currentRound[q]
  BY DEF Reached
<1>2. r <= currentRound'[q]
  BY <1>1 DEF RoundsRise, TypeOK, Rounds
<1>3. QED
  BY <1>2 DEF Reached

\* A prevote quorum is of a round that somebody has come to and nobody left.
LEMMA QuorumIsLatest ==
  ASSUME TypeOK, SerialInv, NEW n \in Nodes, NEW r \in Rounds, NEW b \in Blocks,
         HasQuorum(votes[n], "prevote", r, b)
  PROVE  Latest(r) /\ Reached(r)
<1>1. NoQuorumLeftBehind
  BY InvNoQuorumLeftBehind
<1>2. Latest(r)
  BY <1>1 DEF NoQuorumLeftBehind, Latest, TypeOK, Rounds
<1>3. PICK q \in Nodes : q \in Voters(votes[n], "prevote", r, b)
  BY QuorumMember DEF HasQuorum, Voters
<1>4. CreateVote(q, "prevote", r, b) \in votes[q]
  BY <1>3, HeldBySigner DEF Voters, CreateVote
<1>5. r <= currentRound[q]
  BY <1>4 DEF Voted, SerialInv, VotesInPast
<1>6. QED
  BY <1>2, <1>5 DEF Reached

\* So is what is certified.
LEMMA CertifiedIsLatest ==
  ASSUME TypeOK, SerialInv, N > 1, NEW c \in Mark, Certified(c)
  PROVE  Latest(c.round)
<1>1. SUFFICES ASSUME NEW m \in Nodes, currentRound[m] > c.round
               PROVE  FALSE
  BY DEF Latest, TypeOK, Rounds, Mark
<1> DEFINE C == Backers(c.round, c.block)
           L == Leavers(c.round)
<1>2. C \in SUBSET Nodes /\ L \in SUBSET Nodes /\ c.round \in Rounds /\ c.block \in Blocks
  BY DEF Backers, Leavers, Mark
<1>3. Cardinality(C) + 1 >= QuorumSize
  BY DEF Certified, Backed
<1>4. Cardinality(L) >= QuorumSize
  BY <1>1, <1>2 DEF SerialInv, RoundsGivenUp, TypeOK, Rounds
<1>5. PICK q \in Nodes : q \in C /\ q \in L
  <2> HIDE DEF C, L
  <2>1. Cardinality(C) + Cardinality(L) > N
    BY <1>2, <1>3, <1>4, NodeSets, QuorumSizes, NAssumption
  <2>2. QED
    BY <1>2, <2>1, QuorumsMeet
<1>6. CreateVote(q, "prevote", c.round, c.block) \in votes[q]
  BY <1>5 DEF Backers, SerialInv, DiskInMemory
<1>7. QED
  BY <1>2, <1>5, <1>6 DEF Voted, Leavers, GivenUp

\* A later lock is as good.
LEMMA LockRises ==
  ASSUME TypeOK, TypeOK', RoundsRise, LockInv, NEW n \in Nodes, NEW v \in votes[n],
         locked'[n] = locked[n] \/ (locked'[n] \in Mark /\ Latest(locked'[n].round))
  PROVE  LockOK(n, v)'
<1>1. SUFFICES ASSUME v.from = n, v.type = "precommit"
               PROVE  /\ locked'[n] # Unset /\ v.round <= locked'[n].round
                      /\ Reached(v.round)'
  BY DEF LockOK
<1>2. v.round \in Rounds
  BY VoteFields DEF TypeOK
<1>3. locked[n] # Unset /\ v.round <= locked[n].round /\ Reached(v.round)
  BY <1>1 DEF LockInv, LockOK
<1>4. Reached(v.round)'
  BY <1>2, <1>3, ReachedStays
<1>5. CASE locked'[n] = locked[n]
  BY <1>3, <1>4, <1>5
<1>6. CASE locked'[n] \in Mark /\ Latest(locked'[n].round)
  <2>1. PICK q \in Nodes : v.round <= currentRound[q]
    BY <1>3 DEF Reached
  <2>2. /\ currentRound[q] <= locked'[n].round
        /\ currentRound[q] \in Rounds /\ locked'[n].round \in Rounds
    BY <1>6 DEF Latest, TypeOK, Mark
  <2>3. v.round <= locked'[n].round
    BY <1>2, <2>1, <2>2 DEF Rounds
  <2>4. locked'[n] # Unset
    BY <2>2 DEF Unset, Rounds
  <2>5. QED
    BY <1>4, <2>3, <2>4
<1>7. QED
  BY <1>5, <1>6

\* One step of node n, whose lock stays or rises and which takes in at most
\* one vote, for the handler in its only lane.
LEMMA LockStep ==
  ASSUME TypeOK, TypeOK', RoundsRise, SerialLanes, LockInv,
         NEW n \in Nodes, NEW l \in Lanes, NEW t,
         Goto(n, l, t), MarkOK(n, t)',
         \A m \in Nodes \ {n} : locked'[m] = locked[m] /\ votes'[m] = votes[m],
         locked'[n] = locked[n] \/ (locked'[n] \in Mark /\ Latest(locked'[n].round)),
         \A v \in votes'[n] : v \in votes[n] \/ LockOK(n, v)'
  PROVE  LockInv'
<1>1. ASSUME NEW m \in Nodes, NEW v \in votes'[m]
      PROVE  LockOK(m, v)'
  <2>1. CASE m = n
    BY <2>1, LockRises
  <2>2. CASE m # n
    BY <2>2, LockRises
  <2>3. QED
    BY <2>1, <2>2
<1>2. ASSUME NEW m \in Nodes, NEW k \in Lanes, NEW u, u = task'[m][k]
      PROVE  MarkOK(m, u)'
  <2>1. CASE m = n
    <3>1. u = t
      BY <1>2, <2>1 DEF Goto, TypeOK, SerialLanes
    <3>2. QED
      BY <2>1, <3>1
  <2>2. CASE m # n
    <3>1. u = task[m][k] /\ locked'[m] = locked[m]
      BY <1>2, <2>2 DEF Goto, TypeOK
    <3>2. u \in Task /\ MarkOK(m, u)
      BY <3>1 DEF LockInv, TypeOK
    <3>3. u.pc = "lock_commit" => u.vote.round \in Rounds
      BY <3>2, TaskFields, VoteFields
    <3>4. QED
      BY <3>1, <3>2, <3>3, ReachedStays DEF MarkOK
  <2>3. QED
    BY <2>1, <2>2
<1>3. \A m \in Nodes, k \in Lanes : MarkOK(m, task[m][k])'
  BY <1>2 DEF MarkOK, Reached
<1>4. QED
  BY <1>1, <1>3 DEF LockInv

\* A vote taken in while the locks stay.
LEMMA RecordLocks ==
  ASSUME TypeOK, TypeOK', RoundsRise, SerialLanes, LockInv,
         NEW n \in Nodes, NEW l \in Lanes, NEW v \in Vote, NEW S,
         RecordVote(n, l, v, S), UNCHANGED locked, LockOK(n, v)'
  PROVE  LockInv'
<1>1. CASE Return(n, l, S) /\ UNCHANGED votes
  <2>1. Goto(n, l, Idle) /\ MarkOK(n, Idle)'
    BY <1>1 DEF Return, MarkOK, Idle
  <2>2. QED
    BY <1>1, <2>1, LockStep
<1>2. ASSUME NEW t, t = [pc |-> "vote_commit", vote |-> v, sends |-> S],
             votes' = [votes EXCEPT ![n] = @ \cup {v}], Goto(n, l, t)
      PROVE  LockInv'
  <2>1. MarkOK(n, t)'
    BY <1>2 DEF MarkOK
  <2>2. \A m \in Nodes \ {n} : locked'[m] = locked[m] /\ votes'[m] = votes[m]
    BY <1>2 DEF TypeOK
  <2>3. \A u \in votes'[n] : u \in votes[n] \/ LockOK(n, u)'
    BY <1>2 DEF TypeOK
  <2>4. QED
    BY <1>2, <2>1, <2>2, <2>3, LockStep
<1>3. QED
  BY <1>1, <1>2 DEF RecordVote

\* A handler that suspends or ends while votes and locks stay.
LEMMA GotoLocks ==
  ASSUME TypeOK, TypeOK', RoundsRise, SerialLanes, LockInv,
         NEW n \in Nodes, NEW l \in Lanes, NEW t,
         Goto(n, l, t), t.pc # "lock_commit", UNCHANGED <<locked, votes>>
  PROVE  LockInv'
<1>1. MarkOK(n, t)'
  BY DEF MarkOK
<1>2. QED
  BY <1>1, LockStep

LEMMA ReturnLocks ==
  ASSUME TypeOK, TypeOK', RoundsRise, SerialLanes, LockInv,
         NEW n \in Nodes, NEW l \in Lanes, NEW S,
         Return(n, l, S), UNCHANGED <<locked, votes>>
  PROVE  LockInv'
<1>1. Goto(n, l, Idle) /\ Idle.pc # "lock_commit"
  BY DEF Return, Idle
<1>2. QED
  BY <1>1, GotoLocks

\* finalize locks the block it was told of, of a round nobody has left.
LEMMA FinalizeLocks ==
  ASSUME TypeOK, TypeOK', RoundsRise, SerialLanes, LockInv,
         NEW n \in Nodes, NEW l \in Lanes, NEW r \in Rounds, NEW b \in Blocks,
         NEW own \in BOOLEAN, NEW S,
         BeginFinalize(n, l, r, b, own, S), UNCHANGED votes, Latest(r)
  PROVE  LockInv'
<1> DEFINE mark == [round |-> r, block |-> b]
<1>1. CASE Return(n, l, S) /\ UNCHANGED locked
  BY <1>1, ReturnLocks
<1>2. ASSUME NEW t, t.pc # "lock_commit", Goto(n, l, t),
             locked' = [locked EXCEPT ![n] = mark]
      PROVE  LockInv'
  <2>1. MarkOK(n, t)'
    BY <1>2 DEF MarkOK
  <2>2. /\ \A m \in Nodes \ {n} : locked'[m] = locked[m] /\ votes'[m] = votes[m]
        /\ locked'[n] = mark
    BY <1>2 DEF TypeOK
  <2>3. mark \in Mark /\ mark.round = r
    BY DEF Mark
  <2>4. locked'[n] \in Mark /\ Latest(locked'[n].round)
    BY <2>2, <2>3
  <2>5. QED
    BY <1>2, <2>1, <2>2, <2>4, LockStep
<1>3. Idle.pc # "lock_commit"
  BY DEF Idle
<1>4. CASE Return(n, l, S) /\ locked' = [locked EXCEPT ![n] = mark]
  BY <1>2, <1>3, <1>4 DEF Return
<1>5. QED
  BY <1>1, <1>2, <1>4 DEF BeginFinalize

\* What is read back has the lock of every precommit that is read back.
LEMMA RestartLocks ==
  ASSUME TypeOK, TypeOK', RoundsRise, SignInv, LockInv, NEW n \in Nodes, Restart(n)
  PROVE  LockInv'
<1>1. /\ votes' = [votes EXCEPT ![n] = savedVotes[n]]
      /\ task' = [task EXCEPT ![n] = [l \in Lanes |-> Idle]]
  BY DEF Restart, RestoredVotes
<1>2. PICK lock \in RestoredLocks(n) : locked' = [locked EXCEPT ![n] = lock]
  BY DEF Restart
<1>3. ASSUME NEW m \in Nodes, NEW v \in votes'[m]
      PROVE  LockOK(m, v)'
  <2>1. CASE m # n
    BY <1>1, <1>2, <2>1, LockRises DEF TypeOK
  <2>2. CASE m = n /\ v.from = n /\ v.type = "precommit"
    <3>1. v \in savedVotes[n] /\ v \in votes[n] /\ v \in Vote
      BY <1>1, <2>2 DEF TypeOK, SignInv
    <3>2. v.round \in Rounds /\ Reached(v.round)
      BY <2>2, <3>1, VoteFields DEF LockInv, LockOK
    <3>3. [round |-> v.round, block |-> v.block] \in SavedMarks(n)
      BY <2>2, <3>1 DEF SignInv, Relied, SavedMarks
    <3>4. lock \in SavedMarks(n) /\ v.round <= lock.round
      BY <3>3 DEF RestoredLocks
    <3>5. SavedMarks(n) \subseteq Mark
      BY DEF SavedMarks, TypeOK
    <3>6. lock # Unset
      BY <3>4, <3>5 DEF Mark, Unset, Rounds
    <3>7. locked'[n] = lock
      BY <1>2 DEF TypeOK
    <3>8. QED
      BY <2>2, <3>2, <3>4, <3>6, <3>7, ReachedStays DEF LockOK
  <2>3. QED
    BY <2>1, <2>2 DEF LockOK
<1>4. ASSUME NEW m \in Nodes, NEW k \in Lanes, NEW u, u = task'[m][k]
      PROVE  MarkOK(m, u)'
  <2>1. CASE m = n
    BY <1>1, <1>4, <2>1 DEF MarkOK, Idle, TypeOK
  <2>2. CASE m # n
    <3>1. u = task[m][k] /\ locked'[m] = locked[m]
      BY <1>1, <1>2, <1>4, <2>2 DEF TypeOK
    <3>2. u \in Task /\ MarkOK(m, u)
      BY <3>1 DEF LockInv, TypeOK
    <3>3. u.pc = "lock_commit" => u.vote.round \in Rounds
      BY <3>2, TaskFields, VoteFields
    <3>4. QED
      BY <3>1, <3>2, <3>3, ReachedStays DEF MarkOK
  <2>3. QED
    BY <2>1, <2>2
<1>5. \A m \in Nodes, k \in Lanes : MarkOK(m, task[m][k])'
  BY <1>4 DEF MarkOK, Reached
<1>6. QED
  BY <1>3, <1>5 DEF LockInv

LEMMA LockResume ==
  ASSUME TypeOK, TypeOK', RoundsRise, SerialLanes, SerialInv, LockInv,
         NEW n \in Nodes, NEW l \in Lanes, Resume(n, l)
  PROVE  LockInv'
<1> USE DEF network, memory, disk
<1> DEFINE t == task[n][l]
<1>1. t \in Task /\ HandlerOK(n, t) /\ MarkOK(n, t)
  BY DEF TypeOK, SerialInv, HandlersOK, LockInv
<1>2. CASE ReadTip(n, l)
  <2>1. ASSUME NEW u, Goto(n, l, u), u.pc \in {"idle", "proposal_commit"}
        PROVE  LockInv'
    BY <1>2, <2>1, GotoLocks DEF ReadTip
  <2>2. QED
    BY <1>2, <2>1 DEF ReadTip, Idle
<1>3. CASE CommitProposal(n, l)
  <2>1. CASE Return(n, l, {}) /\ UNCHANGED votes
    BY <1>3, <2>1, ReturnLocks DEF CommitProposal
  <2>2. CASE BeginVote(n, l, CreateVote(n, "prevote", t.round, t.block), {})
    <3>1. t.round \in Rounds /\ t.block \in Blocks
      BY <1>1, <1>3, TaskFields DEF CommitProposal
    <3>2. PICK v \in Vote : v = CreateVote(n, "prevote", t.round, t.block)
      BY <3>1, CreateVoteType
    <3>3. LockOK(n, v)' /\ RecordVote(n, l, v, {})
      BY <2>2, <3>2, BeginVoteSerial DEF LockOK, CreateVote
    <3>4. QED
      BY <1>3, <3>3, RecordLocks DEF CommitProposal
  <2>3. QED
    BY <1>3, <2>1, <2>2 DEF CommitProposal
<1>4. CASE AcquireVoteLock(n, l)
  BY <1>1, <1>4 DEF AcquireVoteLock, HandlerOK
<1>5. CASE CommitPrevote(n, l)
  <2>1. /\ t.pc = "vote_commit" /\ t.vote.type = "prevote" /\ t.vote \in Vote
        /\ t.vote.round \in Rounds /\ t.vote.block \in Blocks
        /\ UNCHANGED votes
    BY <1>1, <1>5, TaskFields, VoteFields DEF CommitPrevote
  <2>2. CASE Return(n, l, Sends(n, t)) /\ UNCHANGED locked
    BY <2>1, <2>2, ReturnLocks
  <2>3. ASSUME NEW u, u = [pc |-> "lock_commit", vote |-> t.vote, sends |-> Sends(n, t)],
               NEW mark, mark = [round |-> t.vote.round, block |-> t.vote.block],
               Goto(n, l, u), locked' = [locked EXCEPT ![n] = mark],
               HasQuorum(votes[n], "prevote", t.vote.round, t.vote.block)
        PROVE  LockInv'
    <3>1. Latest(t.vote.round) /\ Reached(t.vote.round)
      BY <2>1, <2>3, QuorumIsLatest
    <3>2. /\ \A m \in Nodes \ {n} : locked'[m] = locked[m] /\ votes'[m] = votes[m]
          /\ locked'[n] = mark
      BY <2>1, <2>3 DEF TypeOK
    <3>3. mark \in Mark /\ mark.round = t.vote.round
      BY <2>1, <2>3 DEF Mark
    <3>4. locked'[n] \in Mark /\ Latest(locked'[n].round)
      BY <3>1, <3>2, <3>3
    <3>5. MarkOK(n, u)'
      <4>1. PICK w : w = t.vote
        OBVIOUS
      <4>2. Reached(w.round)'
        BY <2>1, <3>1, <4>1, ReachedStays
      <4>3. QED
        BY <2>3, <3>2, <4>1, <4>2 DEF MarkOK
    <3>6. QED
      BY <2>1, <2>3, <3>2, <3>4, <3>5, LockStep
  <2>4. QED
    BY <1>5, <2>2, <2>3 DEF CommitPrevote, HasCertificate
<1>6. CASE CommitLock(n, l)
  <2>1. /\ t.pc = "lock_commit" /\ t.vote.round \in Rounds /\ t.vote.block \in Blocks
        /\ UNCHANGED locked
    BY <1>1, <1>6, TaskFields, VoteFields DEF CommitLock
  <2>2. CASE Return(n, l, t.sends) /\ UNCHANGED votes
    BY <2>1, <2>2, ReturnLocks
  <2>3. CASE BeginVote(n, l, CreateVote(n, "precommit", t.vote.round, t.vote.block),
                       t.sends)
    <3>1. PICK v \in Vote : v = CreateVote(n, "precommit", t.vote.round, t.vote.block)
      BY <2>1, CreateVoteType
    <3>2. v.round = t.vote.round
      BY <3>1 DEF CreateVote
    <3>3. /\ locked[n] = [round |-> v.round, block |-> t.vote.block]
          /\ v.round \in Rounds /\ Reached(v.round)
      BY <1>1, <2>1, <3>2 DEF MarkOK
    <3>4. locked'[n] # Unset /\ v.round <= locked'[n].round /\ Reached(v.round)'
      BY <2>1, <3>3, ReachedStays DEF Unset, Rounds
    <3>5. LockOK(n, v)' /\ RecordVote(n, l, v, t.sends)
      BY <2>3, <3>1, <3>4, BeginVoteSerial DEF LockOK
    <3>6. QED
      BY <2>1, <3>5, RecordLocks
  <2>4. QED
    BY <1>6, <2>2, <2>3 DEF CommitLock
<1>7. CASE CommitTimeout(n, l)
  <2>1. ASSUME NEW u, u = [pc |-> "advance_commit", round |-> t.vote.round + 1,
                           sends |-> Sends(n, t)],
               Goto(n, l, u)
        PROVE  LockInv'
    BY <1>7, <2>1, GotoLocks DEF CommitTimeout
  <2>2. QED
    BY <1>7, <2>1, ReturnLocks DEF CommitTimeout
<1>8. CASE CommitAdvance(n, l)
  BY <1>8, ReturnLocks DEF CommitAdvance
<1>9. CASE CommitPrecommit(n, l)
  <2>1. /\ t.pc = "vote_commit" /\ t.vote.type = "precommit" /\ t.vote \in Vote
        /\ t.vote.round \in Rounds /\ t.vote.block \in Blocks
        /\ UNCHANGED votes
    BY <1>1, <1>9, TaskFields, VoteFields DEF CommitPrecommit
  <2>2. CASE Return(n, l, Sends(n, t)) /\ UNCHANGED locked
    BY <2>1, <2>2, ReturnLocks
  <2>3. ASSUME NEW own \in BOOLEAN,
               BeginFinalize(n, l, t.vote.round, t.vote.block, own, Sends(n, t)),
               HasQuorum(votes[n], "prevote", t.vote.round, t.vote.block)
        PROVE  LockInv'
    <3>1. Latest(t.vote.round)
      BY <2>1, <2>3, QuorumIsLatest
    <3>2. QED
      BY <2>1, <2>3, <3>1, FinalizeLocks
  <2>4. QED
    BY <1>9, <2>2, <2>3 DEF CommitPrecommit, HasCertificate
<1>10. CASE CommitFinal(n, l)
  BY <1>10, ReturnLocks DEF CommitFinal
<1>11. QED
  BY <1>2, <1>3, <1>4, <1>5, <1>6, <1>7, <1>8, <1>9, <1>10 DEF Resume

LEMMA LockInvStep ==
  ASSUME TypeOK, TypeOK', SerialLanes, N > 1, SerialInv, SignInv, LockInv, [Next]_vars
  PROVE  LockInv'
<1> USE DEF network, memory, disk
<1>1. CASE UNCHANGED <<votes, locked, currentRound, task>>
  BY <1>1 DEF LockInv, LockOK, MarkOK, Reached
<1>2. CASE Next
  <2>1. RoundsRise
    BY <1>2, SerialProgress DEF Progress, RoundsRise
  <2>2. ASSUME NEW n \in Nodes, NEW l \in Lanes, NEW r \in Rounds, OnRoundTimeout(n, l, r)
        PROVE  LockInv'
    <3>1. PICK v \in Vote : v = TimeoutVote(n, r)
      BY <2>2, CreateVoteType DEF OnRoundTimeout
    <3>2. LockOK(n, v)' /\ RecordVote(n, l, v, {})
      BY <2>2, <3>1, BeginVoteSerial DEF OnRoundTimeout, LockOK, TimeoutVote, CreateVote
    <3>3. QED
      BY <2>1, <2>2, <3>2, RecordLocks DEF OnRoundTimeout
  <2>3. ASSUME NEW n \in Nodes, NEW l \in Lanes, NEW m \in proposals, ReceiveProposal(n, l, m)
        PROVE  LockInv'
    <3>1. PICK u : u = [pc |-> "tip", round |-> m.round, block |-> m.block,
                        validRound |-> m.validRound]
      OBVIOUS
    <3>2. QED
      BY <2>1, <2>3, <3>1, GotoLocks DEF ReceiveProposal
  <2>4. ASSUME NEW n \in Nodes, NEW l \in Lanes, NEW v \in sentVotes, ReceiveVote(n, l, v)
        PROVE  LockInv'
    <3>1. v \in Vote /\ RecordVote(n, l, v, {})
      BY <2>4, BeginVoteSerial DEF ReceiveVote, TypeOK
    <3>2. v.from # n
      BY <2>4, VoteIsVoted DEF ReceiveVote, TypeOK, SerialInv, DiskInMemory, SeenIsDurable
    <3>3. LockOK(n, v)'
      BY <3>2 DEF LockOK
    <3>4. QED
      BY <2>1, <2>4, <3>1, <3>3, RecordLocks DEF ReceiveVote
  <2>5. ASSUME NEW n \in Nodes, NEW l \in Lanes, NEW c \in certificates,
               ReceiveCertificate(n, l, c)
        PROVE  LockInv'
    <3>1. c \in Mark /\ c.round \in Rounds /\ c.block \in Blocks /\ Certified(c)
      BY DEF TypeOK, Mark, SerialInv, FinalityCertified
    <3>2. Latest(c.round)
      BY <3>1, CertifiedIsLatest
    <3>3. PICK own \in BOOLEAN : BeginFinalize(n, l, c.round, c.block, own, {})
      BY <2>5 DEF ReceiveCertificate
    <3>4. UNCHANGED votes
      BY <2>5 DEF ReceiveCertificate
    <3>5. QED
      BY <2>1, <3>1, <3>2, <3>3, <3>4, FinalizeLocks
  <2>6. ASSUME NEW n \in Nodes, NEW l \in Lanes, CommitRaises(n, l) \/ CommitCaught(n, l)
        PROVE  LockInv'
    <3>1. Goto(n, l, Idle) /\ Idle.pc # "lock_commit" /\ UNCHANGED <<locked, votes>>
      BY <2>6 DEF CommitRaises, CommitCaught, Return, Idle
    <3>2. QED
      BY <2>1, <3>1, GotoLocks
  <2>7. ASSUME NEW n \in Nodes, NEW r \in Rounds, NEW b \in Blocks,
               NEW vr \in Rounds \cup {-1}, Propose(n, r, b, vr)
        PROVE  LockInv'
    BY <1>1, <2>7 DEF Propose
  <2>8. QED
    BY <1>2, <2>1, <2>2, <2>3, <2>4, <2>5, <2>6, <2>7, LockResume, RestartLocks
       DEF Next, Driver, Deliver
<1>3. QED
  BY <1>1, <1>2 DEF vars

\* When every one of two or more validators handles one message at a time, none
\* of them ever loses, or weakens, the lock under a precommit it has sent, a
\* crash and a restart included.
THEOREM SerialPrecommitKeepsLock ==
  ASSUME SerialLanes, N > 1
  PROVE  Spec => []PrecommitKeepsLock
<1>1. Init => LockInv
  BY DEF Init, LockInv, MarkOK, Idle
<1>2. /\ TypeOK /\ TypeOK' /\ SerialInv /\ SignInv /\ LockInv /\ [Next]_vars
      => LockInv'
  BY LockInvStep
<1>3. TypeOK /\ SignInv /\ LockInv => PrecommitKeepsLock
  <2>1. ASSUME TypeOK, SignInv, LockInv, NEW v \in sentVotes, v.type = "precommit"
        PROVE  locked[v.from] # Unset /\ locked[v.from].round >= v.round
    <3>1. v \in Vote /\ v.from \in Nodes /\ v.round \in Rounds
      BY <2>1, VoteFields DEF TypeOK
    <3>2. v \in votes[v.from]
      BY <2>1, <3>1 DEF SignInv
    <3>3. locked[v.from] # Unset /\ v.round <= locked[v.from].round
      BY <2>1, <3>1, <3>2 DEF LockInv, LockOK
    <3>4. locked[v.from].round \in Rounds
      BY <2>1, <3>1, <3>3 DEF TypeOK, Mark
    <3>5. QED
      BY <3>1, <3>3, <3>4 DEF Rounds
  <2>2. QED
    BY <2>1 DEF PrecommitKeepsLock
<1>4. QED
  BY <1>1, <1>2, <1>3, TypeCorrect, SerialInvariant, SignInvariant, PTL DEF Spec

----------------------------------------------------------------------------
(* The coordinator implements the promise of module Finality: blocks are   *)
(* only ever proposed, and one that was proposed is finalized, by every    *)
(* node that finalizes any.                                                *)

Proposed == {m.block : m \in proposals}

VoteIn(v) == v.type # "round_timeout" => v.block \in Proposed

TaskIn(t) ==
  /\ t.pc \in {"tip", "proposal_commit", "final_commit"} => t.block \in Proposed
  /\ t.pc = "vote_lock" => VoteIn(t.vote)

\* Every block a node has to do with was proposed.
ProposedInv ==
  /\ \A n \in Nodes : \A v \in votes[n] : VoteIn(v)
  /\ \A n \in Nodes, l \in Lanes : TaskIn(task[n][l])
  /\ \A c \in certificates : c.block \in Proposed
  /\ \A n \in Nodes : finalized[n] # Unset => finalized[n].block \in Proposed

\* What a step may change in what the invariant is about.
BlocksKept(n) ==
  /\ Proposed \subseteq Proposed'
  /\ \A m \in Nodes : \A v \in votes'[m] : v \in votes[m] \/ VoteIn(v)
  /\ \A c \in certificates' : c \in certificates \/ c.block \in Proposed
  /\ \A m \in Nodes : \/ finalized'[m] = finalized[m]
                      \/ finalized'[m].block \in Proposed

LEMMA BlocksStay ==
  ASSUME TypeOK, ProposedInv, NEW n \in Nodes, NEW l \in Lanes, NEW t,
         BlocksKept(n), Goto(n, l, t), TaskIn(t)
  PROVE  ProposedInv'
<1>1. ASSUME NEW q \in Nodes, NEW k \in Lanes, NEW u, u = task'[q][k]
      PROVE  TaskIn(u)'
  <2>1. u = t \/ u = task[q][k]
    BY <1>1 DEF Goto, TypeOK
  <2>2. TaskIn(u)
    BY <2>1 DEF ProposedInv
  <2>3. QED
    BY <2>2 DEF TaskIn, VoteIn, BlocksKept
<1>2. \A q \in Nodes, k \in Lanes : TaskIn(task[q][k])'
  BY <1>1 DEF TaskIn, VoteIn, Proposed
<1>3. \A m \in Nodes : \A v \in votes'[m] : VoteIn(v)'
  BY DEF BlocksKept, ProposedInv, VoteIn
<1>4. QED
  BY <1>2, <1>3 DEF BlocksKept, ProposedInv

LEMMA RecordBlocks ==
  ASSUME TypeOK, ProposedInv, NEW n \in Nodes, NEW l \in Lanes, NEW v \in Vote, NEW S,
         BeginVote(n, l, v, S) \/ RecordVote(n, l, v, S), VoteIn(v),
         UNCHANGED <<proposals, certificates, finalized>>
  PROVE  ProposedInv'
<1>1. Proposed' = Proposed
  BY DEF Proposed
<1>2. BlocksKept(n)
  <2>1. votes' = votes \/ votes' = [votes EXCEPT ![n] = @ \cup {v}]
    BY DEF BeginVote, RecordVote
  <2>2. \A m \in Nodes : \A u \in votes'[m] : u \in votes[m] \/ VoteIn(u)
    BY <2>1 DEF TypeOK
  <2>3. QED
    BY <1>1, <2>2 DEF BlocksKept
<1>3. ASSUME NEW t, Goto(n, l, t),
             t \in {Idle, [pc |-> "vote_commit", vote |-> v, sends |-> S],
                    [pc |-> "vote_lock", vote |-> v, sends |-> S]}
      PROVE  ProposedInv'
  <2>1. TaskIn(t)
    BY <1>3 DEF TaskIn, Idle
  <2>2. QED
    BY <1>2, <1>3, <2>1, BlocksStay
<1>4. QED
  BY <1>3 DEF BeginVote, RecordVote, Return

\* The steps of a handler that neither take in a vote nor finalize.
LEMMA GotoBlocks ==
  ASSUME TypeOK, ProposedInv, NEW n \in Nodes, NEW l \in Lanes, NEW t,
         Goto(n, l, t), TaskIn(t),
         UNCHANGED <<proposals, votes, certificates, finalized>>
  PROVE  ProposedInv'
<1>1. Proposed' = Proposed
  BY DEF Proposed
<1>2. BlocksKept(n)
  BY <1>1 DEF BlocksKept
<1>3. QED
  BY <1>2, BlocksStay

LEMMA IdleIn == TaskIn(Idle)
  BY DEF TaskIn, Idle

LEMMA FinalizeBlocks ==
  ASSUME TypeOK, ProposedInv, NEW n \in Nodes, NEW l \in Lanes, NEW r, NEW b,
         NEW own \in BOOLEAN, NEW S,
         BeginFinalize(n, l, r, b, own, S), b \in Proposed,
         UNCHANGED <<proposals, votes, finalized>>
  PROVE  ProposedInv'
<1>1. Proposed' = Proposed
  BY DEF Proposed
<1>2. \A c \in certificates' : c \in certificates \/ c.block \in Proposed
  BY DEF BeginFinalize
<1>3. BlocksKept(n)
  BY <1>1, <1>2 DEF BlocksKept
<1>4. ASSUME NEW t, Goto(n, l, t),
             t \in {Idle, [pc |-> "final_commit", round |-> r, block |-> b,
                           own |-> own, sends |-> S]}
      PROVE  ProposedInv'
  <2>1. TaskIn(t)
    BY <1>4, IdleIn DEF TaskIn
  <2>2. QED
    BY <1>3, <1>4, <2>1, BlocksStay
<1>5. QED
  BY <1>4 DEF BeginFinalize, Return

\* A handler that ends, announcing a certificate of a proposed block or none.
LEMMA ReturnBlocks ==
  ASSUME TypeOK, ProposedInv, NEW n \in Nodes, NEW l \in Lanes, NEW S, Return(n, l, S),
         UNCHANGED <<proposals, votes, certificates, finalized>>
  PROVE  ProposedInv'
  BY IdleIn, GotoBlocks DEF Return

LEMMA ResumeBlocks ==
  ASSUME TypeOK, SignInv, ProposedInv, NEW n \in Nodes, NEW l \in Lanes, Resume(n, l)
  PROVE  ProposedInv'
<1> USE DEF network, memory, disk
<1> DEFINE t == task[n][l]
<1>1. t \in Task /\ TaskIn(t) /\ TaskSigns(n, t)
  BY DEF TypeOK, SignInv, ProposedInv
<1>2. CASE ReadTip(n, l)
  <2>1. ASSUME NEW u, Goto(n, l, u),
               u \in {Idle, [pc |-> "proposal_commit", round |-> t.round, block |-> t.block]}
        PROVE  ProposedInv'
    <3>1. TaskIn(u)
      BY <1>1, <1>2, <2>1, IdleIn DEF TaskIn, ReadTip
    <3>2. QED
      BY <1>2, <2>1, <3>1, GotoBlocks DEF ReadTip
  <2>2. QED
    BY <1>2, <2>1 DEF ReadTip
<1>3. CASE CommitProposal(n, l)
  <2>1. t.round \in Rounds /\ t.block \in Blocks /\ t.block \in Proposed
    BY <1>1, <1>3, TaskFields DEF CommitProposal, TaskIn
  <2>2. PICK v \in Vote : v = CreateVote(n, "prevote", t.round, t.block)
    BY <2>1, CreateVoteType
  <2>3. VoteIn(v)
    BY <2>1, <2>2 DEF VoteIn, CreateVote
  <2>4. CASE Return(n, l, {}) /\ UNCHANGED votes
    BY <1>3, <2>4, ReturnBlocks DEF CommitProposal
  <2>5. CASE BeginVote(n, l, v, {})
    BY <1>3, <2>3, <2>5, RecordBlocks DEF CommitProposal
  <2>6. QED
    BY <1>3, <2>2, <2>4, <2>5 DEF CommitProposal
<1>4. CASE AcquireVoteLock(n, l)
  <2>1. PICK v \in Vote : v = t.vote
    BY <1>1, <1>4, TaskFields DEF AcquireVoteLock
  <2>2. VoteIn(v) /\ RecordVote(n, l, v, t.sends)
    BY <1>1, <1>4, <2>1 DEF AcquireVoteLock, TaskIn
  <2>3. QED
    BY <1>4, <2>2, RecordBlocks DEF AcquireVoteLock
<1>5. CASE CommitPrevote(n, l)
  <2>1. ASSUME NEW u, Goto(n, l, u), u.pc \in {"idle", "lock_commit"}
        PROVE  ProposedInv'
    <3>1. TaskIn(u)
      BY <2>1 DEF TaskIn
    <3>2. QED
      BY <1>5, <2>1, <3>1, GotoBlocks DEF CommitPrevote
  <2>2. QED
    BY <1>5, <2>1 DEF CommitPrevote, Return, Idle
<1>6. CASE CommitLock(n, l)
  <2>1. /\ t.pc = "lock_commit" /\ t.vote \in votes[n] /\ t.vote.type = "prevote"
        /\ t.vote.round \in Rounds /\ t.vote.block \in Blocks
    BY <1>1, <1>6, TaskFields, VoteFields DEF CommitLock, TaskSigns
  <2>2. PICK v \in Vote : v = CreateVote(n, "precommit", t.vote.round, t.vote.block)
    BY <2>1, CreateVoteType
  <2>3. VoteIn(v)
    BY <2>1, <2>2 DEF VoteIn, CreateVote, ProposedInv
  <2>4. CASE Return(n, l, t.sends) /\ UNCHANGED votes
    BY <1>6, <2>4, ReturnBlocks DEF CommitLock
  <2>5. CASE BeginVote(n, l, v, t.sends)
    BY <1>6, <2>3, <2>5, RecordBlocks DEF CommitLock
  <2>6. QED
    BY <1>6, <2>2, <2>4, <2>5 DEF CommitLock
<1>7. CASE CommitTimeout(n, l)
  <2>1. ASSUME NEW u, Goto(n, l, u), u.pc \in {"idle", "advance_commit"}
        PROVE  ProposedInv'
    <3>1. TaskIn(u)
      BY <2>1 DEF TaskIn
    <3>2. QED
      BY <1>7, <2>1, <3>1, GotoBlocks DEF CommitTimeout
  <2>2. QED
    BY <1>7, <2>1 DEF CommitTimeout, Return, Idle
<1>8. CASE CommitAdvance(n, l)
  BY <1>8, ReturnBlocks DEF CommitAdvance
<1>9. CASE CommitPrecommit(n, l)
  <2>1. t.vote \in votes[n] /\ t.vote.type = "precommit"
    BY <1>1, <1>9 DEF CommitPrecommit, TaskSigns
  <2>2. t.vote.block \in Proposed
    BY <2>1 DEF ProposedInv, VoteIn
  <2>3. CASE Return(n, l, Sends(n, t)) /\ UNCHANGED certificates
    BY <1>9, <2>3, ReturnBlocks DEF CommitPrecommit
  <2>4. ASSUME NEW own \in BOOLEAN,
               BeginFinalize(n, l, t.vote.round, t.vote.block, own, Sends(n, t))
        PROVE  ProposedInv'
    BY <1>9, <2>2, <2>4, FinalizeBlocks DEF CommitPrecommit
  <2>5. QED
    BY <1>9, <2>3, <2>4 DEF CommitPrecommit
<1>10. CASE CommitFinal(n, l)
  <2> DEFINE mark == [round |-> t.round, block |-> t.block]
  <2>1. t.block \in Proposed
    BY <1>1, <1>10 DEF CommitFinal, TaskIn
  <2>2. Proposed' = Proposed /\ UNCHANGED votes /\ Goto(n, l, Idle)
    BY <1>10 DEF CommitFinal, Proposed, Return
  <2>3. /\ \A c \in certificates' : c \in certificates \/ c.block \in Proposed
        /\ \A m \in Nodes : \/ finalized'[m] = finalized[m]
                            \/ finalized'[m].block \in Proposed
    BY <1>10, <2>1 DEF CommitFinal, TypeOK
  <2>4. BlocksKept(n)
    BY <2>2, <2>3 DEF BlocksKept
  <2>5. QED
    BY <2>2, <2>4, IdleIn, BlocksStay
<1>11. QED
  BY <1>2, <1>3, <1>4, <1>5, <1>6, <1>7, <1>8, <1>9, <1>10 DEF Resume

LEMMA ProposedStep ==
  ASSUME TypeOK, SignInv, ProposedInv, [Next]_vars
  PROVE  ProposedInv'
<1> USE DEF network, memory, disk
<1>1. CASE /\ Proposed \subseteq Proposed'
           /\ UNCHANGED <<votes, task, certificates, finalized>>
  BY <1>1 DEF ProposedInv, TaskIn, VoteIn
<1>2. ASSUME NEW n \in Nodes, NEW r \in Rounds, NEW b \in Blocks,
             NEW vr \in Rounds \cup {-1}, Propose(n, r, b, vr)
      PROVE  ProposedInv'
  BY <1>1, <1>2 DEF Propose, Proposed
<1>3. ASSUME NEW n \in Nodes, NEW l \in Lanes, NEW r \in Rounds, OnRoundTimeout(n, l, r)
      PROVE  ProposedInv'
  <2>1. PICK v \in Vote : v = TimeoutVote(n, r)
    BY <1>3, CreateVoteType DEF OnRoundTimeout
  <2>2. VoteIn(v) /\ BeginVote(n, l, v, {})
    BY <1>3, <2>1 DEF OnRoundTimeout, VoteIn, TimeoutVote, CreateVote
  <2>3. QED
    BY <1>3, <2>2, RecordBlocks DEF OnRoundTimeout
<1>4. ASSUME NEW n \in Nodes, NEW l \in Lanes, NEW m \in proposals, ReceiveProposal(n, l, m)
      PROVE  ProposedInv'
  <2>1. PICK t : t = [pc |-> "tip", round |-> m.round, block |-> m.block,
                      validRound |-> m.validRound]
    OBVIOUS
  <2>2. TaskIn(t)
    BY <2>1 DEF TaskIn, Proposed
  <2>3. QED
    BY <1>4, <2>1, <2>2, GotoBlocks DEF ReceiveProposal
<1>5. ASSUME NEW n \in Nodes, NEW l \in Lanes, NEW v \in sentVotes, ReceiveVote(n, l, v)
      PROVE  ProposedInv'
  <2>1. v \in Vote /\ v.from \in Nodes
    BY VoteFields DEF TypeOK
  <2>2. v \in votes[v.from]
    BY <2>1 DEF SignInv
  <2>3. VoteIn(v)
    BY <2>1, <2>2 DEF ProposedInv
  <2>4. QED
    BY <1>5, <2>1, <2>3, RecordBlocks DEF ReceiveVote
<1>6. ASSUME NEW n \in Nodes, NEW l \in Lanes, NEW c \in certificates,
             ReceiveCertificate(n, l, c)
      PROVE  ProposedInv'
  <2>1. PICK own \in BOOLEAN : BeginFinalize(n, l, c.round, c.block, own, {})
    BY <1>6 DEF ReceiveCertificate
  <2>2. c.block \in Proposed
    BY DEF ProposedInv
  <2>3. QED
    BY <1>6, <2>1, <2>2, FinalizeBlocks DEF ReceiveCertificate
<1>7. ASSUME NEW n \in Nodes, NEW l \in Lanes, CommitRaises(n, l) \/ CommitCaught(n, l)
      PROVE  ProposedInv'
  <2>1. Goto(n, l, Idle) /\ UNCHANGED <<proposals, votes, certificates, finalized>>
    BY <1>7 DEF CommitRaises, CommitCaught, Return
  <2>2. QED
    BY <2>1, IdleIn, GotoBlocks
<1>8. ASSUME NEW n \in Nodes, Restart(n)
      PROVE  ProposedInv'
  <2>1. /\ votes' = [votes EXCEPT ![n] = savedVotes[n]]
        /\ task' = [task EXCEPT ![n] = [l \in Lanes |-> Idle]]
        /\ UNCHANGED <<proposals, certificates, finalized>>
    BY <1>8 DEF Restart, RestoredVotes
  <2>2. Proposed' = Proposed /\ \A m \in Nodes : votes'[m] \subseteq votes[m]
    BY <2>1 DEF Proposed, SignInv, TypeOK
  <2>3. ASSUME NEW m \in Nodes, NEW k \in Lanes, NEW u, u = task'[m][k]
        PROVE  TaskIn(u)'
    <3>1. u = Idle \/ u = task[m][k]
      BY <2>1, <2>3 DEF TypeOK
    <3>2. TaskIn(u)
      BY <3>1, IdleIn DEF ProposedInv
    <3>3. QED
      BY <2>2, <3>2 DEF TaskIn, VoteIn
  <2>4. \A m \in Nodes, k \in Lanes : TaskIn(task[m][k])'
    BY <2>3 DEF TaskIn, VoteIn, Proposed
  <2>5. \A m \in Nodes : \A v \in votes'[m] : VoteIn(v)'
    BY <2>2 DEF ProposedInv, VoteIn
  <2>6. QED
    BY <2>1, <2>2, <2>4, <2>5 DEF ProposedInv
<1>9. CASE UNCHANGED vars
  BY <1>1, <1>9 DEF vars, Proposed
<1>10. QED
  BY <1>2, <1>3, <1>4, <1>5, <1>6, <1>7, <1>8, <1>9, ResumeBlocks
     DEF Next, Driver, Deliver

\* However handlers interleave, what is finalized, certified, voted for or
\* under way was proposed by somebody.
THEOREM FinalizedWasProposed == Spec => []ProposedInv
<1>1. Init => ProposedInv
  BY DEF Init, ProposedInv, TaskIn, Idle
<1>2. TypeOK /\ SignInv /\ ProposedInv /\ [Next]_vars => ProposedInv'
  BY ProposedStep
<1>3. QED
  BY <1>1, <1>2, TypeCorrect, SignInvariant, PTL DEF Spec
--------------------------------------------------------------------------------
(***************************************************************************)
(* The refinement.                                                         *)
(***************************************************************************)
\* One action proposes and one finalizes.
LEMMA WhoDecides ==
  ASSUME Next
  PROVE  \/ UNCHANGED <<proposals, finalized>>
         \/ UNCHANGED finalized /\ \E b \in Blocks : \E r, vr :
              proposals' = proposals \cup {[round |-> r, block |-> b, validRound |-> vr]}
         \/ UNCHANGED proposals /\ \E n \in Nodes, l \in Lanes : CommitFinal(n, l)
<1> USE DEF network, memory, disk
<1>1. ASSUME NEW n \in Nodes, Driver(n)
      PROVE  \/ UNCHANGED <<proposals, finalized>>
             \/ UNCHANGED finalized /\ \E b \in Blocks : \E r, vr :
                  proposals' = proposals \cup {[round |-> r, block |-> b, validRound |-> vr]}
  BY <1>1 DEF Driver, Propose, OnRoundTimeout
<1>2. ASSUME NEW n \in Nodes, NEW l \in Lanes, Deliver(n, l)
      PROVE  UNCHANGED <<proposals, finalized>>
  BY <1>2 DEF Deliver, ReceiveProposal, ReceiveVote, ReceiveCertificate
<1>3. ASSUME NEW n \in Nodes, NEW l \in Lanes, Resume(n, l)
      PROVE  UNCHANGED proposals /\ (UNCHANGED finalized \/ CommitFinal(n, l))
  BY <1>3 DEF Resume, ReadTip, CommitProposal, AcquireVoteLock, CommitPrevote, CommitLock,
              CommitTimeout, CommitAdvance, CommitPrecommit, CommitFinal
<1>4. ASSUME NEW n \in Nodes, Restart(n)
      PROVE  UNCHANGED <<proposals, finalized>>
  BY <1>4 DEF Restart
<1>5. ASSUME NEW n \in Nodes, NEW l \in Lanes, CommitRaises(n, l) \/ CommitCaught(n, l)
      PROVE  UNCHANGED <<proposals, finalized>>
  BY <1>5 DEF CommitRaises, CommitCaught
<1>6. QED
  BY <1>1, <1>2, <1>3, <1>4, <1>5 DEF Next

\* A commit of finalize that adds the block finalizes what was proposed, and
\* what everybody else has finalized.
LEMMA CommitFinalizes ==
  ASSUME TypeOK, TypeOK', ProposedInv, Agreement', NEW n \in Nodes, NEW l \in Lanes,
         CommitFinal(n, l), finalized' # finalized
  PROVE  \E b \in Blocks : Promise!Finalize(n, b)
<1> USE DEF network, memory, disk
<1> DEFINE t == task[n][l]
<1>1. /\ t \in Task /\ t.pc = "final_commit" /\ t.block \in Blocks
      /\ t.block \in Proposed
  BY TaskFields DEF CommitFinal, TypeOK, ProposedInv, TaskIn
<1> PICK b \in Blocks : b = t.block
  BY <1>1
<1>2. /\ finalized[n] = Unset
      /\ finalized' = [finalized EXCEPT ![n] = [round |-> t.round, block |-> b]]
  BY DEF CommitFinal
<1>3. finalized'[n].block = b /\ finalized'[n] # Unset
  <2>1. t.round \in Rounds
    BY <1>1, TaskFields
  <2>2. QED
    BY <1>2, <2>1 DEF TypeOK, Unset, Rounds
<1>4. ASSUME NEW m \in Nodes
      PROVE  finalized[m].block \in {Nil, b}
  <2>1. CASE finalized[m] = Unset
    BY <2>1 DEF Unset
  <2>2. CASE finalized[m] # Unset
    <3>1. finalized'[m] = finalized[m] /\ finalized'[m] # Unset
      BY <1>2, <2>2 DEF TypeOK
    <3>2. QED
      BY <1>3, <3>1 DEF Agreement
  <2>3. QED
    BY <2>1, <2>2
<1>5. [q \in Nodes |-> finalized[q].block]'
      = [[q \in Nodes |-> finalized[q].block] EXCEPT ![n] = b]
  BY <1>2 DEF TypeOK
<1>6. finalized[n].block = Nil
  BY <1>2 DEF Unset
<1>7. UNCHANGED {m.block : m \in proposals}
  BY DEF CommitFinal
<1>8. Promise!Finalize(n, b)
  BY <1>1, <1>4, <1>5, <1>6, <1>7 DEF Promise!Finalize, Proposed
<1>9. QED
  BY <1>8

LEMMA RefinementStep ==
  ASSUME TypeOK, TypeOK', ProposedInv, Agreement', [Next]_vars
  PROVE  [Promise!Next]_<<{m.block : m \in proposals},
                          [n \in Nodes |-> finalized[n].block]>>
<1> DEFINE blocks == {m.block : m \in proposals}
           decided == [n \in Nodes |-> finalized[n].block]
<1>1. CASE UNCHANGED <<proposals, finalized>>
  BY <1>1
<1>2. ASSUME UNCHANGED finalized, NEW b \in Blocks, NEW r, NEW vr,
             proposals' = proposals \cup {[round |-> r, block |-> b, validRound |-> vr]}
      PROVE  Promise!Next
  <2>1. PICK m : m = [round |-> r, block |-> b, validRound |-> vr]
    OBVIOUS
  <2>2. proposals' = proposals \cup {m} /\ m.block = b
    BY <1>2, <2>1
  <2>3. blocks' = blocks \cup {b}
    BY <2>2
  <2>4. decided' = decided
    BY <1>2
  <2>5. QED
    BY <2>3, <2>4 DEF Promise!Next, Promise!Propose
<1>3. ASSUME NEW n \in Nodes, NEW l \in Lanes, CommitFinal(n, l), finalized' # finalized
      PROVE  Promise!Next
  BY <1>3, CommitFinalizes DEF Promise!Next
<1>4. CASE UNCHANGED vars
  BY <1>1, <1>4 DEF vars, network, disk
<1>5. CASE Next
  BY <1>1, <1>2, <1>3, <1>5, WhoDecides
<1>6. QED
  BY <1>4, <1>5

\* When every node handles one message at a time, the coordinator implements
\* the promise of module Finality, whatever the network loses, repeats or
\* delays, the crashes and the commits that fail.
THEOREM SerialImplementsFinality ==
  ASSUME SerialLanes
  PROVE  Spec => ImplementsFinality
<1>1. Init => Promise!Init
  BY DEF Init, Promise!Init, Unset
<1>2. /\ TypeOK /\ TypeOK' /\ ProposedInv /\ Agreement' /\ [Next]_vars
      => [Promise!Next]_<<{m.block : m \in proposals},
                          [n \in Nodes |-> finalized[n].block]>>
  BY RefinementStep
<1>3. QED
  BY <1>1, <1>2, TypeCorrect, FinalizedWasProposed, SerialAgreement, PTL
     DEF Spec, ImplementsFinality, Promise!Spec
================================================================================
