------------------------------ MODULE Coordinator ------------------------------
(***************************************************************************)
(* The BFT coordinator of vit_chain/consensus/coordinator.py deciding ONE  *)
(* block height.  Every dictionary of the class is keyed by height and the *)
(* only thing two heights share is the chain tip, which here is the guard  *)
(* "this node has not finalized the height yet".                           *)
(*                                                                         *)
(* A coroutine of the coordinator keeps the event loop until it suspends,  *)
(* and it suspends where it awaits the database: reading the tip,          *)
(* committing, or waiting for _vote_lock.  One action is the code between  *)
(* two such points, with everything it assigns.  Each node runs its        *)
(* handlers in Lanes: one lane is the daemon's single receive loop, which  *)
(* finishes a message before it takes the next; with several lanes the     *)
(* handlers of several peers and of the round timer interleave.            *)
(*                                                                         *)
(* The network may lose, delay, duplicate and reorder: what was broadcast  *)
(* stays deliverable and nothing has to be delivered.                      *)
(***************************************************************************)
EXTENDS Integers, FiniteSets

CONSTANTS N,              \* number of validators
          Height,         \* the height being decided
          Blocks,         \* valid blocks a proposer may build at this height
          Nil,            \* no block: None, or the empty hash of a timeout vote
          MaxRound,       \* bound: last round of the instance
          Lanes,          \* handler invocations one node may have in flight
          MaxFaults,      \* bound: crashes and failed commits altogether
          Builds,         \* <<r, b>>: the driver may build block b in round r
          TimeoutRounds   \* rounds in which the driver's timer may fire

ASSUME NAssumption == N \in Nat \ {0}
ASSUME HeightAssumption == Height \in Nat
ASSUME NilAssumption == Nil \notin Blocks
ASSUME MaxRoundAssumption == MaxRound \in Nat
ASSUME LanesAssumption == Lanes # {}
ASSUME MaxFaultsAssumption == MaxFaults \in Nat
ASSUME DriverAssumption == /\ Builds \subseteq (0..MaxRound) \X Blocks
                           /\ TimeoutRounds \subseteq 0..(MaxRound - 1)

Nodes  == 1..N         \* the validator ids in sorted order
Rounds == 0..MaxRound

VARIABLES
  proposals,     \* proposal messages broadcast
  sentVotes,     \* vote messages broadcast
  certificates,  \* finality certificates broadcast
  votes,         \* votes[n]: the vote buckets in memory
  pending,       \* pending[n][r]: pending_blocks
  locked,        \* locked[n]: locked_rounds and locked_block_hashes
  currentRound,  \* currentRound[n]: current_rounds
  finalized,     \* finalized[n]: finalized, in memory and in the chain
  savedVotes,    \* committed "vote" rows
  savedPending,  \* committed "proposal" rows, the last one of each round
  savedLocks,    \* committed "prevote_lock" rows
  savedRound,    \* highest committed "round_advanced" row
  task,          \* task[n][l]: where the handler in lane l is suspended
  faults         \* crashes and failed commits so far

network == <<proposals, sentVotes, certificates>>
memory  == <<votes, pending, locked, currentRound>>
disk    == <<savedVotes, savedPending, savedLocks, savedRound, finalized>>
vars    == <<network, memory, disk, task, faults>>
--------------------------------------------------------------------------------
(***************************************************************************)
(* Votes, quorums and certificates (vit_chain/consensus/protocol.py).      *)
(***************************************************************************)
\* No code path signs a prevote or a precommit for the empty hash.
Vote == [type : {"prevote", "precommit"}, round : Rounds, block : Blocks, from : Nodes]
          \cup [type : {"round_timeout"}, round : TimeoutRounds, block : {Nil}, from : Nodes]

\* Mutant: one vote beyond the faulty, f + 1 and not 2f + 1.
OneCorrectVote == (N - 1) \div 3 + 1

QuorumSize == (2 * N) \div 3 + 1

Proposer(r) == ((Height + r) % N) + 1

CreateVote(n, type, r, b) == [type |-> type, round |-> r, block |-> b, from |-> n]

Voters(S, type, r, b) == {m \in Nodes : CreateVote(m, type, r, b) \in S}

\* Mutant: more than the quorum size is asked for.
HasMoreThanQuorum(S, type, r, b) == Cardinality(Voters(S, type, r, b)) > QuorumSize

HasQuorum(S, type, r, b) == Cardinality(Voters(S, type, r, b)) >= QuorumSize

\* certificate_for: a precommit certificate embeds the matching prevote one.
HasCertificate(S, type, r, b) ==
  /\ HasQuorum(S, type, r, b)
  /\ type = "precommit" => HasQuorum(S, "prevote", r, b)

\* The bucket (height, round, type) holds a vote of m, for whatever block.
Voted(S, m, type, r) == \E b \in Blocks \cup {Nil} : CreateVote(m, type, r, b) \in S

\* A lock, or a finality record: a block and the round it was reached in.
Mark  == [round : Rounds, block : Blocks]
Unset == [round |-> -1, block |-> Nil]

Larger(i, j) == IF i > j THEN i ELSE j

\* The rule that protects a lock, in receive_proposal, receive_vote and
\* finalize: another block needs a later round than the lock's.
LockForbids(lock, r, b) == lock # Unset /\ lock.block # b /\ r <= lock.round
--------------------------------------------------------------------------------
(***************************************************************************)
(* Handlers in flight.  sends are the node's own votes accepted so far by  *)
(* the handler: _cast_vote broadcasts a vote only after the receive_vote   *)
(* it nests has returned, so they leave together when the handler returns  *)
(* and not at all when it raises.                                          *)
(***************************************************************************)
Idle == [pc |-> "idle"]

Task ==
  {Idle}
    \cup [pc : {"tip"}, round : Rounds, block : Blocks, validRound : Rounds \cup {-1}]
    \cup [pc : {"proposal_commit"}, round : Rounds, block : Blocks]
    \cup [pc : {"vote_lock", "vote_commit"}, vote : Vote, sends : SUBSET Vote]
    \cup [pc : {"lock_commit"}, vote : {v \in Vote : v.type = "prevote"}, sends : SUBSET Vote]
    \cup [pc : {"advance_commit"}, round : Rounds, sends : SUBSET Vote]
    \cup [pc : {"final_commit"}, round : Rounds, block : Blocks,
          own : BOOLEAN, sends : SUBSET Vote]

Goto(n, l, t) == task' = [task EXCEPT ![n][l] = t]

\* The handler ends normally and its broadcasts go out.
Return(n, l, sends) ==
  /\ Goto(n, l, Idle)
  /\ sentVotes' = sentVotes \cup sends

\* asyncio.Lock: free when no lane holds it and no lane queues for it.
VoteLockFree(n, l) ==
  \A k \in Lanes \ {l} : task[n][k].pc \notin {"vote_commit", "vote_lock"}

\* Mutant: _cast_vote's check is not repeated under _vote_lock.
RecordVoteUnchecked(n, l, v, sends) ==
  /\ votes' = [votes EXCEPT ![n] = @ \cup {v}]
  /\ Goto(n, l, [pc |-> "vote_commit", vote |-> v, sends |-> sends])
  /\ UNCHANGED sentVotes

\* Mutant: an own vote is broadcast before it is durable.
RecordVoteEager(n, l, v, sends) ==
  \/ /\ Voted(votes[n], v.from, v.type, v.round)
     /\ Return(n, l, sends)
     /\ UNCHANGED votes
  \/ /\ ~Voted(votes[n], v.from, v.type, v.round)
     /\ votes' = [votes EXCEPT ![n] = @ \cup {v}]
     /\ Goto(n, l, [pc |-> "vote_commit", vote |-> v, sends |-> sends])
     /\ sentVotes' = sentVotes \cup {u \in {v} : u.from = n}

\* The bucket update under _vote_lock: an existing vote of the validator wins.
RecordVote(n, l, v, sends) ==
  \/ /\ Voted(votes[n], v.from, v.type, v.round)
     /\ Return(n, l, sends)
     /\ UNCHANGED votes
  \/ /\ ~Voted(votes[n], v.from, v.type, v.round)
     /\ votes' = [votes EXCEPT ![n] = @ \cup {v}]
     /\ Goto(n, l, [pc |-> "vote_commit", vote |-> v, sends |-> sends])
     /\ UNCHANGED sentVotes

\* receive_vote, up to its first suspension.
BeginVote(n, l, v, sends) ==
  \/ /\ VoteLockFree(n, l)
     /\ RecordVote(n, l, v, sends)
  \/ /\ ~VoteLockFree(n, l)
     /\ Goto(n, l, [pc |-> "vote_lock", vote |-> v, sends |-> sends])
     /\ UNCHANGED <<votes, sentVotes>>

\* finalize, up to add_block: the lock moves before anything is written.
BeginFinalize(n, l, r, b, own, sends) ==
  \/ /\ LockForbids(locked[n], r, b)
     /\ Return(n, l, sends)
     /\ UNCHANGED <<locked, certificates>>
  \/ /\ ~LockForbids(locked[n], r, b)
     /\ finalized[n] # Unset
     /\ locked' = [locked EXCEPT ![n] = [round |-> r, block |-> b]]
     /\ certificates' = IF own /\ finalized[n].block = b
                        THEN certificates \cup {[round |-> r, block |-> b]}
                        ELSE certificates
     /\ Return(n, l, sends)
  \/ /\ ~LockForbids(locked[n], r, b)
     /\ finalized[n] = Unset
     /\ locked' = [locked EXCEPT ![n] = [round |-> r, block |-> b]]
     /\ Goto(n, l, [pc |-> "final_commit", round |-> r, block |-> b,
                    own |-> own, sends |-> sends])
     /\ UNCHANGED <<sentVotes, certificates>>
--------------------------------------------------------------------------------
(***************************************************************************)
(* The driver, which lives outside the class: it builds a block in the     *)
(* proposer's turn and broadcasts proposal_message, again if it likes; a   *)
(* valid_round needs a prevote certificate the proposer holds.             *)
(***************************************************************************)
Propose(n, r, b, vr) ==
  /\ <<r, b>> \in Builds
  /\ n = Proposer(r)
  /\ currentRound[n] = r
  /\ finalized[n] = Unset
  /\ vr # -1 => vr < r /\ HasCertificate(votes[n], "prevote", vr, b)
  /\ proposals' = proposals \cup {[round |-> r, block |-> b, validRound |-> vr]}
  /\ UNCHANGED <<sentVotes, certificates, memory, disk, task, faults>>

\* Mutant: the node's own timeout vote is not looked at.
ReceiveProposalAfterTimeout(n, l, m) ==
  /\ task[n][l] = Idle
  /\ m.round = currentRound[n]
  /\ Goto(n, l, [pc |-> "tip", round |-> m.round, block |-> m.block,
                 validRound |-> m.validRound])
  /\ UNCHANGED <<network, memory, disk, faults>>

\* receive_proposal, up to the read of the chain tip.
ReceiveProposal(n, l, m) ==
  /\ task[n][l] = Idle
  /\ m.round = currentRound[n]
  /\ ~Voted(votes[n], n, "round_timeout", m.round)
  /\ Goto(n, l, [pc |-> "tip", round |-> m.round, block |-> m.block,
                 validRound |-> m.validRound])
  /\ UNCHANGED <<network, memory, disk, faults>>

\* validate_block against the tip and the lock rule; the round and the node's
\* timeout vote are not looked at again.
ReadTip(n, l) ==
  LET t == task[n][l]
      valid == /\ finalized[n] = Unset
               /\ ~LockForbids(locked[n], t.validRound, t.block)
  IN  /\ t.pc = "tip"
      /\ \/ /\ ~valid
            /\ Goto(n, l, Idle)
            /\ UNCHANGED pending
         \/ /\ valid
            /\ pending' = [pending EXCEPT ![n][t.round] = t.block]
            /\ Goto(n, l, [pc |-> "proposal_commit", round |-> t.round, block |-> t.block])
      /\ UNCHANGED <<network, votes, locked, currentRound, disk, faults>>

\* The proposal is durable; _cast_vote prevotes once per round.
CommitProposal(n, l) ==
  LET t == task[n][l]
  IN  /\ t.pc = "proposal_commit"
      /\ savedPending' = [savedPending EXCEPT ![n][t.round] = t.block]
      /\ \/ /\ Voted(votes[n], n, "prevote", t.round)
            /\ Return(n, l, {})
            /\ UNCHANGED votes
         \/ /\ ~Voted(votes[n], n, "prevote", t.round)
            /\ BeginVote(n, l, CreateVote(n, "prevote", t.round, t.block), {})
      /\ UNCHANGED <<proposals, certificates, pending, locked, currentRound,
                     savedVotes, savedLocks, savedRound, finalized, faults>>

\* Mutant: what the docstring of on_round_timeout says, a nil prevote.
NilPrevote(n, r) == CreateVote(n, "prevote", r, Nil)

TimeoutVote(n, r) == CreateVote(n, "round_timeout", r, Nil)

\* on_round_timeout: the node gives the round up unless it has voted in it.
OnRoundTimeout(n, l, r) ==
  /\ task[n][l] = Idle
  /\ r \in TimeoutRounds
  /\ r = currentRound[n]
  /\ ~Voted(votes[n], n, "prevote", r)
  /\ ~Voted(votes[n], n, "precommit", r)
  /\ ~Voted(votes[n], n, "round_timeout", r)
  /\ BeginVote(n, l, TimeoutVote(n, r), {})
  /\ UNCHANGED <<proposals, certificates, pending, locked, currentRound, disk, faults>>

\* receive_vote of a vote from the network.
ReceiveVote(n, l, v) ==
  /\ task[n][l] = Idle
  /\ ~Voted(votes[n], v.from, v.type, v.round)
  /\ BeginVote(n, l, v, {})
  /\ UNCHANGED <<proposals, certificates, pending, locked, currentRound, disk, faults>>

\* A lane that queued for _vote_lock gets it.
AcquireVoteLock(n, l) ==
  /\ task[n][l].pc = "vote_lock"
  /\ \A k \in Lanes : task[n][k].pc # "vote_commit"
  /\ RecordVote(n, l, task[n][l].vote, task[n][l].sends)
  /\ UNCHANGED <<proposals, certificates, pending, locked, currentRound, disk, faults>>
--------------------------------------------------------------------------------
(***************************************************************************)
(* The rest of receive_vote, after the vote is durable: one action for     *)
(* each type of vote.  sends gains the vote when it is the node's own.     *)
(***************************************************************************)
Sends(n, t) == t.sends \cup {v \in {t.vote} : v.from = n}

\* A prevote quorum for the block this node holds locks it.
CommitPrevote(n, l) ==
  LET t == task[n][l]
      v == t.vote
      locks == /\ HasCertificate(votes[n], "prevote", v.round, v.block)
               /\ pending[n][v.round] = v.block
               /\ ~LockForbids(locked[n], v.round, v.block)
  IN  /\ t.pc = "vote_commit"
      /\ v.type = "prevote"
      /\ savedVotes' = [savedVotes EXCEPT ![n] = @ \cup {v}]
      /\ \/ /\ ~locks
            /\ Return(n, l, Sends(n, t))
            /\ UNCHANGED locked
         \/ /\ locks
            /\ locked' = [locked EXCEPT ![n] = [round |-> v.round, block |-> v.block]]
            /\ Goto(n, l, [pc |-> "lock_commit", vote |-> v, sends |-> Sends(n, t)])
            /\ UNCHANGED sentVotes
      /\ UNCHANGED <<proposals, certificates, votes, pending, currentRound,
                     savedPending, savedLocks, savedRound, finalized, faults>>

\* The lock is durable; _cast_vote precommits once per round.
CommitLock(n, l) ==
  LET t == task[n][l]
      v == t.vote
      silent == \/ Voted(votes[n], n, "precommit", v.round)
                \/ locked[n].block # v.block
  IN  /\ t.pc = "lock_commit"
      /\ savedLocks' = [savedLocks EXCEPT ![n] = @ \cup {[round |-> v.round, block |-> v.block]}]
      /\ \/ /\ silent
            /\ Return(n, l, t.sends)
            /\ UNCHANGED votes
         \/ /\ ~silent
            /\ BeginVote(n, l, CreateVote(n, "precommit", v.round, v.block), t.sends)
      /\ UNCHANGED <<proposals, certificates, pending, locked, currentRound,
                     savedVotes, savedPending, savedRound, finalized, faults>>

\* A timeout quorum starts _advance_round, unless the node is already past it.
CommitTimeout(n, l) ==
  LET t == task[n][l]
      v == t.vote
      advances == /\ HasCertificate(votes[n], "round_timeout", v.round, Nil)
                  /\ v.round + 1 > currentRound[n]
  IN  /\ t.pc = "vote_commit"
      /\ v.type = "round_timeout"
      /\ savedVotes' = [savedVotes EXCEPT ![n] = @ \cup {v}]
      /\ \/ /\ ~advances
            /\ Return(n, l, Sends(n, t))
         \/ /\ advances
            /\ Goto(n, l, [pc |-> "advance_commit", round |-> v.round + 1,
                           sends |-> Sends(n, t)])
            /\ UNCHANGED sentVotes
      /\ UNCHANGED <<proposals, certificates, memory, savedPending, savedLocks,
                     savedRound, finalized, faults>>

\* The end of _advance_round assigns the round without looking at it again.
CommitAdvance(n, l) ==
  LET t == task[n][l]
  IN  /\ t.pc = "advance_commit"
      /\ savedRound' = [savedRound EXCEPT ![n] = Larger(@, t.round)]
      /\ currentRound' = [currentRound EXCEPT ![n] = t.round]
      /\ Return(n, l, t.sends)
      /\ UNCHANGED <<proposals, certificates, votes, pending, locked, savedVotes,
                     savedPending, savedLocks, finalized, faults>>

\* A precommit quorum: only the proposer of the round finalizes on it.
CommitPrecommit(n, l) ==
  LET t == task[n][l]
      v == t.vote
      decides == /\ HasCertificate(votes[n], "precommit", v.round, v.block)
                 /\ pending[n][v.round] = v.block
                 /\ locked[n].block = v.block
                 /\ n = Proposer(v.round)
  IN  /\ t.pc = "vote_commit"
      /\ v.type = "precommit"
      /\ savedVotes' = [savedVotes EXCEPT ![n] = @ \cup {v}]
      /\ \/ /\ ~decides
            /\ Return(n, l, Sends(n, t))
            /\ UNCHANGED <<locked, certificates>>
         \/ /\ decides
            /\ BeginFinalize(n, l, v.round, v.block, TRUE, Sends(n, t))
      /\ UNCHANGED <<proposals, votes, pending, currentRound, savedPending,
                     savedLocks, savedRound, finalized, faults>>

\* receive_certificate: every other node finalizes on the proposer's word.
ReceiveCertificate(n, l, c) ==
  /\ task[n][l] = Idle
  /\ BeginFinalize(n, l, c.round, c.block, FALSE, {})
  /\ UNCHANGED <<proposals, votes, pending, currentRound, disk, faults>>

\* The end of finalize: add_block and the "finalized" row in one transaction.
\* add_block refuses a block when the height is already on the chain.
CommitFinal(n, l) ==
  LET t == task[n][l]
      mark == [round |-> t.round, block |-> t.block]
  IN  /\ t.pc = "final_commit"
      /\ \/ /\ finalized[n] # Unset
            /\ UNCHANGED <<finalized, certificates>>
         \/ /\ finalized[n] = Unset
            /\ finalized' = [finalized EXCEPT ![n] = mark]
            /\ certificates' = IF t.own THEN certificates \cup {mark} ELSE certificates
      /\ Return(n, l, t.sends)
      /\ UNCHANGED <<proposals, memory, savedVotes, savedPending, savedLocks,
                     savedRound, faults>>
--------------------------------------------------------------------------------
(***************************************************************************)
(* Faults.                                                                 *)
(***************************************************************************)
Fault == faults < MaxFaults /\ faults' = faults + 1

\* Mutant: the error is logged and the handler broadcasts its vote anyway.
CommitRaisesUnnoticed(n, l) ==
  /\ Fault
  /\ task[n][l].pc = "vote_commit"
  /\ Return(n, l, Sends(n, task[n][l]))
  /\ UNCHANGED <<proposals, certificates, memory, disk>>

\* A commit of a proposal, a vote or a lock raises: the handler dies with its
\* broadcasts, and what it had put in memory stays there.
CommitRaises(n, l) ==
  /\ Fault
  /\ task[n][l].pc \in {"proposal_commit", "vote_commit", "lock_commit"}
  /\ Goto(n, l, Idle)
  /\ UNCHANGED <<network, memory, disk>>

\* Mutant: the certificate goes out whatever finalize returned.
CommitCaughtAnnounced(n, l) ==
  LET t == task[n][l]
  IN  /\ Fault
      /\ t.pc = "final_commit"
      /\ certificates' = certificates \cup {[round |-> t.round, block |-> t.block]}
      /\ Return(n, l, t.sends)
      /\ UNCHANGED <<proposals, memory, disk>>

\* _advance_round and finalize catch the error, and the handler goes on.
CommitCaught(n, l) ==
  /\ Fault
  /\ task[n][l].pc \in {"advance_commit", "final_commit"}
  /\ Return(n, l, task[n][l].sends)
  /\ UNCHANGED <<proposals, certificates, memory, disk>>

\* Mutant: the node's own rows are not read back.
OthersVotes(n) == {v \in savedVotes[n] : v.from # n}

\* The vote buckets _restore_state rebuilds.
RestoredVotes(n) == savedVotes[n]

SavedMarks(n) == savedLocks[n] \cup ({finalized[n]} \ {Unset})

\* Mutant: only a finality record is read back.
FinalizedLocks(n) == {finalized[n]}

\* The lock it rebuilds: the row of the highest round.
RestoredLocks(n) ==
  IF SavedMarks(n) = {} THEN {Unset}
  ELSE {m \in SavedMarks(n) : \A o \in SavedMarks(n) : o.round <= m.round}

\* The round it rebuilds: past every round whose timeout quorum it reads back.
RestoredRounds(n) ==
  LET seen == {savedRound[n]}
                \cup {r + 1 : r \in {x \in TimeoutRounds :
                       HasCertificate(savedVotes[n], "round_timeout", x, Nil)}}
  IN  {r \in seen : \A s \in seen : s <= r}

\* The process dies and _restore_state rebuilds memory from the rows.
Restart(n) ==
  /\ Fault
  /\ votes' = [votes EXCEPT ![n] = RestoredVotes(n)]
  /\ pending' = [pending EXCEPT ![n] = savedPending[n]]
  /\ \E lock \in RestoredLocks(n) : locked' = [locked EXCEPT ![n] = lock]
  /\ \E r \in RestoredRounds(n) :
       /\ currentRound' = [currentRound EXCEPT ![n] = r]
       /\ savedRound' = [savedRound EXCEPT ![n] = r]
  /\ task' = [task EXCEPT ![n] = [l \in Lanes |-> Idle]]
  /\ UNCHANGED <<network, savedVotes, savedPending, savedLocks, finalized>>
--------------------------------------------------------------------------------
Init ==
  /\ proposals = {}
  /\ sentVotes = {}
  /\ certificates = {}
  /\ votes = [n \in Nodes |-> {}]
  /\ pending = [n \in Nodes |-> [r \in Rounds |-> Nil]]
  /\ locked = [n \in Nodes |-> Unset]
  /\ currentRound = [n \in Nodes |-> 0]
  /\ finalized = [n \in Nodes |-> Unset]
  /\ savedVotes = [n \in Nodes |-> {}]
  /\ savedPending = [n \in Nodes |-> [r \in Rounds |-> Nil]]
  /\ savedLocks = [n \in Nodes |-> {}]
  /\ savedRound = [n \in Nodes |-> 0]
  /\ task = [n \in Nodes |-> [l \in Lanes |-> Idle]]
  /\ faults = 0

Driver(n) ==
  \/ \E r \in Rounds, b \in Blocks, vr \in Rounds \cup {-1} : Propose(n, r, b, vr)
  \/ \E l \in Lanes, r \in Rounds : OnRoundTimeout(n, l, r)

Deliver(n, l) ==
  \/ \E m \in proposals : ReceiveProposal(n, l, m)
  \/ \E v \in sentVotes : ReceiveVote(n, l, v)
  \/ \E c \in certificates : ReceiveCertificate(n, l, c)

Resume(n, l) ==
  \/ ReadTip(n, l)
  \/ CommitProposal(n, l)
  \/ AcquireVoteLock(n, l)
  \/ CommitPrevote(n, l)
  \/ CommitLock(n, l)
  \/ CommitTimeout(n, l)
  \/ CommitAdvance(n, l)
  \/ CommitPrecommit(n, l)
  \/ CommitFinal(n, l)

Next ==
  \E n \in Nodes :
    \/ Driver(n)
    \/ Restart(n)
    \/ \E l \in Lanes : \/ Deliver(n, l)
                        \/ Resume(n, l)
                        \/ CommitRaises(n, l)
                        \/ CommitCaught(n, l)

Spec == Init /\ [][Next]_vars
--------------------------------------------------------------------------------
(***************************************************************************)
(* Properties.                                                             *)
(***************************************************************************)
TypeOK ==
  /\ proposals \subseteq [round : Rounds, block : Blocks, validRound : Rounds \cup {-1}]
  /\ sentVotes \subseteq Vote
  /\ certificates \subseteq Mark
  /\ votes \in [Nodes -> SUBSET Vote]
  /\ pending \in [Nodes -> [Rounds -> Blocks \cup {Nil}]]
  /\ locked \in [Nodes -> Mark \cup {Unset}]
  /\ currentRound \in [Nodes -> Rounds]
  /\ finalized \in [Nodes -> Mark \cup {Unset}]
  /\ savedVotes \in [Nodes -> SUBSET Vote]
  /\ savedPending \in [Nodes -> [Rounds -> Blocks \cup {Nil}]]
  /\ savedLocks \in [Nodes -> SUBSET Mark]
  /\ savedRound \in [Nodes -> Rounds]
  /\ task \in [Nodes -> [Lanes -> Task]]
  /\ faults \in Nat

\* No two nodes finalize different blocks at the height
\* (WAVE4_PRODUCTION_READINESS.md 4.2).
Agreement ==
  \A m, n \in Nodes :
    finalized[m] # Unset /\ finalized[n] # Unset
      => finalized[m].block = finalized[n].block

\* A node never helps a round to decide and to be given up: what it has
\* signed holds its prevote or its timeout vote of a round, not both.
PrevoteOrTimeout ==
  \A n \in Nodes, r \in Rounds :
    ~(Voted(votes[n], n, "prevote", r) /\ Voted(votes[n], n, "round_timeout", r))

\* A round some node has left can no longer decide: no prevote quorum of it
\* exists or forms later, at any node.
NoQuorumLeftBehind ==
  \A m, n \in Nodes, r \in Rounds, b \in Blocks :
    currentRound[m] > r => ~HasQuorum(votes[n], "prevote", r, b)

\* Across crashes and failed commits, a validator never lets two different
\* votes of one type and round out.
OneVotePerSlot ==
  \A u, v \in sentVotes :
    u.from = v.from /\ u.type = v.type /\ u.round = v.round => u = v

\* What leaves a node survives its crash: every vote on the wire is a durable
\* row of its signer, and every precommit has its lock on disk before it.
SentIsSaved ==
  \A v \in sentVotes :
    /\ v \in savedVotes[v.from]
    /\ v.type = "precommit" =>
         [round |-> v.round, block |-> v.block] \in savedLocks[v.from]

\* A lock is not released or weakened by anything, a restart included, once a
\* precommit that relies on it is on the wire.
PrecommitKeepsLock ==
  \A v \in sentVotes :
    v.type = "precommit" => locked[v.from] # Unset /\ locked[v.from].round >= v.round

\* A certificate on the wire is backed by the block its proposer committed.
CertificateIsSaved ==
  \A c \in certificates : finalized[Proposer(c.round)].block = c.block

\* A proposal a node has accepted for a round is never replaced by another
\* (WAVE4_PRODUCTION_READINESS.md 3.2: "Conflicting block proposals for the
\* same height/round are discarded").
ConflictingProposalsDiscarded ==
  [][\A n \in Nodes, r \in Rounds :
       pending[n][r] # Nil => pending'[n][r] = pending[n][r]]_vars

\* Seen from outside, the nodes only ever propose blocks and finalize one of
\* them, once: the promise of module Finality.
Promise == INSTANCE Finality
             WITH proposed <- {m.block : m \in proposals},
                  decided  <- [n \in Nodes |-> finalized[n].block]

ImplementsFinality == Promise!Spec

--------------------------------------------------------------------------------
(***************************************************************************)
(* Why the nodes agree when each of them runs its handlers one at a time.  *)
(*                                                                         *)
(* A round is left behind only when a quorum of validators has given it up *)
(* without a prevote in it, and none of them will prevote in it any more.  *)
(* What is finalized in a round has the prevotes of a quorum, all of them  *)
(* durable but perhaps the proposer's own (its commit may have failed).    *)
(* The two sets of validators intersect, so what is finalized is finalized *)
(* in one round, and there on the word of one proposer.                    *)
(***************************************************************************)
SerialLanes == \A k, l \in Lanes : k = l

\* q has given round r up, for good.
GivenUp(q, r) ==
  /\ ~Voted(votes[q], q, "prevote", r)
  /\ \/ Voted(savedVotes[q], q, "round_timeout", r)
     \/ currentRound[q] > r

Leavers(r) == {q \in Nodes : GivenUp(q, r)}

\* The same when n is about to leave the round.
LeaversWith(n, r) == Leavers(r) \cup {q \in {n} : ~Voted(votes[q], q, "prevote", r)}

Backers(r, b) == {q \in Nodes : CreateVote(q, "prevote", r, b) \in savedVotes[q]}

Backed(r, b) == Cardinality(Backers(r, b)) + 1 >= QuorumSize

\* Memory holds what is on disk, and the same round.
DiskInMemory ==
  \A n \in Nodes : savedVotes[n] \subseteq votes[n] /\ savedRound[n] = currentRound[n]

\* A vote another node can see is durable at its signer.
SeenIsDurable ==
  /\ \A v \in sentVotes : v \in savedVotes[v.from]
  /\ \A n \in Nodes : \A v \in votes[n] : v.from # n => v \in savedVotes[v.from]

\* A node prevotes, or gives up, no round beyond its current one.
VotesInPast ==
  \A n \in Nodes, r \in Rounds :
    Voted(votes[n], n, "prevote", r) \/ Voted(votes[n], n, "round_timeout", r)
      => r <= currentRound[n]

RoundsGivenUp ==
  \A n \in Nodes, r \in Rounds :
    r < currentRound[n] => Cardinality(Leavers(r)) >= QuorumSize

\* What a suspended handler still relies on when it resumes.
HandlerOK(n, t) ==
  /\ t.pc # "vote_lock"
  /\ t.pc \in {"tip", "proposal_commit"} =>
       /\ t.round = currentRound[n]
       /\ ~Voted(votes[n], n, "round_timeout", t.round)
  /\ t.pc \in {"vote_commit", "lock_commit"} => t.vote \in votes[n]
  /\ t.pc \in {"vote_commit", "lock_commit", "advance_commit", "final_commit"} =>
       \A v \in t.sends : v.from = n /\ v \in savedVotes[n]
  /\ t.pc = "advance_commit" =>
       /\ t.round > currentRound[n]
       /\ \A r \in Rounds : r < t.round => Cardinality(LeaversWith(n, r)) >= QuorumSize
  /\ t.pc = "final_commit" =>
       IF t.own
       THEN n = Proposer(t.round) /\ Backed(t.round, t.block)
       ELSE [round |-> t.round, block |-> t.block] \in certificates

HandlersOK == \A n \in Nodes, l \in Lanes : HandlerOK(n, task[n][l])

\* A certificate, or a finality record, is the word of the round's proposer
\* and has the prevotes behind it.
Certified(c) == Backed(c.round, c.block) /\ finalized[Proposer(c.round)].block = c.block

FinalityCertified ==
  /\ \A c \in certificates : Certified(c)
  /\ \A n \in Nodes : finalized[n] # Unset => Certified(finalized[n])

SerialInv ==
  /\ DiskInMemory
  /\ SeenIsDurable
  /\ PrevoteOrTimeout
  /\ VotesInPast
  /\ RoundsGivenUp
  /\ HandlersOK
  /\ FinalityCertified

(***************************************************************************)
(* A healthy network: no fault, and a message broadcast waits in the       *)
(* peer's socket until the receive loop takes it, once.  Every node keeps  *)
(* running: its event loop resumes its handlers and its receive loop reads *)
(* on.  The driver is under no obligation.                                 *)
(***************************************************************************)
TakeProposal(n, l) ==
  \E m \in proposals : /\ ~Voted(votes[n], n, "prevote", m.round)
                       /\ ReceiveProposal(n, l, m)

TakeVote(n, l) == \E v \in sentVotes : ReceiveVote(n, l, v)

TakeCertificate(n, l) ==
  \E c \in certificates : finalized[n] = Unset /\ ReceiveCertificate(n, l, c)

Run(n) ==
  \E l \in Lanes : \/ TakeProposal(n, l)
                   \/ TakeVote(n, l)
                   \/ TakeCertificate(n, l)
                   \/ Resume(n, l)

HealthyNext == \E n \in Nodes : Driver(n) \/ Run(n)

HealthySpec == Init /\ [][HealthyNext]_vars /\ \A n \in Nodes : WF_vars(Run(n))

\* In a round nobody times out, one proposal is enough for every validator to
\* finalize: the quorums form in whatever order the votes arrive, and the
\* proposer's certificate reaches the rest.
ProposalIsFinalized ==
  proposals # {} ~> \A n \in Nodes : finalized[n] # Unset
================================================================================
