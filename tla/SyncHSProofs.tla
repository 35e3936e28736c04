----------------------------- MODULE SyncHSProofs -----------------------------
(***************************************************************************)
(* Safety of SyncHS for any number of replicas and views and any delay,    *)
(* loss or reordering of messages: types; the leader is a function of the  *)
(* view; the chain of blocks of a node has no gaps; its certificates are   *)
(* final, backed by the reputations of their views, and signed by nodes    *)
(* that hold the block.                                                    *)
(***************************************************************************)
EXTENDS SyncHS, FiniteSetTheorems, TLAPS

-------------------------------------------------------------------------------
\* The operators the model is built from.

\* Setting a key of one node's map keeps the type of the maps.
LEMMA PutType ==
  ASSUME NEW S, NEW f, IsMapOf(f, S), NEW n \in Node, NEW k \in Nat, NEW x \in S
  PROVE  IsMapOf([f EXCEPT ![n] = Put(f[n], k, x)], S)
BY DEF IsMapOf, Put

\* So do an element added to one node's set, and one appended to its queue.
LEMMA AddType ==
  ASSUME NEW S, NEW f \in [Node -> SUBSET S], NEW n \in Node, NEW x \in S
  PROVE  [f EXCEPT ![n] = f[n] \cup {x}] \in [Node -> SUBSET S]
OBVIOUS

\* An element appended to one node's queue keeps the type of the queues.
LEMMA AppendType ==
  ASSUME NEW S, NEW f \in [Node -> Seq(S)], NEW n \in Node, NEW x \in S
  PROVE  [f EXCEPT ![n] = Append(f[n], x)] \in [Node -> Seq(S)]
OBVIOUS

\* Replicas are numbers, and node 0 is one of them.
LEMMA NodeType == Node \subseteq Nat /\ 0 \in Node
BY NAssumption DEF Node

\* The rotation of leader.go stays within the replicas, and wraps at N - 1.
LEMMA ChangeLeader ==
  ASSUME NEW l \in Node
  PROVE  /\ changeLeader(l) \in Node
         /\ l < N - 1 => changeLeader(l) = l + 1
         /\ l = N - 1 => changeLeader(l) = 0
BY NAssumption DEF Node, changeLeader

\* The hash of a block is a path.
LEMMA HashType == ASSUME NEW b \in Block PROVE GetBlockHash(b) \in Hash
<1>1. b.parent \in Seq(Nat \X Extra) /\ <<b.height, b.extra>> \in Nat \X Extra
  BY DEF Block, Hash
<1> QED
  BY <1>1 DEF GetBlockHash, Hash

-------------------------------------------------------------------------------
\* Scores.

\* A node has recorded only finitely many acts.
FiniteTranscript(t) ==
  /\ IsFiniteSet(t.vote) /\ IsFiniteSet(t.maliVote) /\ IsFiniteSet(t.prop)
  /\ IsFiniteSet(t.with) /\ IsFiniteSet(t.equi) /\ IsFiniteSet(t.maliProp)

\* The number of acts recorded of one node is a number.
LEMMA NumType ==
  ASSUME NEW S, IsFiniteSet(S), NEW id
  PROVE  NumCalculate(S, id) \in Nat
<1>1. {e \in S : e[2] = id} \subseteq S
  OBVIOUS
<1> QED
  BY <1>1, FS_Subset, FS_CardinalityType DEF NumCalculate

\* Every reputation is at least the initial one: no record of misbehaviour
\* takes a node's voting power away for good (maxValueCheckScore).
LEMMA ScoreType ==
  ASSUME NEW t, FiniteTranscript(t), NEW id
  PROVE  /\ ReputationCalculateinCurrentRound(t, id) \in Nat
         /\ ReputationCalculateinCurrentRound(t, id) >= initialNodescore
<1>1. /\ NumCalculate(t.vote, id) \in Nat
      /\ NumCalculate(t.maliVote, id) \in Nat
      /\ NumCalculate(t.prop, id) \in Nat
      /\ NumCalculate(t.with, id) \in Nat
      /\ NumCalculate(t.equi, id) \in Nat
      /\ NumCalculate(t.maliProp, id) \in Nat
  BY NumType DEF FiniteTranscript
<1>2. proposalscore(t, id) \in Nat
  BY <1>1 DEF proposalscore, maxValueCheckNum, penaltyWith, penaltyEqui,
              penaltyMali
<1>3. votescore(t, id) \in Nat
  BY <1>1, SMTT(30) DEF votescore, maxValueCheckNum, penaltyMali
<1> QED
  BY <1>2, <1>3 DEF ReputationCalculateinCurrentRound, maxValueCheckScore,
                    behaviourScore, gamma, initialNodescore

\* Credit for a vote or a proposal keeps the type of a transcript.
LEMMA CreditType ==
  ASSUME NEW t \in Transcript, FiniteTranscript(t), NEW v \in Nat,
         NEW id \in Node
  PROVE  /\ addVotetoMap(t, v, id) \in Transcript
         /\ FiniteTranscript(addVotetoMap(t, v, id))
         /\ addProposaltoMap(t, v, id) \in Transcript
         /\ FiniteTranscript(addProposaltoMap(t, v, id))
<1>1. IsFiniteSet(t.vote \cup {<<v, id>>})
  BY FS_AddElement, Zenon DEF FiniteTranscript
<1>2. IsFiniteSet({e \in t.prop : e[1] # v} \cup {<<v, id>>})
  <2>1. IsFiniteSet({e \in t.prop : e[1] # v})
    BY FS_Subset DEF FiniteTranscript
  <2> QED
    BY <2>1, FS_AddElement, Zenon
<1>3. addVotetoMap(t, v, id) \in Transcript
  BY DEF addVotetoMap, Transcript, Records
<1>4. FiniteTranscript(addVotetoMap(t, v, id))
  BY <1>1 DEF addVotetoMap, FiniteTranscript, Transcript
<1>5. addProposaltoMap(t, v, id) \in Transcript
  BY DEF addProposaltoMap, Transcript, Records
<1>6. FiniteTranscript(addProposaltoMap(t, v, id))
  BY <1>2, SMTT(30) DEF addProposaltoMap, FiniteTranscript, Transcript
<1> QED
  BY <1>3, <1>4, <1>5, <1>6

-------------------------------------------------------------------------------
\* Types.

TInv == TypeOK /\ \A n \in Node : FiniteTranscript(transcript[n])

\* Proposals and votes are well formed, and so is a network they are sent to.
LEMMA ProposalType ==
  ASSUME TInv, NEW n \in Node, NEW c \in Cert, NEW h \in Nat, NEW e \in Extra
  PROVE  NewCandidateProposal(n, c, h, e) \in Proposal
<1>1. leader[n] \in Node /\ view[n] \in Nat /\ c.hash \in Hash
  BY SMTT(30) DEF TInv, TypeOK, Cert
<1>2. [parent |-> c.hash, height |-> h, extra |-> e,
       txs |-> <<n, view[n]>>] \in Block
  BY <1>1 DEF Block
<1> QED
  BY <1>1, <1>2 DEF NewCandidateProposal, Proposal

\* So is a broadcast of a proposal.
LEMMA BroadcastType ==
  ASSUME NEW n \in Node, NEW p \in Proposal
  PROVE  Broadcast(n, p) \subseteq [to : Node, prop : Proposal]
BY DEF Broadcast

\* So are the votes in flight with a new one.
LEMMA VoteType ==
  ASSUME NEW n \in Node, NEW p, NewVote(n, p) \in Vote,
         voteNet \subseteq [to : Node, vote : Vote], voteForBlock(n, p)
  PROVE  voteNet' \subseteq [to : Node, vote : Vote]
<1> DEFINE v == NewVote(n, p)
<1>1. voteNet' = voteNet \cup {[to |-> m, vote |-> v] : m \in Node} /\ v \in Vote
  BY DEF voteForBlock
<1> HIDE DEF v
<1> QED
  BY <1>1

\* All this holds before the first round.
LEMMA TInvInit == Init => TInv
<1> SUFFICES ASSUME Init PROVE TInv
  OBVIOUS
<1>1. GenesisCert \in Cert
  BY DEF GenesisCert, Cert, Hash, EmptyHash
<1>2. EmptyTranscript \in Transcript /\ FiniteTranscript(EmptyTranscript)
  BY FS_EmptySet, SMTT(30) DEF EmptyTranscript, Transcript, Records, FiniteTranscript
<1>3. [id \in Node |-> initialNodescore] \in [Node -> Nat]
  BY DEF initialNodescore
<1>4. TypeOK
  BY <1>1, <1>2, <1>3, NodeType, SMTT(30)
  DEF Init, TypeOK, IsMapOf, Phase
<1> QED
  BY <1>2, <1>4 DEF TInv, Init

\* The start of a round, with a proposal or without, keeps the types.
LEMMA TInvStart ==
  ASSUME TInv, NEW n \in Node, Start(n)
  PROVE  TInv'
<1>1. CASE StartWithoutProposal(n)
  BY <1>1, Zenon DEF StartWithoutProposal, startConsensusTimer, TInv, TypeOK, Phase,
     chainVars, repVars, forwVars, voteVars
<1>2. CASE Propose(n)
  <2> DEFINE p == NewCandidateProposal(n, certMap[n][head[n]], head[n] + 1, "nil")
  <2>1. p \in Proposal
    <3>1. certMap[n][head[n]] \in Cert
      BY <1>2 DEF Propose, TInv, TypeOK, IsMapOf
    <3>2. head[n] + 1 \in Nat
      BY DEF TInv, TypeOK
    <3> QED
      BY <3>1, <3>2, ProposalType, ZenonT(30) DEF Extra
  <2>2. p.block \in Block /\ GetBlockHash(p.block) \in Hash
    BY <2>1, HashType, Zenon DEF Proposal
  <2>3. /\ p.block.height \in Nat
        /\ view[n] \in Nat
        /\ head[n] + 1 \in Nat
    <3>1. p.block.height \in Nat
      BY <2>2 DEF Block
    <3>2. view[n] \in Nat /\ head[n] + 1 \in Nat
      BY SMTT(30) DEF TInv, TypeOK
    <3> QED
      BY <3>1, <3>2, ZenonT(30)
  <2>4. IsMapOf(BlocksByHeight', Block)
    BY <1>2, <2>2, <2>3, PutType, Zenon DEF Propose, addNewBlock, TInv, TypeOK
  <2>5. IsMapOf(proposalByviewMap', Hash)
    BY <1>2, <2>2, <2>3, PutType, Zenon DEF Propose, TInv, TypeOK
  <2>6. /\ transcript' \in [Node -> Transcript]
        /\ \A m \in Node : FiniteTranscript(transcript'[m])
    BY <1>2, <2>3, CreditType, Zenon DEF Propose, TInv, TypeOK
  <2>7. propNet' \subseteq [to : Node, prop : Proposal]
    <3>1. propNet' = propNet \cup Broadcast(n, p)
      BY <1>2, Zenon DEF Propose
    <3> HIDE DEF p
    <3> QED
      BY <2>1, <3>1, BroadcastType, Zenon DEF TInv, TypeOK
  <2>8. BlocksByHash' \in [Node -> SUBSET Hash]
    BY <1>2, <2>2, ZenonT(30) DEF Propose, addNewBlock, TInv, TypeOK
  <2>9. head' \in [Node -> Nat] /\ phase' \in [Node -> Phase]
    BY <1>2, <2>3, SMTT(30) DEF Propose, startConsensusTimer, TInv, TypeOK, Phase
  <2> QED
    BY <1>2, <2>4, <2>5, <2>6, <2>7, <2>8, <2>9, Zenon
    DEF Propose, TInv, TypeOK, voteVars
<1> QED
  BY <1>1, <1>2 DEF Start

\* So does a proposal that arrives: it is queued, forwarded or dropped.
LEMMA TInvDispatch ==
  ASSUME TInv, NEW n \in Node, NEW m \in propNet, Dispatch(n, m)
  PROVE  TInv'
<1>1. m.prop \in Proposal
  BY SMTT(30) DEF TInv, TypeOK
<1>2. /\ proposeChannel' \in [Node -> Seq(Proposal)]
      /\ propNet' \subseteq [to : Node, prop : Proposal]
      /\ up' \in [Node -> BOOLEAN]
  <2>1. CASE Enqueue(n, m)
    BY <1>1, <2>1, SMTT(30) DEF Enqueue, TInv, TypeOK
  <2>2. CASE Forward(n, m)
    <3> DEFINE q == [m.prop EXCEPT !.forwardSender = n, !.forwardSig = TRUE]
    <3>1. q \in Proposal
      BY <1>1, Zenon DEF Proposal
    <3>2. /\ propNet' = (propNet \ {m}) \cup Broadcast(n, q)
          /\ proposeChannel' =
               [proposeChannel EXCEPT ![n] = Append(proposeChannel[n], q)]
          /\ UNCHANGED up
      BY <2>2 DEF Forward
    <3>3. /\ propNet \subseteq [to : Node, prop : Proposal]
          /\ proposeChannel \in [Node -> Seq(Proposal)]
          /\ up \in [Node -> BOOLEAN]
      BY SMTT(30) DEF TInv, TypeOK
    <3> HIDE DEF q
    <3>4. propNet' \subseteq [to : Node, prop : Proposal]
      BY <3>1, <3>2, <3>3, BroadcastType
    <3>5. proposeChannel' \in [Node -> Seq(Proposal)]
      BY <3>1, <3>2, <3>3, AppendType, SMTT(30)
    <3> QED
      BY <3>2, <3>3, <3>4, <3>5
  <2>3. CASE ForwardFails(n, m)
    BY <2>3, Zenon DEF ForwardFails, Panic, TInv, TypeOK
  <2> QED
    BY <2>1, <2>2, <2>3, Zenon DEF Dispatch
<1> QED
  BY <1>2, Zenon DEF Dispatch, TInv, TypeOK, roundVars, chainVars, repVars, forwVars,
     voteVars

\* So do the branches of forwardProposalHandler.
LEMMA TInvForward ==
  ASSUME TInv, NEW n \in Node, HandleForward(n)
  PROVE  TInv'
<1> DEFINE p == proposeChannel[n][1]
<1>1. TakeProposal(n)
  BY SMTT(30) DEF HandleForward, RejectForward, DetectEquivocation, AwaitForwards,
     AcceptBlock, LeaderVotes, CountForward
<1>2. p \in Proposal /\ proposeChannel' \in [Node -> Seq(Proposal)]
  BY <1>1 DEF TakeProposal, TInv, TypeOK
<1>3. /\ p.block \in Block
      /\ GetBlockHash(p.block) \in Hash
      /\ p.forwardSender \in Node
      /\ p.block.height \in Nat
      /\ view[n] \in Nat
  BY <1>2, HashType, Zenon DEF Proposal, Block, TInv, TypeOK
<1>4. CASE RejectForward(n)
  BY <1>2, <1>4, Zenon DEF RejectForward, Panic, TInv, TypeOK, roundVars, chainVars,
     repVars, forwVars, voteVars
<1>5. CASE DetectEquivocation(n)
  <2>1. evidence' \subseteq Evidence
    <3>1. leader[n] \in Node /\ evidence \subseteq Evidence
      BY SMTT(30) DEF TInv, TypeOK
    <3>2. sendEqProEvidence(n) \in Evidence
      BY <1>3, <3>1 DEF sendEqProEvidence, Evidence
    <3> QED
      BY <1>5, <3>1, <3>2, Zenon DEF DetectEquivocation
  <2> QED
    BY <1>2, <1>5, <2>1, ZenonT(30) DEF DetectEquivocation, TInv, TypeOK, roundVars,
       chainVars, repVars, voteVars
<1>6. ASSUME CountForward(n, p)
      PROVE  /\ fpropMap' \in [Node -> SUBSET (Nat \X Node)]
             /\ IsMapOf(proposalByviewMap', Hash)
  <2>1. fpropMap' \in [Node -> SUBSET (Nat \X Node)]
    <3> DEFINE e == <<view[n], p.forwardSender>>
    <3>1. e \in Nat \X Node
      BY <1>3, SMTT(30)
    <3>2. fpropMap' = [fpropMap EXCEPT ![n] = fpropMap[n] \cup {e}]
      BY <1>6 DEF CountForward
    <3>3. fpropMap \in [Node -> SUBSET (Nat \X Node)]
      BY SMTT(30) DEF TInv, TypeOK
    <3> HIDE DEF e
    <3> QED
      BY <3>1, <3>2, <3>3, AddType, Zenon
  <2>2. IsMapOf(proposalByviewMap', Hash)
    BY <1>3, <1>6, PutType, Zenon DEF CountForward, TInv, TypeOK
  <2> QED
    BY <2>1, <2>2, SMTT(30)
<1>7. CASE AwaitForwards(n)
  BY <1>2, <1>6, <1>7, Zenon DEF AwaitForwards, CountForward, TInv, TypeOK, roundVars,
     chainVars, voteVars
<1>8. CASE AcceptBlock(n)
  <2>1. /\ transcript' \in [Node -> Transcript]
        /\ \A x \in Node : FiniteTranscript(transcript'[x])
    BY <1>3, <1>8, CreditType, Zenon DEF AcceptBlock, TInv, TypeOK
  <2>2. IsMapOf(BlocksByHeight', Block)
    BY <1>3, <1>8, PutType, Zenon DEF AcceptBlock, addNewBlock, TInv, TypeOK
  <2>3. /\ BlocksByHash' \in [Node -> SUBSET Hash]
        /\ head' \in [Node -> Nat]
        /\ voteTasks' \in [Node -> SUBSET Proposal]
    <3>1. /\ addNewBlock(n, p.block)
          /\ head' = [head EXCEPT ![n] = @ + 1]
          /\ voteTasks' = [voteTasks EXCEPT ![n] = @ \cup {p}]
      BY <1>8, SMTT(30) DEF AcceptBlock
    <3> HIDE DEF p
    <3> QED
      <4>1. BlocksByHash' \in [Node -> SUBSET Hash]
        BY <1>3, <3>1, Zenon DEF addNewBlock, TInv, TypeOK
      <4>2. head' \in [Node -> Nat]
        BY <3>1, SMTT(30) DEF TInv, TypeOK
      <4>3. voteTasks' \in [Node -> SUBSET Proposal]
        BY <1>2, <3>1, Zenon DEF TInv, TypeOK
      <4> QED
        BY <4>1, <4>2, <4>3, Zenon
  <2> QED
    BY <1>2, <1>6, <1>8, <2>1, <2>2, <2>3, Zenon
    DEF AcceptBlock, CountForward, TInv, TypeOK, roundVars, voteVars
<1>9. CASE LeaderVotes(n)
  <2>1. /\ transcript' \in [Node -> Transcript]
        /\ \A x \in Node : FiniteTranscript(transcript'[x])
    BY <1>3, <1>9, CreditType, ZenonT(30) DEF LeaderVotes, voteForBlock, TInv, TypeOK
  <2>2. voteNet' \subseteq [to : Node, vote : Vote]
    <3>1. voteForBlock(n, p)
      BY <1>9, SMTT(30) DEF LeaderVotes
    <3> HIDE DEF p
    <3>2. NewVote(n, p) \in Vote
      BY <1>2, <1>3, Zenon DEF NewVote, Vote, Proposal
    <3> QED
      BY <3>1, <3>2, VoteType, Zenon DEF TInv, TypeOK
  <2> QED
    BY <1>2, <1>6, <1>9, <2>1, <2>2, Zenon
    DEF LeaderVotes, CountForward, TInv, TypeOK, roundVars, chainVars, voteVars
<1> QED
  BY <1>4, <1>5, <1>7, <1>8, <1>9, ZenonT(30) DEF HandleForward

\* So does voteForBlock.
LEMMA TInvCastVote ==
  ASSUME TInv, NEW n \in Node, NEW p \in voteTasks[n], CastVote(n, p)
  PROVE  TInv'
<1>1. p \in Proposal /\ GetBlockHash(p.block) \in Hash /\ view[n] \in Nat
  BY HashType DEF TInv, TypeOK, Proposal
<1>2. /\ transcript' \in [Node -> Transcript]
      /\ \A x \in Node : FiniteTranscript(transcript'[x])
  BY <1>1, CreditType, Zenon DEF CastVote, voteForBlock, TInv, TypeOK
<1>3. voteNet' \subseteq [to : Node, vote : Vote]
  <2>1. NewVote(n, p) \in Vote
    BY <1>1, SMTT(30) DEF NewVote, Vote, Proposal
  <2> QED
    BY <2>1, VoteType, Zenon DEF CastVote, TInv, TypeOK
<1> QED
  BY <1>2, <1>3, Zenon DEF CastVote, TInv, TypeOK, roundVars, chainVars, forwVars,
     voteVars

\* So do the branches of voteHandler.
LEMMA TInvVote ==
  ASSUME TInv, NEW n \in Node, NEW m \in voteNet, HandleVote(n, m)
  PROVE  TInv'
<1>1. /\ m.vote \in Vote
      /\ m.vote.voter \in Node /\ m.vote.hash \in Hash /\ m.vote.view \in Nat
      /\ view[n] \in Nat
  BY Zenon DEF TInv, TypeOK, Vote
<1>2. ReceiveVote(n, m)
  BY SMTT(30) DEF HandleVote, AccuseVoter, DropDuplicateVote, CountVote
<1>3. voteNet' \subseteq [to : Node, vote : Vote]
  BY <1>2, SMTT(30) DEF ReceiveVote, TInv, TypeOK
<1>4. CASE AccuseVoter(n, m)
  <2>1. evidence' \subseteq Evidence
    <3>1. sendMalivoteEvidence(n, m.vote) \in Evidence
      BY <1>1, SMTT(30) DEF sendMalivoteEvidence, Evidence
    <3>2. evidence \subseteq Evidence
      BY SMTT(30) DEF TInv, TypeOK
    <3> QED
      BY <1>4, <3>1, <3>2, SMTT(30) DEF AccuseVoter
  <2> QED
    BY <1>2, <1>3, <1>4, <2>1, Zenon DEF AccuseVoter, ReceiveVote, TInv, TypeOK,
       roundVars, chainVars, forwVars, voteVars
<1>5. CASE DropDuplicateVote(n, m)
  BY <1>2, <1>3, <1>5, Zenon DEF DropDuplicateVote, ReceiveVote, TInv, TypeOK,
     roundVars, chainVars, forwVars, voteVars
<1>6. CASE CountVote(n, m)
  <2> DEFINE v == m.vote
             votes == Tallied(n) \cup {v}
  <2>1. /\ transcript' \in [Node -> Transcript]
        /\ \A x \in Node : FiniteTranscript(transcript'[x])
    BY <1>1, <1>6, CreditType, Zenon DEF CountVote, CreditVoter, TInv, TypeOK
  <2>2. votes \in SUBSET Vote
    BY <1>1, SMTT(30) DEF Tallied, TInv, TypeOK
  <2>3. [index |-> view[n], cert |-> NewCert(votes, v)]
          \in [index : Nat, cert : Cert]
    <3> HIDE DEF votes
    <3> QED
      BY <1>1, <2>2, Zenon DEF NewCert, Cert
  <2>4. /\ tally' \in [Node -> SUBSET (Nat \X Vote)]
        /\ isCertified' \in [Node -> SUBSET Nat]
        /\ certTasks' \in [Node -> SUBSET [index : Nat, cert : Cert]]
    <3>1. CASE UNCHANGED <<voteVars, certTasks>>
      BY <3>1, SMTT(30) DEF voteVars, TInv, TypeOK
    <3>2. CASE ~AlreadyCertified(n)
      <4> DEFINE t == [index |-> view[n], cert |-> NewCert(votes, v)]
      <4>1. /\ tally' = [tally EXCEPT ![n] = @ \cup {<<view[n], v>>}]
            /\ \/ isCertified' = isCertified /\ certTasks' = certTasks
               \/ /\ isCertified' = [isCertified EXCEPT ![n] = @ \cup {view[n]}]
                  /\ certTasks' = [certTasks EXCEPT ![n] = @ \cup {t}]
        BY <1>6, <3>2, Zenon DEF CountVote
      <4> HIDE DEF v, t
      <4>2. v \in Vote
        BY <1>1 DEF v
      <4>3. tally' \in [Node -> SUBSET (Nat \X Vote)]
        <5> DEFINE e == <<view[n], v>>
        <5>1. e \in Nat \X Vote
          BY <1>1, <4>2
        <5>2. tally' = [tally EXCEPT ![n] = tally[n] \cup {e}]
          BY <4>1, SMTT(30)
        <5>3. tally \in [Node -> SUBSET (Nat \X Vote)]
          BY DEF TInv, TypeOK
        <5> HIDE DEF e
        <5> QED
          BY <5>1, <5>2, <5>3, AddType, Zenon
      <4>4. isCertified' \in [Node -> SUBSET Nat]
        <5>1. isCertified \in [Node -> SUBSET Nat]
          BY DEF TInv, TypeOK
        <5>2. [isCertified EXCEPT ![n] = isCertified[n] \cup {view[n]}]
                \in [Node -> SUBSET Nat]
          BY <1>1, <5>1, AddType, Zenon
        <5> QED
          BY <4>1, <5>1, <5>2, Zenon
      <4>5. t \in [index : Nat, cert : Cert]
        BY <2>3 DEF t
      <4>6. certTasks' \in [Node -> SUBSET [index : Nat, cert : Cert]]
        <5> DEFINE T == [index : Nat, cert : Cert]
        <5>1. certTasks \in [Node -> SUBSET T]
          BY DEF TInv, TypeOK
        <5>2. t \in T
          BY <4>5, Zenon
        <5> HIDE DEF T
        <5>3. [certTasks EXCEPT ![n] = certTasks[n] \cup {t}]
                \in [Node -> SUBSET T]
          BY <5>1, <5>2, AddType
        <5>4. certTasks' \in [Node -> SUBSET T]
          BY <4>1, <5>1, <5>3, ZenonT(30)
        <5> QED
          BY <5>4, SMTT(30) DEF T
      <4> QED
        BY <4>3, <4>4, <4>6
    <3> QED
      BY <1>6, <3>1, <3>2, Zenon DEF CountVote
  <2>5. UNCHANGED <<roundVars, up, chainVars, certMap, reputationMap, forwVars,
                    proposeChannel, voteTasks, propNet, acks, evidence>>
    BY <1>2, <1>6, SMTT(30) DEF CountVote, ReceiveVote
  <2> QED
    BY <1>3, <2>1, <2>4, <2>5, ZenonT(30) DEF TInv, TypeOK, roundVars, chainVars, forwVars
<1> QED
  BY <1>4, <1>5, <1>6, Zenon DEF HandleVote

\* So does addCert.
LEMMA TInvAddCert ==
  ASSUME TInv, NEW n \in Node, NEW t \in certTasks[n], addCert(n, t)
  PROVE  TInv'
<1>1. t.index \in Nat /\ t.cert \in Cert
  BY SMTT(30) DEF TInv, TypeOK
<1>2. IsMapOf(certMap', Cert)
  BY <1>1, PutType, ZenonT(30) DEF addCert, TInv, TypeOK
<1>3. certTasks' \in [Node -> SUBSET [index : Nat, cert : Cert]]
  BY SMTT(30) DEF addCert, TInv, TypeOK
<1> QED
  BY <1>2, <1>3, Zenon DEF addCert, TInv, TypeOK, roundVars, chainVars, repVars,
     forwVars, voteVars

\* So does the timer, which computes the reputations of the next view.
LEMMA TInvTimer ==
  ASSUME TInv, NEW n \in Node, TimerFires(n)
  PROVE  TInv'
<1>1. [id \in Node |-> ReputationCalculateinCurrentRound(transcript[n], id)]
        \in [Node -> Nat]
  BY ScoreType, SMTT(30) DEF TInv
<1>2. view[n] + 1 \in Nat
  BY DEF TInv, TypeOK
<1>3. IsMapOf(reputationMap', [Node -> Nat])
  BY <1>1, <1>2, PutType, ZenonT(30) DEF TimerFires, addNewViewReputaiontoMap, TInv, TypeOK
<1>4. phase' \in [Node -> Phase]
  BY DEF TimerFires, TInv, TypeOK, Phase
<1> QED
  BY <1>3, <1>4, Zenon DEF TimerFires, TInv, TypeOK, chainVars, voteVars

\* So do the branches of the callback.
LEMMA TInvCallback ==
  ASSUME TInv, NEW n \in Node, Callback(n)
  PROVE  TInv'
<1>1. CASE RetryView(n)
  BY <1>1, Zenon DEF RetryView, TInv, TypeOK, Phase, chainVars, repVars, forwVars,
     voteVars
<1>2. CASE Commit(n)
  <2> DEFINE a == [view |-> view[n], block |-> BlocksByHeight[n][head[n]]]
  <2>1. CASE head[n] \in DOMAIN BlocksByHeight[n]
    <3>1. /\ acks' = [acks EXCEPT ![n] = Append(@, a)]
          /\ view' = [view EXCEPT ![n] = @ + 1]
          /\ phase' = [phase EXCEPT ![n] = "rotate"]
          /\ UNCHANGED up
      BY <1>2, <2>1, ZenonT(30) DEF Commit
    <3>2. a \in [view : Nat, block : Block]
      BY <2>1, SMTT(30) DEF TInv, TypeOK, IsMapOf
    <3> HIDE DEF a
    <3>3. acks' \in [Node -> Seq([view : Nat, block : Block])]
      BY <3>1, <3>2, AppendType, Zenon DEF TInv, TypeOK
    <3>4. view' \in [Node -> Nat \ {0}] /\ phase' \in [Node -> Phase]
      BY <3>1, SMTT(30) DEF TInv, TypeOK, Phase
    <3> QED
      BY <1>2, <3>1, <3>3, <3>4, Zenon DEF Commit, TInv, TypeOK, chainVars, repVars,
         forwVars, voteVars
  <2>2. CASE head[n] \notin DOMAIN BlocksByHeight[n]
    BY <1>2, <2>2, ZenonT(30) DEF Commit, Panic, TInv, TypeOK, chainVars, repVars, forwVars,
       voteVars
  <2> QED
    BY <2>1, <2>2, SMTT(30)
<1>3. CASE Rotate(n)
  <2>1. leader' \in [Node -> Node]
    BY <1>3, ChangeLeader, SMTT(30) DEF Rotate, TInv, TypeOK
  <2> QED
    BY <1>3, <2>1, Zenon DEF Rotate, TInv, TypeOK, Phase, chainVars, repVars, forwVars,
       voteVars
<1> QED
  BY <1>1, <1>2, <1>3, SMTT(30) DEF Callback

\* So does the loss of a peer.
LEMMA TInvPeerLost ==
  ASSUME TInv, NEW n \in Node, PeerLost(n)
  PROVE  TInv'
BY Zenon DEF PeerLost, Panic, TInv, TypeOK, roundVars, chainVars, repVars, forwVars,
   voteVars

\* Every step keeps the types.
LEMMA TInvStep == TInv /\ [Next]_vars => TInv'
<1> SUFFICES ASSUME TInv, [Next]_vars PROVE TInv'
  OBVIOUS
<1>1. CASE UNCHANGED vars
  BY <1>1, ZenonT(30) DEF TInv, TypeOK, vars, roundVars, chainVars, repVars, forwVars,
     voteVars
<1>2. CASE Next
  BY <1>2, TInvStart, TInvDispatch, TInvForward, TInvCastVote, TInvVote,
     TInvAddCert, TInvTimer, TInvCallback, TInvPeerLost, Zenon
  DEF Next, HandleMessage
<1> QED
  BY <1>1, <1>2, SMTT(30)

\* Every variable keeps its type in every behaviour.
THEOREM TypeCorrect == Spec => []TypeOK
<1>1. TInv => TypeOK
  BY DEF TInv
<1> QED
  BY <1>1, TInvInit, TInvStep, PTL DEF Spec

-------------------------------------------------------------------------------
\* The rotation.

\* Quotient and remainder are unique.
LEMMA ModUnique ==
  ASSUME NEW q \in Int, NEW p \in Int, NEW r \in 0..(N - 1), NEW s \in 0..(N - 1),
         N * q + r = N * p + s
  PROVE  r = s
<1> N \in Nat \ {0}
  BY NAssumption, SMTT(30)
<1>1. CASE q = p
  BY <1>1, SMTT(30)
<1>2. CASE q > p
  <2>1. N * (q - p) >= N
    BY <1>2, SMTT(30)
  <2>2. N * (q - p) = s - r
    OBVIOUS
  <2> QED
    BY <2>1, <2>2
<1>3. CASE q < p
  <2>1. N * (p - q) >= N
    BY <1>3
  <2>2. N * (p - q) = r - s
    BY SMTT(30)
  <2> QED
    BY <2>1, <2>2, SMTT(30)
<1> QED
  BY <1>1, <1>2, <1>3, SMTT(30)

\* The remainder of a division by N is a replica.
LEMMA DivMod ==
  ASSUME NEW a \in Int
  PROVE  /\ a \div N \in Int
         /\ a % N \in 0..(N - 1)
         /\ a = N * (a \div N) + (a % N)
BY NAssumption, SMTT(30)

\* changeLeader takes the leader of a view to the leader of the next.
LEMMA NextLeader ==
  ASSUME NEW a \in Int
  PROVE  changeLeader(a % N) = (a + 1) % N
<1> DEFINE r == a % N
           q == a \div N
           s == (a + 1) % N
           p == (a + 1) \div N
<1>1. /\ N \in Nat /\ N >= 2
      /\ q \in Int /\ r \in 0..(N - 1) /\ a = N * q + r
      /\ p \in Int /\ s \in 0..(N - 1) /\ a + 1 = N * p + s
  BY NAssumption, DivMod, SMTT(30)
<1>2. r \in Node
  BY <1>1, SMTT(30) DEF Node
<1> HIDE DEF r, q, s, p
<1>3. CASE r < N - 1
  <2>1. N * q + (r + 1) = N * p + s
    BY <1>1, SMTT(30)
  <2>2. r + 1 = s
    BY <1>1, <1>3, <2>1, ModUnique, SMTT(30)
  <2> QED
    BY <1>2, <1>3, <2>2, ChangeLeader, SMTT(30) DEF r, s
<1>4. CASE r = N - 1
  <2>1. N * (q + 1) + 0 = N * p + s
    BY <1>1, <1>4, SMTT(30)
  <2>2. 0 = s
    BY <1>1, <2>1, ModUnique, SMTT(30)
  <2> QED
    BY <1>2, <1>4, <2>2, ChangeLeader, SMTT(30) DEF r, s
<1> QED
  BY <1>1, <1>3, <1>4, SMTT(30)

\* What a step that neither commits nor rotates leaves of the rotation.
LEMMA LeaderFrame ==
  ASSUME LeaderOfView, UNCHANGED <<view, leader>>,
         \A n \in Node : phase'[n] = "rotate" <=> phase[n] = "rotate"
  PROVE  LeaderOfView'
BY DEF LeaderOfView

\* The callback increments the view and the leader in step; nothing else
\* changes either of them.
LEMMA LeaderStep == TInv /\ LeaderOfView /\ [Next]_vars => LeaderOfView'
<1> SUFFICES ASSUME TInv, LeaderOfView, [Next]_vars PROVE LeaderOfView'
  BY SMTT(30)
<1> /\ view \in [Node -> Nat \ {0}]
    /\ leader \in [Node -> Node]
    /\ phase \in [Node -> Phase]
  BY SMTT(30) DEF TInv, TypeOK
<1>1. CASE UNCHANGED roundVars
  BY <1>1, LeaderFrame, SMTT(30) DEF roundVars
<1>2. ASSUME NEW n \in Node, Start(n) \/ TimerFires(n) \/ RetryView(n)
      PROVE  LeaderOfView'
  <2>1. /\ UNCHANGED <<view, leader>>
        /\ phase[n] # "rotate"
        /\ \E x \in {"armed", "decide", "empty", "ready"} :
             phase' = [phase EXCEPT ![n] = x]
    <3>1. CASE Start(n)
      BY <3>1, Zenon DEF Start, Propose, StartWithoutProposal, startConsensusTimer
    <3>2. CASE TimerFires(n) \/ RetryView(n)
      BY <3>2, ZenonT(30) DEF TimerFires, RetryView
    <3> QED
      BY <1>2, <3>1, <3>2, Zenon
  <2> QED
    BY <2>1, LeaderFrame, ZenonT(30)
<1>3. ASSUME NEW n \in Node, Commit(n) PROVE LeaderOfView'
  <2>1. CASE UNCHANGED <<view, phase>>
    BY <1>3, <2>1, LeaderFrame, SMTT(30) DEF Commit
  <2>2. CASE view' = [view EXCEPT ![n] = @ + 1]
             /\ phase' = [phase EXCEPT ![n] = "rotate"]
    <3>1. phase[n] # "rotate" /\ UNCHANGED leader
      BY <1>3, SMTT(30) DEF Commit
    <3>2. leader[n] = (view[n] - 1) % N
      BY <3>1, SMTT(30) DEF LeaderOfView
    <3>3. view'[n] - 2 = view[n] - 1
      BY <2>2, SMTT(30)
    <3> QED
      BY <2>2, <3>1, <3>2, <3>3, ZenonT(30) DEF LeaderOfView
  <2> QED
    BY <1>3, <2>1, <2>2, ZenonT(30) DEF Commit
<1>4. ASSUME NEW n \in Node, Rotate(n) PROVE LeaderOfView'
  <2>1. /\ phase[n] = "rotate"
        /\ leader' = [leader EXCEPT ![n] = changeLeader(leader[n])]
        /\ phase' = [phase EXCEPT ![n] = "ready"]
        /\ UNCHANGED view
    BY <1>4, SMTT(30) DEF Rotate
  <2>2. leader[n] = (view[n] - 2) % N
    BY <2>1 DEF LeaderOfView
  <2>3. /\ view[n] - 2 \in Int
        /\ (view[n] - 2) + 1 = view[n] - 1
    BY SMTT(30)
  <2>4. leader'[n] = (view[n] - 1) % N
    BY <2>1, <2>2, <2>3, NextLeader, ZenonT(30)
  <2> QED
    BY <2>1, <2>4, SMTT(30) DEF LeaderOfView
<1>5. ASSUME NEW n \in Node, HandleMessage(n, propNet, voteNet) \/ PeerLost(n)
      PROVE  UNCHANGED roundVars
  BY <1>5, ZenonT(30) DEF HandleMessage, PeerLost, Dispatch, HandleForward, RejectForward,
     DetectEquivocation, AwaitForwards, AcceptBlock, LeaderVotes, CountForward,
     CastVote, HandleVote, AccuseVoter, DropDuplicateVote, CountVote,
     ReceiveVote, addCert
<1>6. CASE UNCHANGED vars
  BY <1>1, <1>6, SMTT(30) DEF vars
<1> QED
  BY <1>1, <1>2, <1>3, <1>4, <1>5, <1>6, SMTT(30) DEF Next, Callback

\* Node 0 leads view 1.
LEMMA LeaderInit == Init => LeaderOfView
<1>1. (1 - 1) % N = 0
  BY NAssumption
<1> QED
  BY <1>1 DEF Init, LeaderOfView

\* All nodes in one view believe in one leader, for any number of replicas
\* and any timing.
THEOREM LeadersAgree == Spec => []LeaderOfView
BY LeaderInit, TInvInit, TInvStep, LeaderStep, PTL DEF Spec

-------------------------------------------------------------------------------
\* The chain.

\* What honest leaders propose: a block of their own, on top of the block
\* that the certificate names.
Honest == {p \in Proposal : /\ p.block.parent = p.cert.hash
                            /\ p.block.txs[1] = p.miner}

\* Every proposal under way is of this kind, forwarded or not.
HonestInv ==
  /\ \A m \in propNet : m.prop \in Honest
  /\ proposeChannel \in [Node -> Seq(Honest)]

\* A step that adds no block to a node's chain.
LEMMA ChainFrame ==
  ASSUME DeliveredParents, UNCHANGED <<BlocksByHeight, BlocksByHash>>
  PROVE  DeliveredParents'
BY DEF DeliveredParents

\* One new block, the node's own or one whose parent the node holds.
LEMMA ChainGrows ==
  ASSUME TInv, DeliveredParents, NEW n \in Node, NEW b \in Block,
         addNewBlock(n, b),
         b.txs[1] = n \/ b.parent = EmptyHash \/ b.parent \in BlocksByHash[n]
  PROVE  DeliveredParents'
<1> DOMAIN BlocksByHeight = Node /\ BlocksByHash \in [Node -> SUBSET Hash]
  BY SMTT(30) DEF TInv, TypeOK, IsMapOf
<1>1. /\ \A m \in Node \ {n} : /\ BlocksByHeight'[m] = BlocksByHeight[m]
                                /\ BlocksByHash'[m] = BlocksByHash[m]
      /\ BlocksByHeight'[n] = Put(BlocksByHeight[n], b.height, b)
      /\ BlocksByHash[n] \subseteq BlocksByHash'[n]
  BY ZenonT(30) DEF addNewBlock
<1> SUFFICES ASSUME NEW m \in Node, NEW h \in DOMAIN BlocksByHeight'[m],
                    BlocksByHeight'[m][h].txs[1] # m
             PROVE  \/ BlocksByHeight'[m][h].parent = EmptyHash
                    \/ BlocksByHeight'[m][h].parent \in BlocksByHash'[m]
  BY SMTT(30) DEF DeliveredParents
<1>2. CASE m # n
  BY <1>1, <1>2, ZenonT(30) DEF DeliveredParents
<1>3. CASE m = n /\ h = b.height
  <2>1. BlocksByHeight'[m][h] = b
    BY <1>1, <1>3, ZenonT(30) DEF Put
  <2> QED
    BY <1>1, <1>3, <2>1, SMTT(30)
<1>4. CASE m = n /\ h # b.height
  <2>1. h \in DOMAIN BlocksByHeight[n] /\ BlocksByHeight'[n][h] = BlocksByHeight[n][h]
    BY <1>1, <1>4, ZenonT(30) DEF Put
  <2> QED
    BY <1>1, <1>4, <2>1, SMTT(30) DEF DeliveredParents
<1> QED
  BY <1>2, <1>3, <1>4, ZenonT(30)

\* A leader proposes a block of its own.
LEMMA ChainStart ==
  ASSUME TInv, HonestInv, DeliveredParents, NEW n \in Node, Propose(n)
  PROVE  HonestInv' /\ DeliveredParents'
<1> DEFINE p == NewCandidateProposal(n, certMap[n][head[n]], head[n] + 1, "nil")
<1>1. p \in Proposal
  <2>1. certMap[n][head[n]] \in Cert
    BY Zenon DEF Propose, TInv, TypeOK, IsMapOf
  <2>2. head[n] + 1 \in Nat
    BY DEF TInv, TypeOK
  <2> QED
    BY <2>1, <2>2, ProposalType, ZenonT(30) DEF Extra
<1>2. p.block.parent = p.cert.hash /\ p.block.txs[1] = n /\ p.miner = n
  BY Zenon DEF NewCandidateProposal
<1>3. /\ addNewBlock(n, p.block)
      /\ propNet' = propNet \cup Broadcast(n, p)
      /\ UNCHANGED proposeChannel
  BY Zenon DEF Propose
<1> HIDE DEF p
<1>4. p \in Honest /\ p.block \in Block
  BY <1>1, <1>2 DEF Honest, Proposal
<1> QED
  BY <1>2, <1>3, <1>4, ChainGrows, SMTT(30) DEF HonestInv, Broadcast

\* A proposal is forwarded as it came.
LEMMA ChainDispatch ==
  ASSUME TInv, HonestInv, NEW n \in Node, NEW m \in propNet, Dispatch(n, m)
  PROVE  HonestInv'
<1>1. m.prop \in Honest /\ m.prop \in Proposal
  BY DEF HonestInv, Honest
<1>2. CASE Enqueue(n, m)
  <2>1. proposeChannel' \in [Node -> Seq(Honest)]
    BY <1>1, <1>2, AppendType, SMTT(30) DEF Enqueue, HonestInv
  <2> QED
    BY <1>2, <2>1, ZenonT(30) DEF Enqueue, HonestInv
<1>3. CASE Forward(n, m)
  <2> DEFINE q == [m.prop EXCEPT !.forwardSender = n, !.forwardSig = TRUE]
  <2>1. /\ propNet' = (propNet \ {m}) \cup Broadcast(n, q)
        /\ proposeChannel' = [proposeChannel EXCEPT ![n] = Append(proposeChannel[n], q)]
    BY <1>3 DEF Forward
  <2>2. q \in Honest
    BY <1>1, ZenonT(30) DEF Honest, Proposal
  <2> HIDE DEF q
  <2>3. proposeChannel' \in [Node -> Seq(Honest)]
    BY <2>1, <2>2, AppendType, SMTT(30) DEF HonestInv
  <2> QED
    BY <2>1, <2>2, <2>3, SMTT(30) DEF HonestInv, Broadcast
<1>4. CASE ForwardFails(n, m)
  BY <1>4, SMTT(30) DEF ForwardFails, HonestInv
<1> QED
  BY <1>2, <1>3, <1>4, ZenonT(30) DEF Dispatch

\* A block taken over is the one that was forwarded, and its parent is there.
LEMMA ChainForward ==
  ASSUME TInv, HonestInv, DeliveredParents, NEW n \in Node, HandleForward(n)
  PROVE  HonestInv' /\ DeliveredParents'
<1> DEFINE p == proposeChannel[n][1]
<1>1. TakeProposal(n) /\ UNCHANGED propNet
  BY Zenon DEF HandleForward, RejectForward, DetectEquivocation, AwaitForwards,
     AcceptBlock, LeaderVotes, CountForward
<1>2. p \in Honest /\ HonestInv'
  BY <1>1 DEF TakeProposal, HonestInv
<1>3. CASE AcceptBlock(n)
  <2>1. /\ addNewBlock(n, p.block)
        /\ AcceptsForward(n, p)
    BY <1>3, Zenon DEF AcceptBlock, CountForward
  <2> HIDE DEF p
  <2>2. p.cert.hash = EmptyHash \/ p.cert.hash \in BlocksByHash[n]
    BY <2>1, Zenon DEF AcceptsForward, CertPanics
  <2> QED
    BY <1>2, <2>1, <2>2, ChainGrows, ZenonT(30) DEF Honest, Proposal
<1>4. CASE ~AcceptBlock(n)
  <2>1. UNCHANGED chainVars
    BY <1>4, ZenonT(30) DEF HandleForward, RejectForward, DetectEquivocation,
       AwaitForwards, LeaderVotes
  <2> QED
    BY <1>2, <2>1, ChainFrame, Zenon DEF chainVars
<1> QED
  BY <1>3, <1>4, ZenonT(30)

\* Every step keeps the proposals honest and the parents delivered.
LEMMA ChainStep == TInv /\ HonestInv /\ DeliveredParents /\ [Next]_vars
                     => HonestInv' /\ DeliveredParents'
<1> SUFFICES ASSUME TInv, HonestInv, DeliveredParents, [Next]_vars
             PROVE  HonestInv' /\ DeliveredParents'
  OBVIOUS
<1>1. CASE UNCHANGED <<chainVars, propNet, proposeChannel>>
  BY <1>1, ChainFrame, Zenon DEF chainVars, HonestInv
<1>2. ASSUME NEW n \in Node, NEW m \in propNet, Dispatch(n, m)
      PROVE  HonestInv' /\ DeliveredParents'
  BY <1>2, ChainDispatch, ChainFrame, Zenon DEF Dispatch, chainVars
<1>3. ASSUME NEW n \in Node, NEW x,
             \/ StartWithoutProposal(n) \/ CastVote(n, x) \/ HandleVote(n, x)
             \/ addCert(n, x) \/ TimerFires(n) \/ Callback(n) \/ PeerLost(n)
      PROVE  UNCHANGED <<chainVars, propNet, proposeChannel>>
  BY <1>3, Zenon DEF StartWithoutProposal, CastVote, HandleVote, AccuseVoter,
     DropDuplicateVote, CountVote, ReceiveVote, addCert, TimerFires, Callback,
     RetryView, Commit, Rotate, PeerLost
<1>4. CASE UNCHANGED vars
  BY <1>1, <1>4 DEF vars
<1> QED
  BY <1>1, <1>2, <1>3, <1>4, ChainStart, ChainForward, ZenonT(30)
  DEF Next, HandleMessage, Start

\* No gap below a block taken over from another node, for any number of
\* replicas and any timing.
THEOREM ParentsAreDelivered == Spec => []DeliveredParents
<1>1. Init => HonestInv /\ DeliveredParents
  <2>1. Init => HonestInv
    BY SMTT(30) DEF Init, HonestInv
  <2>2. Init => DeliveredParents
    <3>1. Init => \A n \in Node : DOMAIN BlocksByHeight[n] = {}
      BY SMTT(30) DEF Init
    <3> QED
      BY <3>1, SMTT(30) DEF DeliveredParents
  <2> QED
    BY <2>1, <2>2, SMTT(30)
<1> QED
  BY <1>1, TInvInit, TInvStep, ChainStep, PTL DEF Spec

-------------------------------------------------------------------------------
\* Certificates and the reputations that back them: the invariant links the
\* callback, which writes the reputations, to voteHandler and addCert, which
\* read them and write the certificates in other goroutines.

\* What the certificates' safety rests on.  The reputations of the current
\* view are known, and after the timer those of the next one; a certificate
\* is stored, or waits in one addCert, only for a view that isCertified
\* marks, and never both.
CertInv ==
  \A n \in Node :
    /\ view[n] \in DOMAIN reputationMap[n]
    /\ phase[n] \in {"decide", "empty"} => view[n] + 1 \in DOMAIN reputationMap[n]
    /\ isCertified[n] \subseteq 1..view[n]
    /\ DOMAIN certMap[n] \subseteq isCertified[n] \cup {0}
    /\ \A t \in certTasks[n] : t.index \in isCertified[n] \ DOMAIN certMap[n]
    /\ \A t, u \in certTasks[n] : t.index = u.index => t = u

certVars == <<view, reputationMap, isCertified, certMap, certTasks>>

\* Before the first round the genesis certificate is the only one.
LEMMA CertInvInit == Init => CertInv /\ CertWeight
BY DEF Init, CertInv, CertWeight

\* Views only grow, and the reputations of views up to the current one stay.
LEMMA RepStep ==
  ASSUME TInv, [Next]_vars, NEW n \in Node
  PROVE  /\ view[n] <= view'[n]
         /\ \A v \in DOMAIN reputationMap[n] :
              v <= view[n] => /\ v \in DOMAIN reputationMap'[n]
                              /\ reputationMap'[n][v] = reputationMap[n][v]
<1> /\ view \in [Node -> Nat \ {0}]
    /\ DOMAIN reputationMap = Node
    /\ DOMAIN reputationMap[n] \subseteq Nat
  BY ZenonT(30) DEF TInv, TypeOK, IsMapOf
<1>1. CASE UNCHANGED <<view, reputationMap>>
  BY <1>1, SMTT(30)
<1>2. ASSUME NEW m \in Node, TimerFires(m)
      PROVE  /\ view'[n] = view[n]
             /\ \A v \in DOMAIN reputationMap[n] :
                  v <= view[n] => /\ v \in DOMAIN reputationMap'[n]
                                  /\ reputationMap'[n][v] = reputationMap[n][v]
  <2> DEFINE r == [id \in Node |->
                     ReputationCalculateinCurrentRound(transcript[m], id)]
  <2>1. /\ UNCHANGED view
        /\ reputationMap' = [reputationMap EXCEPT ![m] =
                              Put(@, view[m] + 1, r)]
    BY <1>2, Zenon DEF TimerFires, addNewViewReputaiontoMap
  <2> HIDE DEF r
  <2>2. CASE m = n
    BY <2>1, <2>2, SMTT(30) DEF Put
  <2>3. CASE m # n
    BY <2>1, <2>3, ZenonT(30)
  <2> QED
    BY <2>2, <2>3, Zenon
<1>3. ASSUME NEW m \in Node, Commit(m)
      PROVE  view[n] <= view'[n] /\ UNCHANGED reputationMap
  <2>1. view' = view \/ view' = [view EXCEPT ![m] = @ + 1]
    BY <1>3, Zenon DEF Commit
  <2> QED
    BY <1>3, <2>1, SMTT(30) DEF Commit, repVars
<1>4. ASSUME NEW m \in Node, Start(m) \/ RetryView(m) \/ Rotate(m) \/ PeerLost(m)
      PROVE  UNCHANGED <<view, reputationMap>>
  BY <1>4, Zenon DEF Start, Propose, StartWithoutProposal, RetryView, Rotate, PeerLost,
     roundVars, repVars
<1>5. ASSUME NEW m \in Node, HandleMessage(m, propNet, voteNet)
      PROVE  UNCHANGED <<view, reputationMap>>
  <2>1. ASSUME NEW x, Dispatch(m, x)
        PROVE  UNCHANGED <<view, reputationMap>>
    BY <2>1, ZenonT(30) DEF Dispatch, roundVars, repVars
  <2>2. ASSUME HandleForward(m)
        PROVE  UNCHANGED <<view, reputationMap>>
    BY <2>2, ZenonT(30) DEF HandleForward, RejectForward, DetectEquivocation,
       AwaitForwards, AcceptBlock, LeaderVotes, CountForward, roundVars, repVars
  <2>3. ASSUME NEW x, CastVote(m, x) \/ HandleVote(m, x) \/ addCert(m, x)
        PROVE  UNCHANGED <<view, reputationMap>>
    BY <2>3, ZenonT(30) DEF CastVote, HandleVote, AccuseVoter, DropDuplicateVote, CountVote,
       ReceiveVote, addCert, roundVars, repVars
  <2> QED
    BY <1>5, <2>1, <2>2, <2>3, Zenon DEF HandleMessage
<1>6. CASE UNCHANGED vars
  BY <1>1, <1>6, ZenonT(30) DEF vars, roundVars, repVars
<1>7. PICK m \in Node : \/ Start(m) \/ RetryView(m) \/ Rotate(m) \/ PeerLost(m)
                        \/ HandleMessage(m, propNet, voteNet)
                        \/ TimerFires(m) \/ Commit(m) \/ UNCHANGED vars
  BY ZenonT(30) DEF Next, Callback
<1>8. CASE TimerFires(m)
  <2>1. view[n] <= view[n]
    BY SMTT(30)
  <2> QED
    BY <1>2, <1>8, <2>1, ZenonT(30)
<1>9. CASE Commit(m)
  BY <1>3, <1>9, ZenonT(30)
<1> QED
  BY <1>1, <1>4, <1>5, <1>6, <1>7, <1>8, <1>9, ZenonT(30)

\* Steps that touch none of this and do not fire the timer.
LEMMA CertFrame ==
  ASSUME CertInv, CertWeight, UNCHANGED certVars,
         \A m \in Node : phase'[m] \in {"decide", "empty"} => phase'[m] = phase[m]
  PROVE  CertInv' /\ CertWeight'
<1>1. CertInv'
  BY ZenonT(30) DEF CertInv, certVars
<1>2. CertWeight'
  BY SMTT(30) DEF CertWeight, certVars
<1> QED
  BY <1>1, <1>2, ZenonT(30)

\* The vote that makes the certificate leaves one addCert for its view.
LEMMA CertCountVote ==
  ASSUME TInv, CertInv, CertWeight, NEW n \in Node, NEW m \in voteNet,
         CountVote(n, m)
  PROVE  CertInv' /\ CertWeight'
<1> DEFINE votes == Tallied(n) \cup {m.vote}
           t == [index |-> view[n], cert |-> NewCert(votes, m.vote)]
<1>1. UNCHANGED <<view, phase, reputationMap, certMap>>
  BY SMTT(30) DEF CountVote, ReceiveVote, roundVars
<1>2. CASE isCertified' = isCertified /\ certTasks' = certTasks
  <2>1. UNCHANGED certVars
    BY <1>1, <1>2, SMTT(30) DEF certVars
  <2> QED
    BY <1>1, <2>1, CertFrame, Zenon
<1>3. CASE ~(isCertified' = isCertified /\ certTasks' = certTasks)
  <2>1. /\ view[n] \notin isCertified[n]
        /\ EnoughReputation(n, votes)
        /\ isCertified' = [isCertified EXCEPT ![n] = @ \cup {view[n]}]
        /\ certTasks' = [certTasks EXCEPT ![n] = @ \cup {t}]
    BY <1>3, Zenon DEF CountVote, voteVars, AlreadyCertified
  <2>2. /\ GetSigners(t.cert) = {w.voter : w \in votes}
        /\ t.index = view[n]
    BY Zenon DEF GetSigners, NewCert
  <2>3. ExceedsBenchMark(reputationMap[n][view[n]], GetSigners(t.cert))
    BY <2>1, <2>2, Zenon DEF EnoughReputation
  <2> HIDE DEF t, votes
  <2>4. /\ view[n] \in Nat \ {0}
        /\ isCertified \in [Node -> SUBSET Nat]
        /\ certTasks \in [Node -> SUBSET [index : Nat, cert : Cert]]
    BY Zenon DEF TInv, TypeOK
  <2>5. CertInv'
    <3> SUFFICES ASSUME NEW x \in Node
                 PROVE  CertInv!(x)'
      BY Zenon DEF CertInv
    <3>0. CertInv!(x)
      BY Zenon DEF CertInv
    <3>1. CASE x # n
      <4>1. certTasks'[x] = certTasks[x] /\ isCertified'[x] = isCertified[x]
        BY <2>1, <2>4, <3>1, ZenonT(30)
      <4> QED
        BY <1>1, <3>0, <4>1, ZenonT(30)
    <3>2. CASE x = n
      <4>1. /\ certTasks'[n] = certTasks[n] \cup {t}
            /\ isCertified'[n] = isCertified[n] \cup {view[n]}
            /\ view[n] \in 1..view[n] /\ view[n] # 0
        BY <2>1, <2>4, SMTT(30)
      <4>2. /\ view[n] \notin DOMAIN certMap[n]
            /\ \A u \in certTasks[n] : u.index # view[n]
        BY <2>1, <3>0, <3>2, <4>1, ZenonT(30)
      <4>3. \A u \in certTasks'[n] :
              u.index \in isCertified'[n] \ DOMAIN certMap'[n]
        BY <1>1, <2>2, <3>0, <3>2, <4>1, <4>2, ZenonT(30)
      <4>4. \A u, w \in certTasks'[n] : u.index = w.index => u = w
        BY <2>2, <3>0, <3>2, <4>1, <4>2, ZenonT(30)
      <4> QED
        BY <1>1, <3>0, <3>2, <4>1, <4>3, <4>4, ZenonT(30)
    <3> QED
      BY <3>1, <3>2, ZenonT(30)
  <2>6. CertWeight'
    <3>1. /\ certTasks'[n] = certTasks[n] \cup {t}
          /\ \A x \in Node \ {n} : certTasks'[x] = certTasks[x]
      BY <2>1, <2>4, ZenonT(30)
    <3>2. /\ t.index <= view[n]
          /\ t.index \in DOMAIN reputationMap[n]
          /\ ExceedsBenchMark(reputationMap[n][t.index], GetSigners(t.cert))
      BY <2>2, <2>3, <2>4, SMTT(30) DEF CertInv
    <3> QED
      BY <1>1, <3>1, <3>2, SMTT(30) DEF CertWeight
  <2> QED
    BY <2>5, <2>6, Zenon
<1> QED
  BY <1>2, <1>3, ZenonT(30)

\* addCert stores the certificate of a view that had none.
LEMMA CertAddCert ==
  ASSUME TInv, CertInv, CertWeight, NEW n \in Node, NEW t \in certTasks[n],
         addCert(n, t)
  PROVE  CertInv' /\ CertWeight'
<1>1. /\ UNCHANGED <<view, phase, reputationMap, isCertified>>
      /\ certMap' = [certMap EXCEPT ![n] = Put(@, t.index, t.cert)]
      /\ certTasks' = [certTasks EXCEPT ![n] = @ \ {t}]
  BY ZenonT(30) DEF addCert, roundVars, repVars, voteVars
<1>2. /\ DOMAIN certMap = Node
      /\ certTasks \in [Node -> SUBSET [index : Nat, cert : Cert]]
  BY Zenon DEF TInv, TypeOK, IsMapOf
<1>3. /\ DOMAIN certMap'[n] = DOMAIN certMap[n] \cup {t.index}
      /\ certMap'[n][t.index] = t.cert
      /\ \A i \in DOMAIN certMap[n] \ {t.index} : certMap'[n][i] = certMap[n][i]
      /\ \A m \in Node \ {n} : certMap'[m] = certMap[m]
  BY <1>1, <1>2, ZenonT(30) DEF Put
<1>4. /\ certTasks'[n] = certTasks[n] \ {t}
      /\ \A m \in Node \ {n} : certTasks'[m] = certTasks[m]
  BY <1>1, <1>2, ZenonT(30)
<1>5. CertInv'
  BY <1>1, <1>3, <1>4, SMTT(30) DEF CertInv
<1>6. CertWeight'
  <2>1. \A m \in Node \ {n} :
          certMap'[m] = certMap[m] /\ certTasks'[m] = certTasks[m]
    BY <1>3, <1>4, ZenonT(30)
  <2>2. \A i \in DOMAIN certMap'[n] \ {0} :
          \/ i \in DOMAIN certMap[n] \ {0} /\ certMap'[n][i] = certMap[n][i]
          \/ i = t.index /\ certMap'[n][i] = t.cert
    BY <1>3, Zenon
  <2>3. certTasks'[n] \subseteq certTasks[n]
    BY <1>4, ZenonT(30)
  <2> SUFFICES ASSUME NEW m \in Node
               PROVE  /\ \A i \in DOMAIN certMap'[m] \ {0} :
                           /\ i <= view[m]
                           /\ i \in DOMAIN reputationMap[m]
                           /\ ExceedsBenchMark(reputationMap[m][i],
                                               GetSigners(certMap'[m][i]))
                      /\ \A u \in certTasks'[m] :
                           /\ u.index <= view[m]
                           /\ u.index \in DOMAIN reputationMap[m]
                           /\ ExceedsBenchMark(reputationMap[m][u.index],
                                               GetSigners(u.cert))
    BY <1>1, ZenonT(30) DEF CertWeight
  <2>4. CASE m = n
    BY <2>2, <2>3, <2>4, SMTT(30) DEF CertWeight
  <2>5. CASE m # n
    BY <2>1, <2>5, SMTT(30) DEF CertWeight
  <2> QED
    BY <2>4, <2>5, Zenon
<1> QED
  BY <1>5, <1>6, Zenon

\* The timer and the commit change no certificate; RepStep does the rest.
LEMMA CertRound ==
  ASSUME TInv, CertInv, CertWeight, NEW n \in Node, TimerFires(n) \/ Commit(n)
  PROVE  CertInv' /\ CertWeight'
<1>1. UNCHANGED <<isCertified, certMap, certTasks>>
  BY SMTT(30) DEF TimerFires, Commit, voteVars
<1>2. [Next]_vars
  BY Zenon DEF Next, Callback
<1>3. \A m \in Node :
        /\ view[m] <= view'[m]
        /\ \A v \in DOMAIN reputationMap[m] :
             v <= view[m] => /\ v \in DOMAIN reputationMap'[m]
                             /\ reputationMap'[m][v] = reputationMap[m][v]
  BY <1>2, RepStep, ZenonT(30)
<1>4. /\ view \in [Node -> Nat \ {0}]
      /\ phase \in [Node -> Phase]
      /\ DOMAIN reputationMap = Node
  BY Zenon DEF TInv, TypeOK, IsMapOf
<1>5. \A m \in Node : view'[m] \in Nat
  BY <1>2, TInvStep, ZenonT(30) DEF TInv, TypeOK
<1>6. CertWeight'
  <2>1. ASSUME NEW m \in Node, NEW i \in Nat, NEW c, i <= view[m],
               i \in DOMAIN reputationMap[m],
               ExceedsBenchMark(reputationMap[m][i], GetSigners(c))
        PROVE  /\ i <= view'[m]
               /\ i \in DOMAIN reputationMap'[m]
               /\ ExceedsBenchMark(reputationMap'[m][i], GetSigners(c))
    <3>1. i \in DOMAIN reputationMap'[m] /\ reputationMap'[m][i] = reputationMap[m][i]
      BY <1>3, <2>1, ZenonT(30)
    <3>2. i <= view'[m]
      BY <1>3, <1>4, <1>5, <2>1, SMTT(30)
    <3> QED
      BY <2>1, <3>1, <3>2, ZenonT(30)
  <2>2. \A m \in Node : /\ DOMAIN certMap[m] \subseteq Nat
                        /\ \A t \in certTasks[m] : t.index \in Nat
    <3>1. \A m \in Node : DOMAIN certMap[m] \subseteq Nat
      BY ZenonT(30) DEF TInv, TypeOK, IsMapOf
    <3>2. certTasks \in [Node -> SUBSET [index : Nat, cert : Cert]]
      BY DEF TInv, TypeOK
    <3>3. \A m \in Node : \A t \in certTasks[m] : t.index \in Nat
      BY <3>2, SMTT(30)
    <3> QED
      BY <3>1, <3>3, Zenon
  <2> SUFFICES ASSUME NEW m \in Node
               PROVE  /\ \A i \in DOMAIN certMap[m] \ {0} :
                           /\ i <= view'[m]
                           /\ i \in DOMAIN reputationMap'[m]
                           /\ ExceedsBenchMark(reputationMap'[m][i],
                                               GetSigners(certMap[m][i]))
                      /\ \A t \in certTasks[m] :
                           /\ t.index <= view'[m]
                           /\ t.index \in DOMAIN reputationMap'[m]
                           /\ ExceedsBenchMark(reputationMap'[m][t.index],
                                               GetSigners(t.cert))
    BY <1>1, Zenon DEF CertWeight
  <2>3. ASSUME NEW i \in DOMAIN certMap[m] \ {0}
        PROVE  /\ i <= view'[m]
               /\ i \in DOMAIN reputationMap'[m]
               /\ ExceedsBenchMark(reputationMap'[m][i], GetSigners(certMap[m][i]))
    <3>1. /\ i \in Nat
          /\ i <= view[m]
          /\ i \in DOMAIN reputationMap[m]
          /\ ExceedsBenchMark(reputationMap[m][i], GetSigners(certMap[m][i]))
      BY <2>2, Zenon DEF CertWeight
    <3> QED
      BY <2>1, <3>1, Zenon
  <2>4. ASSUME NEW t \in certTasks[m]
        PROVE  /\ t.index <= view'[m]
               /\ t.index \in DOMAIN reputationMap'[m]
               /\ ExceedsBenchMark(reputationMap'[m][t.index], GetSigners(t.cert))
    <3>1. /\ t.index \in Nat
          /\ t.index <= view[m]
          /\ t.index \in DOMAIN reputationMap[m]
          /\ ExceedsBenchMark(reputationMap[m][t.index], GetSigners(t.cert))
      BY <2>2, Zenon DEF CertWeight
    <3> QED
      BY <2>1, <3>1, ZenonT(30)
  <2> QED
    BY <2>3, <2>4, Zenon
<1>7. \A m \in Node :
        /\ view'[m] \in DOMAIN reputationMap'[m]
        /\ phase'[m] \in {"decide", "empty"} =>
             view'[m] + 1 \in DOMAIN reputationMap'[m]
  <2>1. CASE TimerFires(n)
    <3>1. UNCHANGED view
      BY <2>1, Zenon DEF TimerFires
    <3>2. \A m \in Node \ {n} : phase'[m] = phase[m] /\ reputationMap'[m] = reputationMap[m]
      BY <1>4, <2>1, ZenonT(30) DEF TimerFires
    <3>3. view[n] + 1 \in DOMAIN reputationMap'[n]
      BY <1>4, <2>1, Zenon DEF TimerFires, addNewViewReputaiontoMap, Put
    <3> QED
      BY <1>3, <1>4, <3>1, <3>2, <3>3, ZenonT(30) DEF CertInv
  <2>2. CASE Commit(n)
    <3>1. UNCHANGED reputationMap
      BY <2>2, Zenon DEF Commit, repVars
    <3>2. \/ UNCHANGED <<view, phase>>
          \/ /\ phase[n] \in {"decide", "empty"}
             /\ view' = [view EXCEPT ![n] = @ + 1]
             /\ phase' = [phase EXCEPT ![n] = "rotate"]
      BY <2>2, Zenon DEF Commit
    <3>3. CASE UNCHANGED <<view, phase>>
      BY <3>1, <3>3, Zenon DEF CertInv
    <3>4. CASE /\ phase[n] \in {"decide", "empty"}
               /\ view' = [view EXCEPT ![n] = @ + 1]
               /\ phase' = [phase EXCEPT ![n] = "rotate"]
      <4>1. /\ view'[n] = view[n] + 1 /\ phase'[n] = "rotate"
            /\ \A m \in Node \ {n} : view'[m] = view[m] /\ phase'[m] = phase[m]
        BY <1>4, <3>4, Zenon
      <4> QED
        BY <3>1, <3>4, <4>1, ZenonT(30) DEF CertInv
    <3> QED
      BY <3>2, <3>3, <3>4, Zenon
  <2> QED
    BY <2>1, <2>2, Zenon
<1>8. \A m \in Node : 1..view[m] \subseteq 1..view'[m]
  BY <1>3, <1>4, <1>5, SMTT(30)
<1>9. CertInv'
  BY <1>1, <1>7, <1>8, ZenonT(30) DEF CertInv
<1> QED
  BY <1>6, <1>9, Zenon

\* Every step keeps the certificates of a node backed.
LEMMA CertStep == TInv /\ CertInv /\ CertWeight /\ [Next]_vars
                    => CertInv' /\ CertWeight'
<1> SUFFICES ASSUME TInv, CertInv, CertWeight, [Next]_vars
             PROVE  CertInv' /\ CertWeight'
  OBVIOUS
<1> USE DEF certVars
<1> phase \in [Node -> Phase]
  BY SMTT(30) DEF TInv, TypeOK
<1>1. CASE UNCHANGED vars
  BY <1>1, CertFrame, Zenon DEF vars, roundVars, repVars, voteVars
<1>2. ASSUME NEW n \in Node, Start(n) PROVE CertInv' /\ CertWeight'
  <2>1. UNCHANGED certVars /\ phase' = [phase EXCEPT ![n] = "armed"]
    BY <1>2, Zenon DEF Start, Propose, StartWithoutProposal, startConsensusTimer,
       repVars, voteVars
  <2> QED
    BY <2>1, CertFrame, ZenonT(30)
<1>3. ASSUME NEW n \in Node, RetryView(n) \/ Rotate(n)
      PROVE  CertInv' /\ CertWeight'
  <2>1. UNCHANGED certVars /\ phase' = [phase EXCEPT ![n] = "ready"]
    BY <1>3, Zenon DEF RetryView, Rotate, repVars, voteVars
  <2> QED
    BY <2>1, CertFrame, ZenonT(30)
<1>4. ASSUME NEW n \in Node, PeerLost(n) PROVE CertInv' /\ CertWeight'
  BY <1>4, CertFrame, ZenonT(30) DEF PeerLost, roundVars, repVars, voteVars
<1>5. ASSUME NEW n \in Node, NEW m \in propNet, Dispatch(n, m)
      PROVE  CertInv' /\ CertWeight'
  BY <1>5, CertFrame, Zenon DEF Dispatch, roundVars, repVars, voteVars
<1>6. ASSUME NEW n \in Node, HandleForward(n) PROVE CertInv' /\ CertWeight'
  <2>1. UNCHANGED <<certVars, phase>>
    BY <1>6, Zenon DEF HandleForward, RejectForward, DetectEquivocation, AwaitForwards,
       AcceptBlock, LeaderVotes, CountForward, roundVars, repVars, voteVars
  <2> QED
    BY <2>1, CertFrame, ZenonT(30)
<1>7. ASSUME NEW n \in Node, NEW p \in voteTasks[n], CastVote(n, p)
      PROVE  CertInv' /\ CertWeight'
  BY <1>7, CertFrame, ZenonT(30) DEF CastVote, roundVars, voteVars
<1>8. ASSUME NEW n \in Node, NEW m \in voteNet, HandleVote(n, m)
      PROVE  CertInv' /\ CertWeight'
  <2>1. CASE AccuseVoter(n, m) \/ DropDuplicateVote(n, m)
    BY <2>1, CertFrame, ZenonT(30) DEF AccuseVoter, DropDuplicateVote, ReceiveVote,
       roundVars, voteVars
  <2> QED
    BY <1>8, <2>1, CertCountVote, Zenon DEF HandleVote
<1> QED
  BY <1>1, <1>2, <1>3, <1>4, <1>5, <1>6, <1>7, <1>8, CertAddCert, CertRound, ZenonT(30)
  DEF Next, HandleMessage, Callback

\* The invariants on certificates, together.
LEMMA CertInvariant == Spec => [](TInv /\ CertInv /\ CertWeight)
BY TInvInit, TInvStep, CertInvInit, CertStep, PTL DEF Spec

\* Every certificate that a replica holds or is storing is backed by more
\* than half of the reputation of its view, for any number of replicas and
\* any timing.
THEOREM CertificatesAreBacked == Spec => []CertWeight
BY CertInvariant, PTL

\* No certificate is ever replaced, for any number of replicas and any timing.
THEOREM CertificatesAreFinal == Spec => CertsWriteOnce
<1> DEFINE Keeps == \A n \in Node : \A i \in DOMAIN certMap[n] :
             i \in DOMAIN certMap'[n] /\ certMap'[n][i] = certMap[n][i]
<1>1. TInv /\ CertInv /\ [Next]_vars => [Keeps]_vars
  <2> SUFFICES ASSUME TInv, CertInv, [Next]_vars PROVE Keeps
    OBVIOUS
  <2>1. CASE UNCHANGED certMap
    BY <2>1, ZenonT(30)
  <2>2. ASSUME NEW n \in Node, NEW t \in certTasks[n], addCert(n, t)
        PROVE  Keeps
    <3>1. DOMAIN certMap = Node
      BY Zenon DEF TInv, TypeOK, IsMapOf
    <3>2. t.index \notin DOMAIN certMap[n]
      BY Zenon DEF CertInv
    <3> QED
      BY <2>2, <3>1, <3>2, Zenon DEF addCert, Put
  <2>3. ASSUME NEW n \in Node,
               Start(n) \/ TimerFires(n) \/ Callback(n) \/ PeerLost(n)
        PROVE  UNCHANGED certMap
    BY <2>3, ZenonT(30) DEF Start, Propose, StartWithoutProposal, TimerFires, Callback,
       RetryView, Commit, Rotate, PeerLost
  <2>4. ASSUME NEW n \in Node, HandleForward(n)
        PROVE  UNCHANGED certMap
    BY <2>4, Zenon DEF HandleForward, RejectForward, DetectEquivocation,
       AwaitForwards, AcceptBlock, LeaderVotes, CountForward
  <2>5. ASSUME NEW n \in Node, NEW x,
               Dispatch(n, x) \/ CastVote(n, x) \/ HandleVote(n, x)
        PROVE  UNCHANGED certMap
    BY <2>5, ZenonT(30) DEF Dispatch, CastVote, HandleVote, AccuseVoter, DropDuplicateVote,
       CountVote, ReceiveVote
  <2>6. CASE UNCHANGED vars
    BY <2>1, <2>6 DEF vars
  <2> QED
    BY <2>1, <2>2, <2>3, <2>4, <2>5, <2>6, ZenonT(30) DEF Next, HandleMessage
<1> QED
  BY <1>1, CertInvariant, PTL DEF Spec, CertsWriteOnce

-------------------------------------------------------------------------------
\* The signers of a certificate.

\* The miner of p, and the signer of v, hold the block, by the stores given.
Mined(store, p) == GetBlockHash(p.block) \in store[p.miner]
Held(store, v) == v.hash \in store[v.voter]

\* Blocks are on their way only from miners that hold them, a vote is cast
\* only for a block its voter holds, and votes are collected unchanged.
HoldInv ==
  /\ \A m \in propNet : Mined(BlocksByHash, m.prop)
  /\ \A n \in Node : \A i \in DOMAIN proposeChannel[n] :
       Mined(BlocksByHash, proposeChannel[n][i])
  /\ \A n \in Node : \A p \in voteTasks[n] :
       GetBlockHash(p.block) \in BlocksByHash[n]
  /\ \A m \in voteNet : Held(BlocksByHash, m.vote)
  /\ \A n \in Node : \A e \in tally[n] : Held(BlocksByHash, e[2])
  /\ \A n \in Node : \A t \in certTasks[n] : \A v \in t.cert.votes :
       Held(BlocksByHash, v)
  /\ SignersHoldBlock

\* No block is ever removed from BlocksByHash.
LEMMA StoresGrow ==
  ASSUME TInv, [Next]_vars, NEW n \in Node
  PROVE  BlocksByHash[n] \subseteq BlocksByHash'[n]
<1>1. BlocksByHash \in [Node -> SUBSET Hash]
  BY Zenon DEF TInv, TypeOK
<1>2. ASSUME NEW m \in Node, NEW b, addNewBlock(m, b)
      PROVE  BlocksByHash[n] \subseteq BlocksByHash'[n]
  BY <1>1, <1>2, SMTT(30) DEF addNewBlock
<1>3. CASE UNCHANGED BlocksByHash
  BY <1>3, Zenon
<1>4. ASSUME NEW m \in Node, Start(m) \/ TimerFires(m) \/ Callback(m) \/ PeerLost(m)
      PROVE  BlocksByHash[n] \subseteq BlocksByHash'[n]
  BY <1>2, <1>3, <1>4, ZenonT(30) DEF Start, Propose, StartWithoutProposal, TimerFires,
     Callback, RetryView, Commit, Rotate, PeerLost, chainVars
<1>5. ASSUME NEW m \in Node, HandleForward(m)
      PROVE  BlocksByHash[n] \subseteq BlocksByHash'[n]
  BY <1>2, <1>3, <1>5, ZenonT(30) DEF HandleForward, RejectForward,
     DetectEquivocation, AwaitForwards, AcceptBlock, LeaderVotes, chainVars
<1>6. ASSUME NEW m \in Node, NEW x,
             Dispatch(m, x) \/ CastVote(m, x) \/ HandleVote(m, x) \/ addCert(m, x)
      PROVE  UNCHANGED BlocksByHash
  BY <1>6, ZenonT(30) DEF Dispatch, CastVote, HandleVote, AccuseVoter,
     DropDuplicateVote, CountVote, ReceiveVote, addCert, chainVars
<1>7. CASE UNCHANGED vars
  BY <1>3, <1>7, Zenon DEF vars, chainVars
<1> QED
  BY <1>3, <1>4, <1>5, <1>6, <1>7, ZenonT(30) DEF Next, HandleMessage

\* So what the stores held of the messages and votes, they hold afterwards.
LEMMA HoldKept ==
  ASSUME TInv, HoldInv, [Next]_vars
  PROVE  /\ \A m \in propNet : Mined(BlocksByHash', m.prop)
         /\ \A n \in Node : \A i \in DOMAIN proposeChannel[n] :
              Mined(BlocksByHash', proposeChannel[n][i])
         /\ \A n \in Node : \A p \in voteTasks[n] :
              GetBlockHash(p.block) \in BlocksByHash'[n]
         /\ \A m \in voteNet : Held(BlocksByHash', m.vote)
         /\ \A n \in Node : \A e \in tally[n] : Held(BlocksByHash', e[2])
         /\ \A n \in Node : \A t \in certTasks[n] : \A v \in t.cert.votes :
              Held(BlocksByHash', v)
         /\ \A n \in Node : \A i \in DOMAIN certMap[n] :
              \A v \in certMap[n][i].votes : Held(BlocksByHash', v)
<1>1. ASSUME NEW p \in Proposal, Mined(BlocksByHash, p)
      PROVE  Mined(BlocksByHash', p)
  BY <1>1, StoresGrow, Zenon DEF Mined, Proposal
<1>2. ASSUME NEW v \in Vote, Held(BlocksByHash, v)
      PROVE  Held(BlocksByHash', v)
  BY <1>2, StoresGrow, Zenon DEF Held, Vote
<1>3. \A m \in propNet : m.prop \in Proposal
  BY SMTT(30) DEF TInv, TypeOK
<1>4. \A n \in Node : \A i \in DOMAIN proposeChannel[n] :
        proposeChannel[n][i] \in Proposal
  BY SMTT(30) DEF TInv, TypeOK
<1>5. \A m \in voteNet : m.vote \in Vote
  BY SMTT(30) DEF TInv, TypeOK
<1>6. \A n \in Node : \A e \in tally[n] : e[2] \in Vote
  BY SMTT(30) DEF TInv, TypeOK
<1>7. \A n \in Node : \A t \in certTasks[n] : \A v \in t.cert.votes : v \in Vote
  <2>1. certTasks \in [Node -> SUBSET [index : Nat, cert : Cert]]
    BY Zenon DEF TInv, TypeOK
  <2> QED
    BY <2>1, SMTT(30) DEF Cert
<1>8. \A n \in Node : \A i \in DOMAIN certMap[n] :
        \A v \in certMap[n][i].votes : v \in Vote /\ Held(BlocksByHash, v)
  <2>1. \A n \in Node : \A i \in DOMAIN certMap[n] : certMap[n][i] \in Cert
    BY Zenon DEF TInv, TypeOK, IsMapOf
  <2> QED
    BY <2>1, ZenonT(30) DEF Cert, HoldInv, SignersHoldBlock, Held
<1>9. \A n \in Node : \A p \in voteTasks[n] :
        GetBlockHash(p.block) \in BlocksByHash'[n]
  BY StoresGrow, Zenon DEF HoldInv
<1>10. /\ \A m \in propNet : Mined(BlocksByHash', m.prop)
       /\ \A n \in Node : \A i \in DOMAIN proposeChannel[n] :
            Mined(BlocksByHash', proposeChannel[n][i])
  BY <1>1, <1>3, <1>4, ZenonT(30) DEF HoldInv
<1>11. \A m \in voteNet : Held(BlocksByHash', m.vote)
  BY <1>2, <1>5, ZenonT(30) DEF HoldInv
<1>12. \A n \in Node : \A e \in tally[n] : Held(BlocksByHash', e[2])
  BY <1>2, <1>6, ZenonT(30) DEF HoldInv
<1>13. \A n \in Node : \A t \in certTasks[n] : \A v \in t.cert.votes :
         Held(BlocksByHash', v)
  BY <1>2, <1>7, ZenonT(30) DEF HoldInv
<1>14. \A n \in Node : \A i \in DOMAIN certMap[n] :
         \A v \in certMap[n][i].votes : Held(BlocksByHash', v)
  BY <1>2, <1>8, ZenonT(30)
<1> QED
  BY <1>9, <1>10, <1>11, <1>12, <1>13, <1>14, Zenon

\* What is held of what is left, when nothing is added to any collection.
LEMMA HoldFrame ==
  ASSUME TInv, HoldInv, [Next]_vars,
         propNet' \subseteq propNet, voteNet' \subseteq voteNet,
         \A n \in Node : voteTasks'[n] \subseteq voteTasks[n],
         UNCHANGED <<proposeChannel, tally, certTasks, certMap>>
  PROVE  HoldInv'
BY HoldKept, ZenonT(30) DEF HoldInv, SignersHoldBlock, Held

\* A broadcast of a proposal carries that proposal.
LEMMA OneProposal ==
  ASSUME NEW n, NEW p, NEW m \in Broadcast(n, p) PROVE m.prop = p
BY DEF Broadcast

\* A broadcast of a vote carries that vote.
LEMMA OneVote ==
  ASSUME NEW w, NEW x \in {[to |-> m, vote |-> w] : m \in Node}
  PROVE  x.vote = w
OBVIOUS

\* A proposer stores its block before it sends it.
LEMMA HoldPropose ==
  ASSUME TInv, HoldInv, NEW n \in Node, Propose(n)
  PROVE  HoldInv'
<1> DEFINE p == NewCandidateProposal(n, certMap[n][head[n]], head[n] + 1, "nil")
<1>1. [Next]_vars
  BY Zenon DEF Next, Start
<1>2. p.miner = n
  BY Zenon DEF NewCandidateProposal
<1>3. /\ addNewBlock(n, p.block)
      /\ propNet' = propNet \cup Broadcast(n, p)
      /\ UNCHANGED <<proposeChannel, voteTasks, voteNet, tally, certTasks, certMap>>
  BY ZenonT(30) DEF Propose, voteVars
<1> HIDE DEF p
<1>4. Mined(BlocksByHash', p)
  <2>1. BlocksByHash \in [Node -> SUBSET Hash]
    BY Zenon DEF TInv, TypeOK
  <2> QED
    BY <1>2, <1>3, <2>1, ZenonT(30) DEF Mined, addNewBlock
<1>5. \A m \in propNet' : Mined(BlocksByHash', m.prop)
  <2>1. \A m \in Broadcast(n, p) : m.prop = p
    BY OneProposal, Zenon
  <2> QED
    BY <1>1, <1>3, <1>4, <2>1, HoldKept, ZenonT(30)
<1> QED
  BY <1>1, <1>3, <1>5, HoldKept, ZenonT(30) DEF HoldInv, SignersHoldBlock, Held

\* A forward is a copy of the proposal with another sender.
LEMMA HoldDispatch ==
  ASSUME TInv, HoldInv, NEW n \in Node, NEW m \in propNet, Dispatch(n, m)
  PROVE  HoldInv'
<1>1. [Next]_vars
  BY Zenon DEF Next, HandleMessage
<1>2. /\ UNCHANGED <<voteTasks, voteNet, tally, certTasks, certMap>>
      /\ Mined(BlocksByHash', m.prop)
      /\ proposeChannel \in [Node -> Seq(Proposal)]
      /\ m.prop \in Proposal
  <2>1. /\ proposeChannel \in [Node -> Seq(Proposal)]
        /\ m.prop \in Proposal
    BY Zenon DEF TInv, TypeOK
  <2> QED
    BY <1>1, <2>1, HoldKept, ZenonT(30) DEF Dispatch, voteVars
<1>3. ASSUME NEW q, Mined(BlocksByHash', q), q \in Proposal,
             propNet' \subseteq propNet \cup Broadcast(n, q),
             proposeChannel' = [proposeChannel EXCEPT ![n] = Append(@, q)]
      PROVE  HoldInv'
  <2>1. \A x \in propNet' : Mined(BlocksByHash', x.prop)
    <3>1. \A x \in Broadcast(n, q) : x.prop = q
      BY OneProposal, Zenon
    <3> QED
      BY <1>1, <1>3, <3>1, HoldKept, ZenonT(30)
  <2>2. ASSUME NEW k \in Node, NEW i \in DOMAIN proposeChannel'[k]
        PROVE  Mined(BlocksByHash', proposeChannel'[k][i])
    <3>1. \/ proposeChannel'[k][i] = q
          \/ i \in DOMAIN proposeChannel[k] /\ proposeChannel'[k][i] = proposeChannel[k][i]
      <4>1. CASE k = n
        <5>1. proposeChannel'[n] = Append(proposeChannel[n], q)
          BY <1>2, <1>3, Zenon
        <5>2. proposeChannel[n] \in Seq(Proposal)
          BY <1>2, Zenon
        <5> QED
          BY <1>3, <2>2, <4>1, <5>1, <5>2, SMTT(30)
      <4>2. CASE k # n
        BY <1>2, <1>3, <2>2, <4>2, Zenon
      <4> QED
        BY <4>1, <4>2, Zenon
    <3> QED
      BY <1>1, <1>3, <3>1, HoldKept, ZenonT(30)
  <2> QED
    BY <1>1, <1>2, <2>1, <2>2, HoldKept, ZenonT(30) DEF HoldInv, SignersHoldBlock, Held
<1>4. CASE Enqueue(n, m)
  BY <1>2, <1>3, <1>4, ZenonT(30) DEF Enqueue
<1>5. CASE Forward(n, m)
  <2> DEFINE q == [m.prop EXCEPT !.forwardSender = n, !.forwardSig = TRUE]
  <2>1. q \in Proposal /\ q.miner = m.prop.miner /\ q.block = m.prop.block
    BY <1>2, Zenon DEF Proposal
  <2>2. /\ propNet' \subseteq propNet \cup Broadcast(n, q)
        /\ proposeChannel' = [proposeChannel EXCEPT ![n] = Append(@, q)]
    BY <1>5, ZenonT(30) DEF Forward
  <2> HIDE DEF q
  <2> QED
    BY <1>2, <1>3, <2>1, <2>2, Zenon DEF Mined
<1>6. CASE ForwardFails(n, m)
  BY <1>1, <1>2, <1>6, HoldFrame, ZenonT(30) DEF ForwardFails
<1> QED
  BY <1>4, <1>5, <1>6, Zenon DEF Dispatch

\* A follower stores the block before it starts the goroutine that votes for
\* it; the leader votes for a block of its own.
LEMMA HoldForward ==
  ASSUME TInv, HoldInv, NEW n \in Node, HandleForward(n)
  PROVE  HoldInv'
<1> DEFINE p == proposeChannel[n][1]
<1>1. [Next]_vars
  BY Zenon DEF Next, HandleMessage
<1>2. /\ TakeProposal(n)
      /\ UNCHANGED <<propNet, tally, certTasks, certMap>>
  BY ZenonT(30) DEF HandleForward, RejectForward, DetectEquivocation,
     AwaitForwards, AcceptBlock, LeaderVotes, CountForward, voteVars
<1>3. /\ proposeChannel \in [Node -> Seq(Proposal)]
      /\ voteTasks \in [Node -> SUBSET Proposal]
      /\ BlocksByHash \in [Node -> SUBSET Hash]
  BY Zenon DEF TInv, TypeOK
<1>4. 1 \in DOMAIN proposeChannel[n] /\ p \in Proposal
  <2>1. proposeChannel[n] \in Seq(Proposal) /\ proposeChannel[n] # <<>>
    BY <1>2, <1>3, Zenon DEF TakeProposal
  <2> QED
    BY <2>1, SMTT(30)
<1>5. ASSUME NEW k \in Node, NEW i \in DOMAIN proposeChannel'[k]
      PROVE  Mined(BlocksByHash', proposeChannel'[k][i])
  <2>1. \E j \in DOMAIN proposeChannel[k] : proposeChannel'[k][i] = proposeChannel[k][j]
    <3>1. CASE k = n
      <4>1. proposeChannel'[n] = Tail(proposeChannel[n])
        BY <1>2, <1>3, Zenon DEF TakeProposal
      <4>2. proposeChannel[n] \in Seq(Proposal) /\ proposeChannel[n] # <<>>
        BY <1>2, <1>3, Zenon DEF TakeProposal
      <4>3. i + 1 \in DOMAIN proposeChannel[n] /\ proposeChannel'[n][i] = proposeChannel[n][i + 1]
        BY <1>5, <3>1, <4>1, <4>2, SMTT(30)
      <4> QED
        BY <3>1, <4>3, Zenon
    <3>2. CASE k # n
      BY <1>2, <1>3, <1>5, <3>2, Zenon DEF TakeProposal
    <3> QED
      BY <3>1, <3>2, Zenon
  <2> QED
    BY <1>1, <2>1, HoldKept, ZenonT(30)
<1>6. ASSUME \A k \in Node : \A x \in voteTasks'[k] :
               GetBlockHash(x.block) \in BlocksByHash'[k],
             \A x \in voteNet' : Held(BlocksByHash', x.vote)
      PROVE  HoldInv'
  BY <1>1, <1>2, <1>5, <1>6, HoldKept, ZenonT(30) DEF HoldInv, SignersHoldBlock, Held
<1>7. CASE AcceptBlock(n)
  <2>1. /\ addNewBlock(n, p.block)
        /\ voteTasks' = [voteTasks EXCEPT ![n] = @ \cup {p}]
        /\ UNCHANGED voteNet
    BY <1>7, Zenon DEF AcceptBlock
  <2> HIDE DEF p
  <2>2. GetBlockHash(p.block) \in BlocksByHash'[n]
    BY <1>3, <2>1, Zenon DEF addNewBlock
  <2>3. /\ voteTasks'[n] = voteTasks[n] \cup {p}
        /\ \A k \in Node \ {n} : voteTasks'[k] = voteTasks[k]
    BY <1>3, <2>1, Zenon
  <2>4. \A k \in Node : \A x \in voteTasks'[k] :
          GetBlockHash(x.block) \in BlocksByHash'[k]
    BY <1>1, <2>2, <2>3, HoldKept, ZenonT(30)
  <2> QED
    BY <1>1, <1>6, <2>1, <2>4, HoldKept, ZenonT(30)
<1>8. CASE LeaderVotes(n)
  <2>1. /\ p.miner = n
        /\ voteNet' = voteNet \cup {[to |-> m, vote |-> NewVote(n, p)] : m \in Node}
        /\ UNCHANGED voteTasks
    BY <1>8, Zenon DEF LeaderVotes, CountForward, AcceptsForward, SignedByLeader,
       voteForBlock
  <2>2. Held(BlocksByHash', NewVote(n, p))
    <3>1. Mined(BlocksByHash', p)
      BY <1>1, <1>4, HoldKept, Zenon
    <3> QED
      BY <2>1, <3>1, Zenon DEF Held, Mined, NewVote
  <2>3. \A x \in voteNet' : x \in voteNet \/ x.vote = NewVote(n, p)
    BY <2>1, OneVote, ZenonT(30)
  <2> QED
    BY <1>1, <1>6, <2>1, <2>2, <2>3, HoldKept, ZenonT(30)
<1>9. CASE RejectForward(n) \/ DetectEquivocation(n) \/ AwaitForwards(n)
  <2>1. UNCHANGED <<voteTasks, voteNet>>
    BY <1>9, ZenonT(30) DEF RejectForward, DetectEquivocation, AwaitForwards
  <2> QED
    BY <1>1, <1>6, <2>1, HoldKept, ZenonT(30)
<1> QED
  BY <1>7, <1>8, <1>9, Zenon DEF HandleForward

\* The goroutine votes for the block it was started with.
LEMMA HoldCastVote ==
  ASSUME TInv, HoldInv, NEW n \in Node, NEW p \in voteTasks[n], CastVote(n, p)
  PROVE  HoldInv'
<1>1. [Next]_vars
  BY Zenon DEF Next, HandleMessage
<1>2. /\ voteTasks' = [voteTasks EXCEPT ![n] = @ \ {p}]
      /\ voteNet' = voteNet \cup {[to |-> m, vote |-> NewVote(n, p)] : m \in Node}
      /\ UNCHANGED <<propNet, proposeChannel, tally, certTasks, certMap>>
  BY ZenonT(30) DEF CastVote, voteForBlock, voteVars
<1>3. Held(BlocksByHash', NewVote(n, p))
  BY <1>1, HoldKept, Zenon DEF Held, NewVote
<1>4. \A m \in voteNet' : Held(BlocksByHash', m.vote)
  <2>1. \A m \in voteNet' : m \in voteNet \/ m.vote = NewVote(n, p)
    BY <1>2, OneVote, ZenonT(30)
  <2> QED
    BY <1>1, <1>3, <2>1, HoldKept, ZenonT(30)
<1>5. \A k \in Node : voteTasks'[k] \subseteq voteTasks[k]
  <2>1. voteTasks \in [Node -> SUBSET Proposal]
    BY Zenon DEF TInv, TypeOK
  <2> QED
    BY <1>2, <2>1, SMTT(30)
<1> QED
  BY <1>1, <1>2, <1>4, <1>5, HoldKept, ZenonT(30) DEF HoldInv, SignersHoldBlock, Held

\* A certificate is made of votes that were received.
LEMMA HoldCountVote ==
  ASSUME TInv, HoldInv, NEW n \in Node, NEW m \in voteNet, CountVote(n, m)
  PROVE  HoldInv'
<1> DEFINE votes == Tallied(n) \cup {m.vote}
           t == [index |-> view[n], cert |-> NewCert(votes, m.vote)]
<1>1. [Next]_vars
  BY Zenon DEF Next, HandleMessage, HandleVote
<1>2. /\ voteNet' \subseteq voteNet
      /\ UNCHANGED <<propNet, proposeChannel, voteTasks, certMap>>
  BY ZenonT(30) DEF CountVote, ReceiveVote
<1>3. /\ tally \in [Node -> SUBSET (Nat \X Vote)]
      /\ certTasks \in [Node -> SUBSET [index : Nat, cert : Cert]]
  BY Zenon DEF TInv, TypeOK
<1>4. Held(BlocksByHash', m.vote)
  BY <1>1, HoldKept, Zenon
<1>5. /\ \A v \in votes : Held(BlocksByHash', v)
      /\ t.cert.votes = votes
  BY <1>1, <1>4, HoldKept, ZenonT(30) DEF Tallied, NewCert
<1>6. /\ \/ UNCHANGED tally
         \/ tally' = [tally EXCEPT ![n] = @ \cup {<<view[n], m.vote>>}]
      /\ \/ UNCHANGED certTasks
         \/ certTasks' = [certTasks EXCEPT ![n] = @ \cup {t}]
  BY ZenonT(30) DEF CountVote, voteVars
<1> HIDE DEF t, votes
<1>7. \A k \in Node : \A e \in tally'[k] : Held(BlocksByHash', e[2])
  <2>1. CASE UNCHANGED tally
    BY <1>1, <2>1, HoldKept, Zenon
  <2>2. CASE tally' = [tally EXCEPT ![n] = @ \cup {<<view[n], m.vote>>}]
    <3> DEFINE e == <<view[n], m.vote>>
    <3>1. e[2] = m.vote
      OBVIOUS
    <3>2. tally' = [tally EXCEPT ![n] = @ \cup {e}]
      BY <2>2, Zenon
    <3> HIDE DEF e
    <3>3. /\ tally'[n] = tally[n] \cup {e}
          /\ \A k \in Node \ {n} : tally'[k] = tally[k]
      BY <1>3, <3>2, Zenon
    <3> QED
      BY <1>1, <1>4, <3>1, <3>3, HoldKept, ZenonT(30)
  <2> QED
    BY <1>6, <2>1, <2>2, Zenon
<1>8. \A k \in Node : \A u \in certTasks'[k] : \A v \in u.cert.votes :
        Held(BlocksByHash', v)
  <2>1. CASE UNCHANGED certTasks
    BY <1>1, <2>1, HoldKept, Zenon
  <2>2. CASE certTasks' = [certTasks EXCEPT ![n] = @ \cup {t}]
    <3>1. /\ certTasks'[n] = certTasks[n] \cup {t}
          /\ \A k \in Node \ {n} : certTasks'[k] = certTasks[k]
      BY <1>3, <2>2, Zenon
    <3> QED
      BY <1>1, <1>5, <3>1, HoldKept, ZenonT(30)
  <2> QED
    BY <1>6, <2>1, <2>2, Zenon
<1> QED
  BY <1>1, <1>2, <1>7, <1>8, HoldKept, ZenonT(30) DEF HoldInv, SignersHoldBlock, Held

\* addCert stores the certificate as it was made.
LEMMA HoldAddCert ==
  ASSUME TInv, HoldInv, NEW n \in Node, NEW t \in certTasks[n], addCert(n, t)
  PROVE  HoldInv'
<1>1. [Next]_vars
  BY Zenon DEF Next, HandleMessage
<1>2. /\ certMap' = [certMap EXCEPT ![n] = Put(@, t.index, t.cert)]
      /\ certTasks' = [certTasks EXCEPT ![n] = @ \ {t}]
      /\ UNCHANGED <<propNet, voteNet, proposeChannel, voteTasks, tally>>
  BY ZenonT(30) DEF addCert, voteVars
<1>3. /\ DOMAIN certMap = Node
      /\ certTasks \in [Node -> SUBSET [index : Nat, cert : Cert]]
  BY Zenon DEF TInv, TypeOK, IsMapOf
<1>4. \A k \in Node : \A i \in DOMAIN certMap'[k] :
        \/ k = n /\ certMap'[k][i] = t.cert
        \/ i \in DOMAIN certMap[k] /\ certMap'[k][i] = certMap[k][i]
  BY <1>2, <1>3, ZenonT(30) DEF Put
<1>5. \A k \in Node : certTasks'[k] \subseteq certTasks[k]
  BY <1>2, <1>3, SMTT(30)
<1>6. \A k \in Node : \A i \in DOMAIN certMap'[k] :
        \A v \in certMap'[k][i].votes : Held(BlocksByHash', v)
  BY <1>1, <1>4, HoldKept, ZenonT(30)
<1> QED
  BY <1>1, <1>2, <1>5, <1>6, HoldKept, ZenonT(30) DEF HoldInv, SignersHoldBlock, Held

\* Every step keeps the blocks of the signers.
LEMMA HoldStep == TInv /\ HoldInv /\ [Next]_vars => HoldInv'
<1> SUFFICES ASSUME TInv, HoldInv, [Next]_vars PROVE HoldInv'
  OBVIOUS
<1> DEFINE Quiet == UNCHANGED <<propNet, voteNet, proposeChannel, voteTasks,
                                tally, certTasks, certMap>>
<1>1. CASE Quiet
  BY <1>1, HoldFrame, ZenonT(30)
<1>2. ASSUME NEW n \in Node,
             StartWithoutProposal(n) \/ TimerFires(n) \/ Callback(n) \/ PeerLost(n)
      PROVE  Quiet
  BY <1>2, ZenonT(30) DEF StartWithoutProposal, TimerFires, Callback, RetryView,
     Commit, Rotate, PeerLost, voteVars
<1>3. ASSUME NEW n \in Node, NEW m \in voteNet,
             AccuseVoter(n, m) \/ DropDuplicateVote(n, m)
      PROVE  HoldInv'
  <2>1. /\ voteNet' \subseteq voteNet
        /\ UNCHANGED <<propNet, proposeChannel, voteTasks, tally, certTasks, certMap>>
    BY <1>3, ZenonT(30) DEF AccuseVoter, DropDuplicateVote, ReceiveVote, voteVars
  <2> QED
    BY <2>1, HoldFrame, ZenonT(30)
<1>4. CASE UNCHANGED vars
  BY <1>1, <1>4, Zenon DEF vars, voteVars
<1> HIDE DEF Quiet
<1> QED
  BY <1>1, <1>2, <1>3, <1>4, HoldPropose, HoldDispatch, HoldForward, HoldCastVote,
     HoldCountVote, HoldAddCert, ZenonT(30) DEF Next, Start, HandleMessage, HandleVote

\* Everything is empty before the first round.
LEMMA HoldInit == Init => HoldInv
<1> SUFFICES ASSUME Init PROVE HoldInv
  OBVIOUS
<1>1. \A n \in Node : \A i \in DOMAIN certMap[n] : certMap[n][i].votes = {}
  BY Zenon DEF Init, GenesisCert
<1>2. \A n \in Node : DOMAIN proposeChannel[n] = {}
  BY SMTT(30) DEF Init
<1> QED
  BY <1>1, <1>2, ZenonT(30) DEF Init, HoldInv, SignersHoldBlock

\* Every signer of a certificate holds the block it signed, for any number of
\* replicas and any delay, loss or reordering.
THEOREM SignersHaveTheBlock == Spec => []SignersHoldBlock
<1>1. HoldInv => SignersHoldBlock
  BY Zenon DEF HoldInv
<1> QED
  BY <1>1, TInvInit, TInvStep, HoldInit, HoldStep, PTL DEF Spec
===============================================================================
