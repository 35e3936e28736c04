-------------------------------- MODULE SyncHS --------------------------------
(***************************************************************************)
(* The replicas of the default build (package consensus): the leader of    *)
(* a view proposes a block, every other node forwards it to everybody, a   *)
(* node that holds the forwards of all N-1 non-leaders votes, votes whose  *)
(* voters own more than half of the reputation make a certificate, and the *)
(* timer's callback commits the view and rotates the leader.               *)
(*                                                                         *)
(* The goroutines that can meet the callback in the middle (voteForBlock,  *)
(* addCert) and the callback's own steps are actions of their own.  The    *)
(* network reorders and delays without bound; a message that is never      *)
(* delivered is a message lost (Broadcast only logs a failed write).       *)
(* Module Synchrony restricts this to timely delivery.                     *)
(***************************************************************************)
EXTENDS Reputation, Sequences

CONSTANTS
  N,        \* number of replicas, config.NumNodes
  MaxView   \* bound: no node starts a round after this view

ASSUME NAssumption == N \in Nat /\ N >= 2
ASSUME MaxViewAssumption == MaxView \in Nat

VARIABLES
  view, leader,          \* n.view, n.leader
  phase,                 \* where the node's timer and callback are
  up,                    \* FALSE after a panic
  head,                  \* bc.Head
  BlocksByHeight,        \* height -> block, a partial function
  BlocksByHash,          \* the hashes that have a block
  certMap,               \* index -> certificate, a partial function
  reputationMap,         \* view -> reputation of every node, partial
  transcript,            \* the behaviour maps, see Reputation
  proposalByviewMap,     \* view -> hash of the view's proposal, partial
  equivocatingProposalInject,
  fpropMap,              \* pairs <<view, sender>> of forwards counted
  tally,                 \* voteHandler's voteMap: pairs <<view, vote>>
  isCertified,           \* views for which voteHandler built a certificate
  proposeChannel,        \* FIFO of proposals for forwardProposalHandler
  voteTasks,             \* go voteForBlock(proposal)
  certTasks,             \* go addCert(cert, index)
  propNet, voteNet,      \* messages in flight, each to one node
  acks,                  \* CommitAcks sent to the clients: [view, block]
  evidence               \* misbehaviour evidence broadcast so far

roundVars  == <<view, leader, phase>>
chainVars  == <<head, BlocksByHeight, BlocksByHash>>
repVars    == <<reputationMap, transcript>>
forwVars   == <<proposalByviewMap, equivocatingProposalInject, fpropMap>>
voteVars   == <<tally, isCertified>>
vars == <<roundVars, up, chainVars, certMap, repVars, forwVars, voteVars,
          proposeChannel, voteTasks, certTasks, propNet, voteNet, acks,
          evidence>>

Node == 0..(N - 1)

\* A header is the parent's hash, the height and Extra (TxHash is nil), so a
\* hash is the path of these pairs from the genesis block; it covers neither
\* the transactions nor the miner.  Extra is nil here; the misbehaviour
\* builds use one byte of it.  The transactions of a block are the batch its
\* miner took from its pool in that view.
EmptyHash == <<>>
Extra == {"nil", "1", "2", "E"}
GetBlockHash(b) == Append(b.parent, <<b.height, b.extra>>)

Hash == Seq(Nat \X Extra)
Block == [parent : Hash, height : Nat, extra : Extra, txs : Node \X Nat]
Vote == [voter : Node, hash : Hash, view : Nat, owner : Node]
Cert == [hash : Hash, view : Nat, votes : SUBSET Vote]
Proposal == [miner : Node, forwardSender : Node, forwardSig : BOOLEAN,
             block : Block, cert : Cert]

\* The map f with key k set to x, as in the Go statement f[k] = x.
Put(f, k, x) == [i \in DOMAIN f \cup {k} |-> IF i = k THEN x ELSE f[i]]

GenesisCert == [hash |-> EmptyHash, view |-> 1, votes |-> {}]
GetSigners(c) == {v.voter : v \in c.votes}

\* SyncHS.Init and Setup, and then the client's connection to every node
\* (ClientMsgHandler), which sets the reputations of view 1.
Init ==
  /\ view = [n \in Node |-> 1]
  /\ leader = [n \in Node |-> 0]
  /\ phase = [n \in Node |-> "ready"]
  /\ up = [n \in Node |-> TRUE]
  /\ head = [n \in Node |-> 0]
  /\ BlocksByHeight = [n \in Node |-> <<>>]
  /\ BlocksByHash = [n \in Node |-> {}]
  /\ certMap = [n \in Node |-> [i \in {0} |-> GenesisCert]]
  /\ reputationMap =
       [n \in Node |-> [v \in {1} |-> [id \in Node |-> initialNodescore]]]
  /\ transcript = [n \in Node |-> EmptyTranscript]
  /\ proposalByviewMap = [n \in Node |-> <<>>]
  /\ equivocatingProposalInject = [n \in Node |-> FALSE]
  /\ fpropMap = [n \in Node |-> {}]
  /\ tally = [n \in Node |-> {}]
  /\ isCertified = [n \in Node |-> {}]
  /\ proposeChannel = [n \in Node |-> <<>>]
  /\ voteTasks = [n \in Node |-> {}]
  /\ certTasks = [n \in Node |-> {}]
  /\ propNet = {}
  /\ voteNet = {}
  /\ acks = [n \in Node |-> <<>>]
  /\ evidence = {}

-------------------------------------------------------------------------------
\* Transcript updates.

\* addProposaltoMap: the view's map is replaced by {leader: 1}, unless the
\* leader is recorded already.
addProposaltoMap(t, v, l) ==
  IF <<v, l>> \in t.prop
  THEN t
  ELSE [t EXCEPT !.prop = {e \in @ : e[1] # v} \cup {<<v, l>>}]

addVotetoMap(t, v, id) == [t EXCEPT !.vote = @ \cup {<<v, id>>}]

\* Everybody's score from the whole transcript, kept for the next view.
addNewViewReputaiontoMap(n) ==
  Put(reputationMap[n], view[n] + 1,
      [id \in Node |-> ReputationCalculateinCurrentRound(transcript[n], id)])

-------------------------------------------------------------------------------
\* Certificates.

\* The block of this hash has one byte of Extra.
HasExtra(h) == h[Len(h)][2] # "nil"

\* IsCertValid dereferences the certified block, and the reputations of
\* n.view-1, without looking whether the node has them.
CertPanics(n, c) ==
  /\ c.hash # EmptyHash
  /\ \/ c.hash \notin BlocksByHash[n]
     \/ /\ ~HasExtra(c.hash)
        /\ (view[n] - 1) \notin DOMAIN reputationMap[n]

\* Mutant: the certificate is judged by the reputations of the current view.
IsCertValidNow(n, c) ==
  c.hash # EmptyHash /\ ~HasExtra(c.hash)
    => ExceedsBenchMark(reputationMap[n][view[n]], GetSigners(c))

\* The certificate of the genesis block, or of a block with Extra, is valid
\* as it is.  The result of Verify on each signature is ignored.
IsCertValid(n, c) ==
  c.hash # EmptyHash /\ ~HasExtra(c.hash)
    => ExceedsBenchMark(reputationMap[n][view[n] - 1], GetSigners(c))

\* A panic ends the process: none of the node's actions is enabled again.
Panic(n) == up' = [up EXCEPT ![n] = FALSE]

-------------------------------------------------------------------------------
\* Proposing.

\* Mutants: the block names itself, or always the genesis block, as parent.
OwnParent(n, c, newHeight, extra) ==
  [miner |-> n, forwardSender |-> leader[n], forwardSig |-> FALSE,
   block |-> [parent |-> Append(c.hash, <<newHeight, extra>>),
              height |-> newHeight, extra |-> extra,
              txs |-> <<n, view[n]>>],
   cert |-> c]

GenesisParent(n, c, newHeight, extra) ==
  [miner |-> n, forwardSender |-> leader[n], forwardSig |-> FALSE,
   block |-> [parent |-> EmptyHash, height |-> newHeight, extra |-> extra,
              txs |-> <<n, view[n]>>],
   cert |-> c]

NewCandidateProposal(n, c, newHeight, extra) ==
  [miner |-> n, forwardSender |-> leader[n], forwardSig |-> FALSE,
   block |-> [parent |-> c.hash, height |-> newHeight, extra |-> extra,
              txs |-> <<n, view[n]>>],
   cert |-> c]

Broadcast(n, p) == {[to |-> m, prop |-> p] : m \in Node \ {n}}

\* Mutant: the map by hash is forgotten.
AddByHeightOnly(n, b) ==
  /\ BlocksByHeight' = [BlocksByHeight EXCEPT ![n] = Put(@, b.height, b)]
  /\ UNCHANGED BlocksByHash

addNewBlock(n, b) ==
  /\ BlocksByHeight' = [BlocksByHeight EXCEPT ![n] = Put(@, b.height, b)]
  /\ BlocksByHash' = [BlocksByHash EXCEPT ![n] = @ \cup {GetBlockHash(b)}]

\* addCmdsAndStartTimerIfSufficientCommands with a full pool, in the first
\* round (gcallFuncFinish) or after a callback (SyncChannel).
startConsensusTimer(n) ==
  /\ up[n]
  /\ phase[n] = "ready"
  /\ view[n] <= MaxView
  /\ phase' = [phase EXCEPT ![n] = "armed"]

\* startConsensusTimer at the leader, whose goroutine proposes at once.
Propose(n) ==
  /\ startConsensusTimer(n)
  /\ leader[n] = n
  /\ head[n] \in DOMAIN certMap[n]
  /\ LET p == NewCandidateProposal(n, certMap[n][head[n]], head[n] + 1, "nil")
     IN /\ head' = [head EXCEPT ![n] = @ + 1]
        /\ addNewBlock(n, p.block)
        /\ proposalByviewMap' =
             [proposalByviewMap EXCEPT ![n] =
                Put(@, view[n], GetBlockHash(p.block))]
        /\ transcript' =
             [transcript EXCEPT ![n] = addProposaltoMap(@, view[n], n)]
        /\ propNet' = propNet \cup Broadcast(n, p)
  /\ UNCHANGED <<view, leader, up, certMap, reputationMap,
                 equivocatingProposalInject, fpropMap, voteVars,
                 proposeChannel, voteTasks, certTasks, voteNet, acks, evidence>>

\* startConsensusTimer anywhere else, and Propose's early return: "The head
\* does not have a certificate.  Cancelling the proposal".
StartWithoutProposal(n) ==
  /\ startConsensusTimer(n)
  /\ leader[n] = n => head[n] \notin DOMAIN certMap[n]
  /\ UNCHANGED <<view, leader, up, chainVars, certMap, repVars, forwVars,
                 voteVars, proposeChannel, voteTasks, certTasks, propNet,
                 voteNet, acks, evidence>>

-------------------------------------------------------------------------------
\* Forwarding.

\* The mining proof is checked with the key of n.leader: it verifies iff the
\* miner is the leader this node believes in.
SignedByLeader(n, p) == p.miner = leader[n]

\* protocol() hands a proposal to forward, to proposeChannel, or to
\* maliPropseChannel, which has no reader in this build.
Enqueue(n, m) ==
  /\ m.prop.forwardSender # leader[n]
  /\ proposeChannel' = [proposeChannel EXCEPT ![n] = Append(@, m.prop)]
  /\ propNet' = propNet \ {m}
  /\ UNCHANGED up

\* forward(prop): the node signs the proposal, sends it to the others and
\* puts its own copy into proposeChannel.  It runs in a goroutine; if the
\* leader changes before that, the proposal is dropped, and so it is when
\* it arrives after the change.
Forward(n, m) ==
  /\ m.prop.forwardSender = leader[n]
  /\ SignedByLeader(n, m.prop)
  /\ ~CertPanics(n, m.prop.cert)
  /\ IsCertValid(n, m.prop.cert)
  /\ LET q == [m.prop EXCEPT !.forwardSender = n, !.forwardSig = TRUE]
     IN /\ propNet' = (propNet \ {m}) \cup Broadcast(n, q)
        /\ proposeChannel' = [proposeChannel EXCEPT ![n] = Append(@, q)]
  /\ UNCHANGED up

ForwardFails(n, m) ==
  LET p == m.prop
  IN /\ p.forwardSender = leader[n]
     /\ \/ SignedByLeader(n, p) /\ CertPanics(n, p.cert) /\ Panic(n)
        \/ /\ SignedByLeader(n, p) =>
                ~CertPanics(n, p.cert) /\ ~IsCertValid(n, p.cert)
           /\ UNCHANGED up
     /\ propNet' = propNet \ {m}
     /\ UNCHANGED proposeChannel

Dispatch(n, m) ==
  /\ up[n]
  /\ m.to = n
  /\ Enqueue(n, m) \/ Forward(n, m) \/ ForwardFails(n, m)
  /\ UNCHANGED <<roundVars, chainVars, certMap, repVars, forwVars, voteVars,
                 voteTasks, certTasks, voteNet, acks, evidence>>

\* The forwards of the current view that forwardProposalHandler has counted.
Forwards(n) == {e \in fpropMap[n] : e[1] = view[n]}

\* forwardProposalHandler takes the next proposal, unless it already has all
\* the forwards of this view (it then spins until the view changes).
TakeProposal(n) ==
  /\ up[n]
  /\ proposeChannel[n] # <<>>
  /\ Cardinality(Forwards(n)) < N - 1
  /\ proposeChannel' = [proposeChannel EXCEPT ![n] = Tail(@)]

\* The proposal passes all the checks of forwardProposalHandler.  An
\* original proposal carries no forward signature and fails the last one.
AcceptsForward(n, p) ==
  /\ ~equivocatingProposalInject[n]
  /\ SignedByLeader(n, p)
  /\ ~CertPanics(n, p.cert)
  /\ IsCertValid(n, p.cert)
  /\ p.forwardSig

ForwardPanics(n, p) ==
  /\ ~equivocatingProposalInject[n]
  /\ SignedByLeader(n, p)
  /\ CertPanics(n, p.cert)

\* The proposal recorded for this view, the received one if there is none.
RecordedHash(n, p) ==
  IF view[n] \in DOMAIN proposalByviewMap[n]
  THEN proposalByviewMap[n][view[n]]
  ELSE GetBlockHash(p.block)

\* One of the checks fails: the proposal is dropped, or the node panics.
RejectForward(n) ==
  /\ TakeProposal(n)
  /\ LET p == proposeChannel[n][1]
     IN \/ ForwardPanics(n, p) /\ Panic(n)
        \/ ~ForwardPanics(n, p) /\ ~AcceptsForward(n, p) /\ UNCHANGED up
  /\ UNCHANGED <<roundVars, chainVars, certMap, repVars, forwVars, voteVars,
                 voteTasks, certTasks, propNet, voteNet, acks, evidence>>

\* Evidence goes to everybody, but no handler takes it in this build: what
\* is left of it is the accusation.
sendEqProEvidence(n) ==
  [kind |-> "equivocation", origin |-> n, target |-> leader[n],
   view |-> view[n]]

sendMalivoteEvidence(n, v) ==
  [kind |-> "vote", origin |-> n, target |-> v.voter, view |-> view[n]]

\* A second block for the same view: everybody but the leader accuses it.
DetectEquivocation(n) ==
  /\ TakeProposal(n)
  /\ LET p == proposeChannel[n][1]
     IN /\ AcceptsForward(n, p)
        /\ RecordedHash(n, p) # GetBlockHash(p.block)
  /\ equivocatingProposalInject' =
       [equivocatingProposalInject EXCEPT ![n] = TRUE]
  /\ evidence' = IF n = leader[n] THEN evidence
                                  ELSE evidence \cup {sendEqProEvidence(n)}
  /\ UNCHANGED <<roundVars, up, chainVars, certMap, repVars, fpropMap,
                 proposalByviewMap, voteVars, voteTasks, certTasks, propNet,
                 voteNet, acks>>

\* The forward is counted; proposalByviewMap gets the view's first one.
CountForward(n, p) ==
  /\ TakeProposal(n)
  /\ AcceptsForward(n, p)
  /\ RecordedHash(n, p) = GetBlockHash(p.block)
  /\ fpropMap' =
       [fpropMap EXCEPT ![n] = @ \cup {<<view[n], p.forwardSender>>}]
  /\ proposalByviewMap' =
       [proposalByviewMap EXCEPT ![n] =
          Put(@, view[n], GetBlockHash(p.block))]
  /\ UNCHANGED <<roundVars, up, certMap, reputationMap,
                 equivocatingProposalInject, voteVars, certTasks, propNet,
                 acks, evidence>>

\* Mutant: the leader's own forward is awaited too.
OneForwardMore(n, p) ==
  Cardinality(Forwards(n) \cup {<<view[n], p.forwardSender>>}) >= N

HasAllForwards(n, p) ==
  Cardinality(Forwards(n) \cup {<<view[n], p.forwardSender>>}) >= N - 1

NewVote(n, p) == [voter |-> n, hash |-> GetBlockHash(p.block),
                  view |-> view[n], owner |-> p.miner]

\* voteForBlock: the voter credits itself, sends the vote to everybody and
\* puts it into its own voteChannel.
voteForBlock(n, p) ==
  /\ transcript' = [transcript EXCEPT ![n] = addVotetoMap(@, view[n], n)]
  /\ voteNet' = voteNet \cup {[to |-> m, vote |-> NewVote(n, p)] : m \in Node}

\* "NO enough forward prospoal have received".
AwaitForwards(n) ==
  LET p == proposeChannel[n][1]
  IN /\ CountForward(n, p)
     /\ ~HasAllForwards(n, p)
     /\ UNCHANGED <<chainVars, transcript, voteTasks, voteNet>>

\* A non-leader takes the block over and starts the vote goroutine.
\* ensureBlockIsDelivered only logs: the vote follows whatever it finds.
AcceptBlock(n) ==
  LET p == proposeChannel[n][1]
  IN /\ CountForward(n, p)
     /\ HasAllForwards(n, p)
     /\ n # leader[n]
     /\ head' = [head EXCEPT ![n] = @ + 1]
     /\ addNewBlock(n, p.block)
     /\ transcript' =
          [transcript EXCEPT ![n] = addProposaltoMap(@, view[n], leader[n])]
     /\ voteTasks' = [voteTasks EXCEPT ![n] = @ \cup {p}]
     /\ UNCHANGED voteNet

\* The leader has the block already and votes in the handler itself.
LeaderVotes(n) ==
  LET p == proposeChannel[n][1]
  IN /\ CountForward(n, p)
     /\ HasAllForwards(n, p)
     /\ n = leader[n]
     /\ voteForBlock(n, p)
     /\ UNCHANGED <<chainVars, voteTasks>>

HandleForward(n) ==
  RejectForward(n) \/ DetectEquivocation(n) \/ AwaitForwards(n)
    \/ AcceptBlock(n) \/ LeaderVotes(n)

\* The vote goroutine of a non-leader: n.view is read when it runs.
CastVote(n, p) ==
  /\ up[n]
  /\ voteTasks' = [voteTasks EXCEPT ![n] = @ \ {p}]
  /\ voteForBlock(n, p)
  /\ UNCHANGED <<roundVars, up, chainVars, certMap, reputationMap, forwVars,
                 voteVars, proposeChannel, certTasks, propNet, acks, evidence>>

-------------------------------------------------------------------------------
\* Votes and certificates.

ReceiveVote(n, m) ==
  /\ up[n]
  /\ m.to = n
  /\ voteNet' = voteNet \ {m}
  /\ UNCHANGED <<roundVars, up, chainVars, certMap, reputationMap, forwVars,
                 proposeChannel, voteTasks, propNet, acks>>

\* Mutant: the voter is compared with the leader, instead of the owner.
VoterIsNotLeader(n, v) == v.voter # leader[n]

\* A vote for a block of anybody but n.leader is taken for misbehaviour.
IsMalicious(n, v) == v.owner # leader[n]

AccuseVoter(n, m) ==
  /\ ReceiveVote(n, m)
  /\ IsMalicious(n, m.vote)
  /\ evidence' = evidence \cup {sendMalivoteEvidence(n, m.vote)}
  /\ UNCHANGED <<transcript, voteVars, certTasks>>

\* The votes counted for the current view; the vote's own view and hash are
\* not compared with anything.
Tallied(n) == {e[2] : e \in {x \in tally[n] : x[1] = view[n]}}

IsDuplicate(n, v) == \E w \in Tallied(n) : w.voter = v.voter

DropDuplicateVote(n, m) ==
  /\ ReceiveVote(n, m)
  /\ ~IsMalicious(n, m.vote)
  /\ IsDuplicate(n, m.vote)
  /\ UNCHANGED <<transcript, voteVars, certTasks, evidence>>

\* Mutant: the block information is lost, as if Init came after SetBlockInfo.
CertWithoutInfo(votes, last) ==
  [hash |-> EmptyHash, view |-> last.view, votes |-> votes]

\* NewCert: hash and view of the last vote, signatures of all of them.
NewCert(votes, last) ==
  [hash |-> last.hash, view |-> last.view, votes |-> votes]

\* Mutants: the view never counts as certified; a vote that comes after the
\* certificate earns nothing; exactly half of the reputation is enough.
NeverCertified(n) == FALSE

CreditBeforeCertificate(n, v) ==
  IF view[n] \in isCertified[n]
  THEN transcript[n]
  ELSE addVotetoMap(transcript[n], view[n], v.voter)

AtLeastHalf(n, votes) ==
  LET rep == reputationMap[n][view[n]]
  IN 2 * Weight(rep, {w.voter : w \in votes}) >= Weight(rep, DOMAIN rep)

\* Reputation credit, and no more, is what a vote gets after the certificate.
AlreadyCertified(n) == view[n] \in isCertified[n]

CreditVoter(n, v) == addVotetoMap(transcript[n], view[n], v.voter)

EnoughReputation(n, votes) ==
  ExceedsBenchMark(reputationMap[n][view[n]], {w.voter : w \in votes})

\* A first vote of this voter is credited to it; it is counted until the
\* view has its certificate, which a goroutine then stores.
CountVote(n, m) ==
  LET v     == m.vote
      votes == Tallied(n) \cup {v}
  IN /\ ReceiveVote(n, m)
     /\ ~IsMalicious(n, v)
     /\ ~IsDuplicate(n, v)
     /\ transcript' = [transcript EXCEPT ![n] = CreditVoter(n, v)]
     /\ \/ /\ AlreadyCertified(n)
           /\ UNCHANGED <<voteVars, certTasks>>
        \/ /\ ~AlreadyCertified(n)
           /\ tally' = [tally EXCEPT ![n] = @ \cup {<<view[n], v>>}]
           /\ \/ /\ ~EnoughReputation(n, votes)
                 /\ UNCHANGED <<isCertified, certTasks>>
              \/ /\ EnoughReputation(n, votes)
                 /\ isCertified' = [isCertified EXCEPT ![n] = @ \cup {view[n]}]
                 /\ certTasks' = [certTasks EXCEPT ![n] =
                      @ \cup {[index |-> view[n], cert |-> NewCert(votes, v)]}]
     /\ UNCHANGED evidence

HandleVote(n, m) ==
  AccuseVoter(n, m) \/ DropDuplicateVote(n, m) \/ CountVote(n, m)

addCert(n, t) ==
  /\ up[n]
  /\ certTasks' = [certTasks EXCEPT ![n] = @ \ {t}]
  /\ certMap' = [certMap EXCEPT ![n] = Put(@, t.index, t.cert)]
  /\ UNCHANGED <<roundVars, up, chainVars, repVars, forwVars, voteVars,
                 proposeChannel, voteTasks, propNet, voteNet, acks, evidence>>

-------------------------------------------------------------------------------
\* The timer's callback.

\* First the reputations of the next view, from everything recorded so far.
\* With an equivocation detected the view is committed without certificate.
TimerFires(n) ==
  /\ up[n]
  /\ phase[n] = "armed"
  /\ phase' = [phase EXCEPT ![n] =
                 IF equivocatingProposalInject[n] THEN "empty" ELSE "decide"]
  /\ equivocatingProposalInject' =
       [equivocatingProposalInject EXCEPT ![n] = FALSE]
  /\ reputationMap' =
       [reputationMap EXCEPT ![n] = addNewViewReputaiontoMap(n)]
  /\ UNCHANGED <<view, leader, up, chainVars, certMap, transcript,
                 proposalByviewMap, fpropMap, voteVars, proposeChannel,
                 voteTasks, certTasks, propNet, voteNet, acks, evidence>>

\* "fail to generate certificate in round": the same view starts again.
RetryView(n) ==
  /\ up[n]
  /\ phase[n] = "decide"
  /\ view[n] \notin DOMAIN certMap[n]
  /\ phase' = [phase EXCEPT ![n] = "ready"]
  /\ UNCHANGED <<view, leader, up, chainVars, certMap, repVars, forwVars,
                 voteVars, proposeChannel, voteTasks, certTasks, propNet,
                 voteNet, acks, evidence>>

\* The block at bc.Head is acknowledged to the clients; with no block there
\* ToProto dereferences nil.
Commit(n) ==
  /\ up[n]
  /\ \/ phase[n] = "empty"
     \/ phase[n] = "decide" /\ view[n] \in DOMAIN certMap[n]
  /\ \/ /\ head[n] \in DOMAIN BlocksByHeight[n]
        /\ acks' = [acks EXCEPT ![n] =
             Append(@, [view |-> view[n], block |-> BlocksByHeight[n][head[n]]])]
        /\ view' = [view EXCEPT ![n] = @ + 1]
        /\ phase' = [phase EXCEPT ![n] = "rotate"]
        /\ UNCHANGED up
     \/ /\ head[n] \notin DOMAIN BlocksByHeight[n]
        /\ Panic(n)
        /\ UNCHANGED <<acks, view, phase>>
  /\ UNCHANGED <<leader, chainVars, certMap, repVars, forwVars, voteVars,
                 proposeChannel, voteTasks, certTasks, propNet, voteNet,
                 evidence>>

\* Mutants: no wrap-around; the rotation skips a node.
NoWrap(l) == l + 1
SkipOne(l) == (l + 2) % N

changeLeader(l) == (l + 1) % N

\* changeLeader, after n.view++; then SyncChannel lets the next round start.
Rotate(n) ==
  /\ up[n]
  /\ phase[n] = "rotate"
  /\ leader' = [leader EXCEPT ![n] = changeLeader(@)]
  /\ phase' = [phase EXCEPT ![n] = "ready"]
  /\ UNCHANGED <<view, up, chainVars, certMap, repVars, forwVars, voteVars,
                 proposeChannel, voteTasks, certTasks, propNet, voteNet, acks,
                 evidence>>

\* ProtoMsgHandler panics when the stream from a peer breaks.
PeerLost(n) ==
  /\ up[n]
  /\ \E m \in Node : ~up[m]
  /\ Panic(n)
  /\ UNCHANGED <<roundVars, chainVars, certMap, repVars, forwVars, voteVars,
                 proposeChannel, voteTasks, certTasks, propNet, voteNet, acks,
                 evidence>>

-------------------------------------------------------------------------------
\* What a node does between two callbacks, with the messages of two sets.
HandleMessage(n, props, votes) ==
  \/ \E m \in props : Dispatch(n, m)
  \/ HandleForward(n)
  \/ \E p \in voteTasks[n] : CastVote(n, p)
  \/ \E m \in votes : HandleVote(n, m)
  \/ \E t \in certTasks[n] : addCert(n, t)

Start(n) == Propose(n) \/ StartWithoutProposal(n)

Callback(n) == RetryView(n) \/ Commit(n) \/ Rotate(n)

Next ==
  \E n \in Node :
    \/ Start(n)
    \/ HandleMessage(n, propNet, voteNet)
    \/ TimerFires(n)
    \/ Callback(n)
    \/ PeerLost(n)

Spec == Init /\ [][Next]_vars

-------------------------------------------------------------------------------
\* Properties of the asynchronous system: they need no assumption on timing.

Phase == {"ready", "armed", "decide", "empty", "rotate"}
Records == SUBSET (Nat \X Node)
Transcript == [vote : Records, maliVote : Records, prop : Records,
               with : Records, equi : Records, maliProp : Records]
Evidence == [kind : {"vote", "equivocation"}, origin : Node, target : Node,
             view : Nat]

\* f maps every node to a Go map from numbers to members of S.
IsMapOf(f, S) ==
  /\ DOMAIN f = Node
  /\ \A n \in Node : /\ DOMAIN f[n] \subseteq Nat
                     /\ \A i \in DOMAIN f[n] : f[n][i] \in S

\* Every variable keeps its type; in particular n.leader is always the id of
\* a replica (leader.go) and every message in flight is well formed.
TypeOK ==
  /\ view \in [Node -> Nat \ {0}]
  /\ leader \in [Node -> Node]
  /\ phase \in [Node -> Phase]
  /\ up \in [Node -> BOOLEAN]
  /\ head \in [Node -> Nat]
  /\ IsMapOf(BlocksByHeight, Block)
  /\ BlocksByHash \in [Node -> SUBSET Hash]
  /\ IsMapOf(certMap, Cert)
  /\ IsMapOf(reputationMap, [Node -> Nat])
  /\ transcript \in [Node -> Transcript]
  /\ IsMapOf(proposalByviewMap, Hash)
  /\ equivocatingProposalInject \in [Node -> BOOLEAN]
  /\ fpropMap \in [Node -> SUBSET (Nat \X Node)]
  /\ tally \in [Node -> SUBSET (Nat \X Vote)]
  /\ isCertified \in [Node -> SUBSET Nat]
  /\ proposeChannel \in [Node -> Seq(Proposal)]
  /\ voteTasks \in [Node -> SUBSET Proposal]
  /\ certTasks \in [Node -> SUBSET [index : Nat, cert : Cert]]
  /\ propNet \subseteq [to : Node, prop : Proposal]
  /\ voteNet \subseteq [to : Node, vote : Vote]
  /\ acks \in [Node -> Seq([view : Nat, block : Block])]
  /\ evidence \subseteq Evidence

\* All nodes that are in the same view believe in the same leader, whatever
\* retries, early commits and empty rounds took them there: n.leader is a
\* function of n.view, except between n.view++ and changeLeader (client.go).
LeaderOfView ==
  \A n \in Node :
    leader[n] = IF phase[n] = "rotate" THEN (view[n] - 2) % N
                                       ELSE (view[n] - 1) % N

\* Every certificate a node stored, or is about to store in addCert, is
\* backed by more than half of the reputation that this node assigns to the
\* view of its index, also when the callback has recomputed reputations
\* since the votes were summed (vote.go, addNewViewReputaiontoMap).
CertWeight ==
  \A n \in Node :
    LET Backed(i, c) == /\ i <= view[n]
                        /\ i \in DOMAIN reputationMap[n]
                        /\ ExceedsBenchMark(reputationMap[n][i], GetSigners(c))
    IN /\ \A i \in DOMAIN certMap[n] \ {0} : Backed(i, certMap[n][i])
       /\ \A t \in certTasks[n] : Backed(t.index, t.cert)

\* A block taken over from another node extends the genesis block or a block
\* this node holds: its ledger has no gap below such a block, although
\* ensureBlockIsDelivered only logs a missing parent and nothing compares
\* the block's parent with the certificate it comes with.
DeliveredParents ==
  \A n \in Node : \A h \in DOMAIN BlocksByHeight[n] :
    LET b == BlocksByHeight[n][h]
    IN b.txs[1] # n => b.parent = EmptyHash \/ b.parent \in BlocksByHash[n]

\* Whoever signed a certificate holds the block it voted for, whatever was
\* lost or late on the way to the node that stores the certificate: a block
\* that was certified is held by owners of more than half of the reputation,
\* also where the certificate's holder lacks it (proposalAndForward.go,
\* forwardProposalHandler and voteForBlock).
SignersHoldBlock ==
  \A n \in Node : \A i \in DOMAIN certMap[n] :
    \A v \in certMap[n][i].votes : v.hash \in BlocksByHash[v.voter]

\* A certificate, once stored, is never replaced by another one for the same
\* index, although addCert runs in goroutines of its own and overwrites
\* without looking: isCertified lets each view start only one of them.
CertsWriteOnce ==
  [][\A n \in Node : \A i \in DOMAIN certMap[n] :
       i \in DOMAIN certMap'[n] /\ certMap'[n][i] = certMap[n][i]]_vars
===============================================================================
