----------------------------- MODULE Misbehaviour -----------------------------
(***************************************************************************)
(* The builds that inject misbehaviour (attackInjection.go): in place of   *)
(* startConsensusTimer, command.go calls one of its four variants, and the *)
(* lines marked "start*" in protocol.go and reactor.go start the           *)
(* handlers of evidence (evidence.go).  The nodes with odd ids misbehave.  *)
(*                                                                         *)
(*   withhold      an odd leader proposes nothing                          *)
(*   equivocate    an odd leader sends two different blocks                *)
(*   maliProposal  odd nodes propose although they do not lead             *)
(*   maliVote      odd nodes that do not lead vote for a block of theirs   *)
(*                                                                         *)
(* Init chooses the build.  Messages are timely, as in Synchrony.          *)
(***************************************************************************)
EXTENDS Synchrony

CONSTANT Builds   \* the builds to explore, a subset of Build

VARIABLES
  build,
  withholdingProposalInject, maliciousVoteInject,
  maliPropseChannel,   \* proposals of non-leaders, for their handler
  handled              \* the evidence that each node has received

flagVars == <<withholdingProposalInject, maliciousVoteInject>>
misVars == <<syncVars, build, flagVars, maliPropseChannel, handled>>

Build == {"withhold", "equivocate", "maliProposal", "maliVote"}

\* Bound: the views of each build.  Node 1, the first odd one, leads view 2;
\* an empty block of view 2 is extended in view 3.
FirstView(b) == IF b \in {"withhold", "equivocate"} THEN 2 ELSE 1
LastView(b) == CASE b = "maliProposal" -> 1 [] b = "maliVote" -> 2 [] OTHER -> 3

MisInit ==
  /\ build \in Builds
  /\ IF FirstView(build) = 1
     THEN Init
     ELSE AfterFirstView
  /\ early = 0
  /\ lost = {}
  /\ withholdingProposalInject = [n \in Node |-> FALSE]
  /\ maliciousVoteInject = [n \in Node |-> FALSE]
  /\ maliPropseChannel = [n \in Node |-> {}]
  /\ handled = [n \in Node |-> {}]

IsOdd(n) == n % 2 # 0

-------------------------------------------------------------------------------
\* Empty blocks.

\* createAnEmptyBlock: no commands, Extra is 'E'.
NoBatch == <<0, 0>>

\* Mutant: the empty block starts a chain of its own.
EmptyBlockOnGenesis(n, c, newHeight) ==
  [parent |-> EmptyHash, height |-> newHeight, extra |-> "E", txs |-> NoBatch]

createAnEmptyBlock(n, c, newHeight) ==
  [parent |-> c.hash, height |-> newHeight, extra |-> "E", txs |-> NoBatch]

\* Mutant: the empty block is stored without a certificate.
StoreUncertified(n) ==
  /\ head' = [head EXCEPT ![n] = @ + 1]
  /\ addNewBlock(n, createAnEmptyBlock(n, certMap[n][head[n]], head[n] + 1))
  /\ UNCHANGED certMap

\* Mutant: the empty block cannot be found by its hash.
StoreByHeightOnly(n) ==
  LET b == createAnEmptyBlock(n, certMap[n][head[n]], head[n] + 1)
      c == [hash |-> GetBlockHash(b), view |-> view[n], votes |-> {}]
  IN /\ head' = [head EXCEPT ![n] = @ + 1]
     /\ BlocksByHeight' = [BlocksByHeight EXCEPT ![n] = Put(@, b.height, b)]
     /\ UNCHANGED BlocksByHash
     /\ certMap' = [certMap EXCEPT ![n] = Put(@, view[n], c)]

\* An empty block on the block at bc.Head, whose certificate without votes
\* is stored at once for the current view.
StoreEmptyBlock(n) ==
  LET b == createAnEmptyBlock(n, certMap[n][head[n]], head[n] + 1)
      c == [hash |-> GetBlockHash(b), view |-> view[n], votes |-> {}]
  IN /\ head' = [head EXCEPT ![n] = @ + 1]
     /\ addNewBlock(n, b)
     /\ certMap' = [certMap EXCEPT ![n] = Put(@, view[n], c)]

\* The maps of withheld and equivocating proposals hold one id for each view.
addWitholdProposaltoMap(t, v, l) ==
  [t EXCEPT !.with = {e \in @ : e[1] # v} \cup {<<v, l>>}]

addEquiProposaltoMap(t, v, l) ==
  [t EXCEPT !.equi = {e \in @ : e[1] # v} \cup {<<v, l>>}]

addMaliProposaltoMap(t, v, id) == [t EXCEPT !.maliProp = @ \cup {<<v, id>>}]

addMaliVotetoMap(t, v, id) == [t EXCEPT !.maliVote = @ \cup {<<v, id>>}]

-------------------------------------------------------------------------------
\* The variants of startConsensusTimer.

\* handleWithholdingProposal; without a certificate for bc.Head it gives up.
handleWithholdingProposal(n) ==
  IF head[n] \in DOMAIN certMap[n]
  THEN /\ StoreEmptyBlock(n)
       /\ transcript' = [transcript EXCEPT ![n] =
            addWitholdProposaltoMap(@, view[n], leader[n])]
  ELSE UNCHANGED <<chainVars, certMap, transcript>>

\* startConsensusTimerWithWithhold: all nodes know that an odd leader
\* withholds and commit an empty block in its view.
StartWithWithhold(n) ==
  /\ build = "withhold"
  /\ withholdingProposalInject' =
       [withholdingProposalInject EXCEPT ![n] = IsOdd(leader[n])]
  /\ \/ ~IsOdd(leader[n]) /\ Start(n)
     \/ /\ IsOdd(leader[n])
        /\ startConsensusTimer(n)
        /\ handleWithholdingProposal(n)
        /\ UNCHANGED <<view, leader, up, reputationMap, forwVars, voteVars,
                       proposeChannel, voteTasks, certTasks, propNet, voteNet,
                       acks, evidence>>
  /\ UNCHANGED <<maliciousVoteInject, maliPropseChannel>>

\* EquivocatingBroadcast: node 0 gets the first message, the others the second.
EquivocatingBroadcast(n, p1, p2) ==
  {[to |-> m, prop |-> IF m = 0 THEN p1 ELSE p2] : m \in Node \ {n}}

\* Equivocationpropose: the leader keeps neither of its two blocks.
Equivocationpropose(n) ==
  /\ startConsensusTimer(n)
  /\ head[n] \in DOMAIN certMap[n]
  /\ LET prop(extra) ==
           NewCandidateProposal(n, certMap[n][head[n]], head[n] + 1, extra)
     IN propNet' = propNet \cup EquivocatingBroadcast(n, prop("1"), prop("2"))
  /\ UNCHANGED <<view, leader, up, chainVars, certMap, repVars, forwVars,
                 voteVars, proposeChannel, voteTasks, certTasks, voteNet, acks,
                 evidence>>

StartWithEquivocation(n) ==
  /\ build = "equivocate"
  /\ IF n = leader[n] /\ IsOdd(n)
     THEN Equivocationpropose(n) \/ StartWithoutProposal(n)
     ELSE Start(n)
  /\ UNCHANGED <<flagVars, maliPropseChannel>>

\* Maliciousproposalpropose: the proposal names the leader as its sender.
Maliciousproposalpropose(n) ==
  /\ startConsensusTimer(n)
  /\ head[n] \in DOMAIN certMap[n]
  /\ LET p == NewCandidateProposal(n, certMap[n][head[n]], head[n] + 1, "nil")
     IN /\ propNet' = propNet \cup Broadcast(n, p)
        /\ maliPropseChannel' = [maliPropseChannel EXCEPT ![n] = @ \cup {p}]
  /\ UNCHANGED <<view, leader, up, chainVars, certMap, repVars, forwVars,
                 voteVars, proposeChannel, voteTasks, certTasks, voteNet, acks,
                 evidence>>

StartWithMaliciousPropsoal(n) ==
  /\ build = "maliProposal"
  /\ \/ n # leader[n] /\ IsOdd(n) /\ Maliciousproposalpropose(n)
     \/ /\ n # leader[n] /\ IsOdd(n) => head[n] \notin DOMAIN certMap[n]
        /\ Start(n)
        /\ UNCHANGED maliPropseChannel
  /\ UNCHANGED flagVars

StartWithMaliciousVote(n) ==
  /\ build = "maliVote"
  /\ Start(n)
  /\ maliciousVoteInject' = [maliciousVoteInject EXCEPT ![n] =
                               @ \/ (n # leader[n] /\ IsOdd(n))]
  /\ UNCHANGED <<withholdingProposalInject, maliPropseChannel>>

MisStart(n) ==
  /\ \/ StartWithWithhold(n)
     \/ StartWithEquivocation(n)
     \/ StartWithMaliciousPropsoal(n)
     \/ StartWithMaliciousVote(n)
  /\ UNCHANGED handled

-------------------------------------------------------------------------------
\* Evidence.

\* protocol() takes a proposal in the leader's name for a malicious one.
FromNonLeader(n, p) == p.forwardSender = leader[n] /\ p.miner # leader[n]

ReceiveMaliProposal(n, m) ==
  /\ up[n]
  /\ m.to = n
  /\ FromNonLeader(n, m.prop)
  /\ propNet' = propNet \ {m}
  /\ maliPropseChannel' =
       [maliPropseChannel EXCEPT ![n] = @ \cup {m.prop}]
  /\ UNCHANGED <<roundVars, up, chainVars, certMap, repVars, forwVars, voteVars,
                 proposeChannel, voteTasks, certTasks, voteNet, acks, evidence,
                 flagVars, handled>>

\* Mutant: the evidence names the sender the proposal claims.
AccuseForwardSender(n, p) ==
  [kind |-> "proposal", origin |-> n, target |-> p.forwardSender,
   view |-> view[n]]

sendMaliProEvidence(n, p) ==
  [kind |-> "proposal", origin |-> n, target |-> p.miner, view |-> view[n]]

\* The miner's signature is good; node 0 never sends this kind of evidence.
MaliciousPropsoalHandler(n, p) ==
  /\ up[n]
  /\ maliPropseChannel' = [maliPropseChannel EXCEPT ![n] = @ \ {p}]
  /\ evidence' = IF p.miner # leader[n] /\ n # 0
                 THEN evidence \cup {sendMaliProEvidence(n, p)}
                 ELSE evidence
  /\ UNCHANGED <<roundVars, up, chainVars, certMap, repVars, forwVars, voteVars,
                 proposeChannel, voteTasks, certTasks, propNet, voteNet, acks,
                 flagVars, handled>>

\* voteForNonLeaderBlk in the goroutine that otherwise calls voteForBlock.
InvalidHash == << <<0, "nil">> >>

voteForNonLeaderBlk(n, p) ==
  /\ up[n]
  /\ IsOdd(n)
  /\ maliciousVoteInject[n]
  /\ maliciousVoteInject' = [maliciousVoteInject EXCEPT ![n] = FALSE]
  /\ voteTasks' = [voteTasks EXCEPT ![n] = @ \ {p}]
  /\ transcript' = [transcript EXCEPT ![n] = addVotetoMap(@, view[n], n)]
  /\ LET v == [voter |-> n, hash |-> InvalidHash, view |-> view[n], owner |-> n]
     IN voteNet' = voteNet \cup {[to |-> m, vote |-> v] : m \in Node}
  /\ UNCHANGED <<roundVars, up, chainVars, certMap, reputationMap, forwVars,
                 voteVars, proposeChannel, certTasks, propNet, acks, evidence,
                 withholdingProposalInject, maliPropseChannel, handled>>

\* The signatures in evidence are good: only what the code compares is left.
isEqpEvidenceValid(n, e) == e.target = leader[n] /\ e.view = view[n]

\* Mutant: the condition of isEqpEvidenceValid.
MalipOfLeader(n, e) == e.target = leader[n] /\ e.view = view[n]

isMalipEvidenceValid(n, e) == e.target # leader[n] /\ e.view = view[n]
isMalivEvidenceValid(n, e) == e.view = view[n]

\* The evidence handlers beyond what they leave alone.
ReceiveEvidence(n, e) ==
  /\ up[n]
  /\ handled' = [handled EXCEPT ![n] = @ \cup {e}]
  /\ UNCHANGED <<roundVars, up, reputationMap, forwVars, voteVars,
                 proposeChannel, voteTasks, certTasks, propNet, voteNet, acks,
                 evidence, flagVars, maliPropseChannel>>

\* The first valid evidence of a view ends it with an empty block.
EquivocationEvidenceHandler(n, e) ==
  LET Accepted == /\ <<view[n], leader[n]>> \notin transcript[n].equi
                  /\ isEqpEvidenceValid(n, e)
                  /\ head[n] \in DOMAIN certMap[n]
  IN /\ e.kind = "equivocation"
     /\ ReceiveEvidence(n, e)
     /\ \/ /\ Accepted
           /\ StoreEmptyBlock(n)
           /\ transcript' = [transcript EXCEPT ![n] =
                addEquiProposaltoMap(@, view[n], leader[n])]
        \/ ~Accepted /\ UNCHANGED <<chainVars, certMap, transcript>>

MaliciousProposalEvidenceHandler(n, e) ==
  /\ e.kind = "proposal"
  /\ ReceiveEvidence(n, e)
  /\ transcript' = IF isMalipEvidenceValid(n, e)
                   THEN [transcript EXCEPT ![n] =
                           addMaliProposaltoMap(@, view[n], e.target)]
                   ELSE transcript
  /\ UNCHANGED <<chainVars, certMap>>

\* Mutant: a node ignores evidence against itself.
IgnoreOwnOffence(n, e) ==
  /\ e.kind = "vote"
  /\ ReceiveEvidence(n, e)
  /\ transcript' = IF isMalivEvidenceValid(n, e) /\ e.target # n
                   THEN [transcript EXCEPT ![n] =
                           addMaliVotetoMap(@, view[n], e.target)]
                   ELSE transcript
  /\ UNCHANGED <<chainVars, certMap>>

MaliciousVoteEvidenceHandler(n, e) ==
  /\ e.kind = "vote"
  /\ ReceiveEvidence(n, e)
  /\ transcript' = IF isMalivEvidenceValid(n, e)
                   THEN [transcript EXCEPT ![n] =
                           addMaliVotetoMap(@, view[n], e.target)]
                   ELSE transcript
  /\ UNCHANGED <<chainVars, certMap>>

HandleEvidence(n, e) ==
  \/ EquivocationEvidenceHandler(n, e)
  \/ MaliciousProposalEvidenceHandler(n, e)
  \/ MaliciousVoteEvidenceHandler(n, e)

-------------------------------------------------------------------------------
\* The handlers that these builds share with the default one.
MisHandle(n) ==
  /\ \/ \E m \in propNet : ~FromNonLeader(n, m.prop) /\ Dispatch(n, m)
     \/ HandleForward(n)
     \/ /\ ~(IsOdd(n) /\ maliciousVoteInject[n])
        /\ \E p \in voteTasks[n] : CastVote(n, p)
     \/ \E m \in voteNet : HandleVote(n, m)
     \/ \E t \in certTasks[n] : addCert(n, t)
     \/ Callback(n)
  /\ UNCHANGED <<flagVars, maliPropseChannel, handled>>

\* callback in the withholding case leaves equivocatingProposalInject alone;
\* withholdingProposalInject stays set until the next round starts.
WithholdingTimer(n) ==
  /\ up[n]
  /\ phase[n] = "armed"
  /\ withholdingProposalInject[n]
  /\ phase' = [phase EXCEPT ![n] = "empty"]
  /\ reputationMap' = [reputationMap EXCEPT ![n] = addNewViewReputaiontoMap(n)]
  /\ UNCHANGED <<view, leader, up, chainVars, certMap, transcript, forwVars,
                 voteVars, proposeChannel, voteTasks, certTasks, propNet,
                 voteNet, acks, evidence>>

MisTimer(n) ==
  /\ Settled(view[n])
  /\ \A m \in Node : /\ \A p \in maliPropseChannel[m] : Round(p) > view[n]
                     /\ \A e \in evidence \ handled[m] : e.view > view[n]
  /\ \/ WithholdingTimer(n)
     \/ ~withholdingProposalInject[n] /\ TimerFires(n)
  /\ UNCHANGED <<flagVars, maliPropseChannel, handled>>

\* Nobody proposes anything before all the others have entered the view.
MisMayStart(n) ==
  /\ MayStart(n)
  /\ view[n] <= LastView(build)
  /\ build = "maliProposal" /\ IsOdd(n) =>
       \A m \in Node : view[m] >= view[n] /\ phase[m] # "rotate"

\* Bound: malicious proposals, and evidence of them or of malicious votes,
\* are handled before other messages.  The two commute: the former read the
\* view and the leader, and write only evidence and the maps of offences.
MaliciousFirst ==
  /\ build \in {"maliProposal", "maliVote"}
  /\ \E n \in Node : \/ maliPropseChannel[n] # {}
                     \/ evidence # handled[n]
                     \/ \E m \in propNet : m.to = n /\ FromNonLeader(n, m.prop)

MisStep(n) ==
  \/ MisMayStart(n) /\ MisStart(n)
  \/ ~MaliciousFirst /\ MisHandle(n)
  \/ \E m \in propNet : ReceiveMaliProposal(n, m)
  \/ \E p \in maliPropseChannel[n] : MaliciousPropsoalHandler(n, p)
  \/ \E p \in voteTasks[n] : voteForNonLeaderBlk(n, p)
  \/ \E e \in evidence \ handled[n] : HandleEvidence(n, e)
  \/ MisTimer(n)

MisFinished ==
  /\ \A n \in Node : phase[n] = "ready" /\ view[n] > LastView(build)
  /\ UNCHANGED misVars

MisNext ==
  \/ \E n \in Node : MisStep(n) /\ UNCHANGED <<build, early, lost>>
  \/ MisFinished

MisSpec == MisInit /\ [][MisNext]_misVars

-------------------------------------------------------------------------------
\* Properties.

\* The nodes that misbehave in view v of build b.
OffendersIn(b, v) ==
  LET l == (v - 1) % N
  IN {n \in Node : IsOdd(n) /\ (b \in {"withhold", "equivocate"} <=> n = l)}

Offenders(v) == OffendersIn(build, v)

\* The nodes that a transcript blames for something in view v.
Blamed(t, v) ==
  {e[2] : e \in {x \in t.with \cup t.equi \cup t.maliProp \cup t.maliVote :
                  x[1] = v}}

\* When a node leaves a view it has recorded a penalty for every node that
\* misbehaved in it, and for no other: the offender itself and the node that
\* sends no evidence included (evidence.go, "for continue to do evil,
\* misbehaviour leader keep consistency").
PenaltiesExact ==
  \A n \in Node : \A v \in FirstView(build)..(view[n] - 1) :
    Blamed(transcript[n], v) = Offenders(v)

\* Evidence names an offender of its view, whichever forward, vote or
\* evidence of another node came first (sendEqProEvidence,
\* sendMaliProEvidence, sendMalivoteEvidence).
OnlyGuiltyAccused == \A e \in evidence : e.target \in Offenders(e.view)

\* The blocks of the views of build b: a view of an odd leader has an empty
\* block if the leader withholds or equivocates.
BlocksIn(b) ==
  LET Kind(i) == IF /\ b \in {"withhold", "equivocate"}
                    /\ OffendersIn(b, i) # {}
                 THEN "E" ELSE "nil"
  IN {[parent |-> [i \in 1..(h - 1) |-> <<i, Kind(i)>>], height |-> h,
       extra |-> Kind(h),
       txs |-> IF Kind(h) = "E" THEN NoBatch ELSE <<(h - 1) % N, h>>] :
        h \in 1..MaxView}

ML == INSTANCE Ledger WITH
        Entry <- UNION {BlocksIn(b) : b \in Build},
        log <- [n \in Node |-> [i \in 1..Len(acks[n]) |-> acks[n][i].block]]

\* Also with misbehaving nodes every acknowledgement is a step of the ledger:
\* the leaders' blocks, and an empty block for every view whose leader
\* withheld or equivocated.  No equivocating block is ever acknowledged, and
\* an honest leader extends an empty block (evidence.go,
\* handleWithholdingProposal and EquivocationEvidenceHandler).
MisExtendsLedger == [][ML!LNext]_acks
===============================================================================
