------------------------- MODULE LockstepVoteProofs --------------------------
(***************************************************************************)
(* Rounds in lockstep, continued: Lock holds before the first round, and   *)
(* the counting of forwards, the votes and the certificates keep it; in    *)
(* lockstep the nodes agree on reputations and extend one ledger.          *)
(***************************************************************************)
EXTENDS LockstepProofs

-------------------------------------------------------------------------------
\* Counting forwards.

\* The next proposal in the queue is a forward of this round's block, it has
\* not been counted, and it passes all the checks.
LEMMA TakeFacts ==
  ASSUME TypeOK, LeaderOfView, CertWeight, Lock, NEW n \in Node,
         TakeProposal(n), NEW v, v = view[n], NEW p, p = proposeChannel[n][1]
  PROVE  /\ InRound(v)
         /\ \E s \in Others(v) : p = Fwd(v, s) /\ ~Counted(n, v, s)
         /\ AcceptsForward(n, p) /\ ~ForwardPanics(n, p)
         /\ GetBlockHash(p.block) = Chain(v) /\ RecordedHash(n, p) = Chain(v)
<1>1. proposeChannel[n] \in Seq(Proposal) /\ proposeChannel[n] # <<>>
  BY DEF TakeProposal, TypeOK
<1>2. p \in Range(proposeChannel[n])
  BY <1>1, Taking, Zenon
<1>3. ChannelOK(n, v)
  BY DEF Lock, ChannelsOK
<1>4. InRound(v)
  BY <1>2, <1>3, Zenon DEF ChannelOK
<1>5. PICK s \in Others(v) : p = Fwd(v, s) /\ ~Counted(n, v, s)
  BY <1>2, <1>3, Zenon DEF ChannelOK
<1>6. v \in Nat \ {0} /\ leader[n] = LeaderOf(v) /\ view[n] = v
  BY <1>4, RoundFacts, Zenon
<1>7. /\ p.miner = LeaderOf(v) /\ p.forwardSig = TRUE /\ p.cert = CertOf(v)
      /\ p.block = BlockOf(v)
  BY <1>5 DEF Fwd
<1>8. ~CertPanics(n, CertOf(v)) /\ IsCertValid(n, CertOf(v))
  BY <1>4, ValidCert, Zenon
<1>9. ~equivocatingProposalInject[n] /\ HashesOK(n)
  BY DEF Lock, NodeOK, PhaseOK
<1>10. AcceptsForward(n, p) /\ ~ForwardPanics(n, p)
  BY <1>6, <1>7, <1>8, <1>9, Zenon DEF AcceptsForward, ForwardPanics, SignedByLeader
<1>11. GetBlockHash(p.block) = Chain(v)
  BY <1>6, <1>7, BlockFacts, Zenon
<1>12. RecordedHash(n, p) = Chain(v)
  BY <1>6, <1>9, <1>11, Zenon DEF RecordedHash, HashesOK
<1> QED
  BY <1>4, <1>5, <1>10, <1>11, <1>12, Zenon

\* All forwards of a round are counted when there are N - 1.
LEMMA AllOthers ==
  ASSUME ForwardsCount, NEW v, LeaderOf(v) \in Node,
         NEW F \in SUBSET {<<v, t>> : t \in Node \ {LeaderOf(v)}}
  PROVE  Cardinality(F) >= N - 1 <=> \A t \in Others(v) : <<v, t>> \in F
<1>1. PICK l \in Node : l = LeaderOf(v)
  BY Zenon
<1>2. F \in SUBSET {<<v, t>> : t \in Node \ {l}}
  BY <1>1, Zenon
<1>3. Cardinality(F) >= N - 1 <=> \A t \in Node \ {l} : <<v, t>> \in F
  BY <1>2, Zenon DEF ForwardsCount
<1> QED
  BY <1>1, <1>3, Zenon DEF Others

\* Whether a forward is the last one.
LEMMA LastForward ==
  ASSUME ForwardsCount, TypeOK, Lock, NEW n \in Node, NEW v, v = view[n], LeaderOf(v) \in Node,
         NEW s \in Others(v), NEW p, p.forwardSender = s,
         fpropMap'[n] = fpropMap[n] \cup {<<v, s>>}
  PROVE  Full(n, v)' <=> HasAllForwards(n, p)
<1>1. PICK F : F = Forwards(n) \cup {<<v, s>>}
  BY Zenon
<1>2. ForwardsOK(n) /\ fpropMap[n] \in SUBSET (Nat \X Node)
  BY Zenon DEF Lock, NodeOK, TypeOK
<1>3. Forwards(n) \subseteq {<<v, t>> : t \in Node \ {LeaderOf(v)}}
  BY <1>2, SMTT(30) DEF Forwards, ForwardsOK
<1>4. F \in SUBSET {<<v, t>> : t \in Node \ {LeaderOf(v)}}
  BY <1>1, <1>3, Zenon DEF Others
<1>5. Cardinality(F) >= N - 1 <=> \A t \in Others(v) : <<v, t>> \in F
  BY <1>4, AllOthers, SMTT(30)
<1>6. HasAllForwards(n, p) <=> Cardinality(F) >= N - 1
  BY <1>1, Zenon DEF HasAllForwards
<1>7. \A t : <<v, t>> \in F <=> Counted(n, v, t)'
  BY <1>1, Zenon DEF Forwards, Counted
<1> QED
  BY <1>5, <1>6, <1>7, Zenon DEF Full, Others

\* A forward moves from the queue to the count, and the block may go onto
\* the node's chain.
LEMMA ForwardCounted ==
  ASSUME ForwardsCount, TypeOK, LeaderOfView, CertWeight, Lock, NEW n \in Node,
         NEW v, v = view[n], NEW p, p = proposeChannel[n][1], CountForward(n, p),
         \A x \in Node : head'[x] \in Nat /\ head[x] <= head'[x],
         \A w \in Nat \ {0} :
           w <= head'[LeaderOf(w)] => w <= head[LeaderOf(w)]
  PROVE  /\ InRound(v) /\ p.block = BlockOf(v) /\ p.miner = LeaderOf(v)
         /\ ~Full(n, v)
         /\ Full(n, v)' <=> HasAllForwards(n, p)
         /\ \A x \in Node, w \in Nat \ {0} :
              x # n \/ w # v => (Full(x, w)' <=> Full(x, w))
         /\ \A x \in Node : HashesOK(x)' /\ RepOK(x)' /\ CertOK(x)' /\ ForwardsOK(x)'
         /\ PropsOK' /\ ChannelsOK' /\ Forwarded'
<1>1. TakeProposal(n)
  BY Zenon DEF CountForward
<1>2. InRound(v) /\ GetBlockHash(p.block) = Chain(v)
  BY <1>1, TakeFacts, Zenon
<1>3. PICK s \in Others(v) : p = Fwd(v, s) /\ ~Counted(n, v, s)
  BY <1>1, TakeFacts, Zenon
<1>4. /\ p.miner = LeaderOf(v) /\ p.block = BlockOf(v) /\ p.forwardSender = s
  BY <1>3 DEF Fwd
<1>5. /\ proposeChannel' = [proposeChannel EXCEPT ![n] = Tail(@)]
      /\ fpropMap' = [fpropMap EXCEPT ![n] = @ \cup {<<v, s>>}]
      /\ proposalByviewMap' =
           [proposalByviewMap EXCEPT ![n] = Put(@, v, Chain(v))]
      /\ UNCHANGED <<view, phase, certMap, reputationMap, propNet>>
  BY <1>2, <1>4, Zenon DEF CountForward, TakeProposal, roundVars
<1>6. /\ v \in Nat \ {0} /\ LeaderOf(v) \in Node
      /\ \A x \in Node : view[x] = v
      /\ proposeChannel \in [Node -> Seq(Proposal)]
      /\ propNet \subseteq [to : Node, prop : Proposal]
      /\ fpropMap \in [Node -> SUBSET (Nat \X Node)]
      /\ head \in [Node -> Nat] /\ head[LeaderOf(v)] = v
      /\ s \in Node /\ s # LeaderOf(v)
  BY <1>2, RoundFacts, Zenon DEF InRound, TypeOK, Others
<1>7. InRound(v)'
  BY <1>2, <1>5, RoundKept, SMTT(30)
<1>8. /\ \A w : Orig(w)' = Orig(w)
      /\ \A w, t : Fwd(w, t)' = Fwd(w, t)
  BY <1>5, MessagesKept
<1>9. /\ fpropMap'[n] = fpropMap[n] \cup {<<v, s>>}
      /\ \A x \in Node \ {n} : fpropMap'[x] = fpropMap[x]
  BY <1>5, <1>6, Zenon
<1>10. \A x \in Node : \A w, t :
        Counted(x, w, t)' <=> Counted(x, w, t) \/ (x = n /\ w = v /\ t = s)
  BY <1>9 DEF Counted
<1>11. ~Full(n, v)
  BY <1>3, Zenon DEF Full
<1>12. Full(n, v)' <=> HasAllForwards(n, p)
  <2>1. LeaderOf(v) \in Node /\ s \in Others(v) /\ p.forwardSender = s
    BY <1>4, <1>6, Zenon
  <2> QED
    BY <1>9, <2>1, LastForward, SMTT(30)
<1>13. \A x \in Node, w \in Nat \ {0} :
         x # n \/ w # v => (Full(x, w)' <=> Full(x, w))
  BY <1>10, SMTT(30) DEF Full
<1>14. \A x \in Node : HashesOK(x)'
  BY <1>5, HashRecorded, Zenon
<1>15. \A x \in Node : NodeOK(x)
  BY Zenon DEF Lock
<1>16. \A x \in Node : RepOK(x)' /\ CertOK(x)'
  BY <1>5, <1>15, Zenon DEF NodeOK, RepOK, CertOK
<1>17. ASSUME NEW x \in Node PROVE ForwardsOK(x)'
  <2> SUFFICES ASSUME NEW e \in fpropMap'[x]
               PROVE  e[2] # LeaderOf(e[1]) /\ e[1] <= head'[LeaderOf(e[1])]
    BY Zenon DEF ForwardsOK
  <2>1. CASE e = <<v, s>>
    BY <1>6, <2>1, Zenon
  <2>2. CASE e \in fpropMap[x]
    <3>1. e[1] \in Nat /\ e[2] # LeaderOf(e[1]) /\ e[1] <= head[LeaderOf(e[1])]
      BY <1>6, <1>15, <2>2 DEF NodeOK, ForwardsOK
    <3>2. LeaderOf(e[1]) \in Node
      BY <3>1, NAssumption, SMTT(30) DEF LeaderOf, Node
    <3>3. head[LeaderOf(e[1])] \in Nat
      BY <1>6, <3>2, Zenon
    <3> QED
      BY <3>1, <3>2, <3>3, SMTT(30)
  <2> QED
    BY <1>9, <2>1, <2>2, Zenon
<1>18. \A x \in Node : ChannelOK(x, v)
  BY <1>6, Zenon DEF Lock, ChannelsOK
<1>19. /\ proposeChannel'[n] = Tail(proposeChannel[n])
       /\ \A x \in Node \ {n} : proposeChannel'[x] = proposeChannel[x]
  BY <1>5, <1>6, Zenon
<1>20. /\ Range(proposeChannel[n]) = Range(proposeChannel'[n]) \cup {p}
       /\ IsInjective(proposeChannel'[n]) /\ p \notin Range(proposeChannel'[n])
  <2>1. proposeChannel[n] \in Seq(Proposal) /\ proposeChannel[n] # <<>>
    BY <1>1, <1>6, Zenon DEF TakeProposal
  <2>2. IsInjective(proposeChannel[n])
    BY <1>18, SMTT(30) DEF ChannelOK
  <2> QED
    BY <1>19, <2>1, <2>2, Taking, SMTT(30)
<1>21. /\ \A x \in Node : \A w, t : Queued(x, w, t)' => Queued(x, w, t)
       /\ \A x \in Node : \A w, t : Queued(x, w, t) =>
            Queued(x, w, t)' \/ (x = n /\ Fwd(w, t) = p)
  BY <1>8, <1>19, <1>20, Zenon DEF Queued
<1>22. ASSUME NEW x \in Node PROVE ChannelOK(x, v)'
  <2>1. IsInjective(proposeChannel'[x])
    BY <1>18, <1>19, <1>20, Zenon DEF ChannelOK
  <2>2. ASSUME NEW q \in Range(proposeChannel'[x])
        PROVE  \E t \in Others(v) : q = Fwd(v, t) /\ ~Counted(x, v, t)'
    <3>1. q \in Range(proposeChannel[x]) /\ (x = n => q # p)
      BY <1>19, <1>20, Zenon
    <3>2. PICK t \in Others(v) : q = Fwd(v, t) /\ ~Counted(x, v, t)
      BY <1>18, <3>1, Zenon DEF ChannelOK
    <3>3. ~(x = n /\ t = s)
      BY <1>3, <3>1, <3>2
    <3> QED
      BY <1>10, <3>2, <3>3, SMTT(30)
  <2> QED
    BY <1>7, <1>8, <2>1, <2>2, Zenon DEF ChannelOK
<1>23. ChannelsOK'
  BY <1>5, <1>6, <1>22, Zenon DEF ChannelsOK
<1>24. \A x, w, t : InFlight(x, w, t)' <=> InFlight(x, w, t)
  BY <1>5, <1>8, Zenon DEF InFlight
<1>25. Queued(n, v, s)
  BY <1>3, <1>20, SMTT(30) DEF Queued
<1>26. ASSUME NEW k \in propNet' PROVE PropOK(v, k)' /\ view'[k.to] = v
  <2>1. k.to \in Node /\ k = [to |-> k.to, prop |-> k.prop] /\ PropOK(v, k)
    BY <1>5, <1>6, Zenon DEF Lock, PropsOK
  <2>2. CASE /\ k.prop = Orig(v) /\ k.to # LeaderOf(v)
             /\ \A x \in Node : /\ ~Counted(x, v, k.to) /\ ~Queued(x, v, k.to)
                                /\ ~InFlight(x, v, k.to)
    <3>1. k.to # s
      BY <1>25, <2>2, Zenon
    <3>2. \A x \in Node : /\ ~Counted(x, v, k.to)' /\ ~Queued(x, v, k.to)'
                          /\ ~InFlight(x, v, k.to)'
      BY <1>10, <1>21, <1>24, <2>2, <3>1, Zenon
    <3> QED
      BY <1>5, <1>6, <1>7, <1>8, <2>1, <2>2, <3>2, Zenon DEF PropOK
  <2>3. ASSUME NEW t \in Others(v), k.prop = Fwd(v, t), k.to # t,
               ~Counted(k.to, v, t), ~Queued(k.to, v, t)
        PROVE  PropOK(v, k)' /\ view'[k.to] = v
    <3>1. ~(k.to = n /\ t = s)
      BY <1>25, <2>3, Zenon
    <3>2. ~Counted(k.to, v, t)' /\ ~Queued(k.to, v, t)'
      BY <1>10, <1>21, <2>1, <2>3, <3>1
    <3> QED
      BY <1>5, <1>6, <1>7, <1>8, <2>1, <2>3, <3>2, Zenon DEF PropOK
  <2> QED
    BY <2>1, <2>2, <2>3, Zenon DEF PropOK
<1>27. PropsOK'
  BY <1>26, Zenon DEF PropsOK
<1>28. Forwarded'
  <2> SUFFICES ASSUME NEW w \in Nat \ {0}, NEW t \in Others(w),
                      w <= head'[LeaderOf(w)]
               PROVE  \/ Asked(t, w)'
                      \/ \A x \in Node : \/ Counted(x, w, t)' \/ Queued(x, w, t)'
                                         \/ InFlight(x, w, t)'
    BY Zenon DEF Forwarded
  <2>1. \/ Asked(t, w)
        \/ \A x \in Node : Counted(x, w, t) \/ Queued(x, w, t) \/ InFlight(x, w, t)
    BY Zenon DEF Lock, Forwarded
  <2>2. Asked(t, w)' <=> Asked(t, w)
    BY <1>5, <1>8, Zenon DEF Asked
  <2>3. Fwd(w, t) = p => w = v /\ t = s
    BY <1>3, <1>6, MessageFacts
  <2>4. \A x \in Node : Counted(x, w, t) \/ Queued(x, w, t) \/ InFlight(x, w, t) =>
          Counted(x, w, t)' \/ Queued(x, w, t)' \/ InFlight(x, w, t)'
    BY <1>10, <1>21, <1>24, <2>3, Zenon
  <2> QED
    BY <2>1, <2>2, <2>4, Zenon
<1> QED
  BY <1>2, <1>4, <1>11, <1>12, <1>13, <1>14, <1>16, <1>17, <1>23, <1>27, <1>28, Zenon

\* A vote, by the leader's handler or by the goroutine of another node.
LEMMA VoteSent ==
  ASSUME TypeOK, LeaderOfView, Lock, NEW v, InRound(v), NEW n \in Node, NEW p,
         p.block = BlockOf(v), p.miner = LeaderOf(v), voteForBlock(n, p),
         UNCHANGED <<view, phase, head, tally>>
  PROVE  /\ \A x \in Node : TranscriptOK(x)' /\ TallyOK(x)'
         /\ Cast(n, v)' /\ \A x, w : Cast(x, w) => Cast(x, w)'
         /\ \A m \in voteNet' :
              InRound(view[m.to])' /\ m.vote = VoteOf(m.vote.voter, view'[m.to])
<1>1. /\ v \in Nat \ {0} /\ \A x \in Node : view[x] = v
      /\ transcript \in [Node -> Transcript]
  BY RoundFacts, Zenon DEF TypeOK
<1>2. NewVote(n, p) = VoteOf(n, v)
  BY <1>1, BlockFacts, Zenon DEF NewVote, VoteOf
<1>3. /\ transcript' = [transcript EXCEPT ![n] = addVotetoMap(@, v, n)]
      /\ voteNet' = voteNet \cup {[to |-> m, vote |-> VoteOf(n, v)] : m \in Node}
  BY <1>1, <1>2, Zenon DEF voteForBlock
<1>4. /\ transcript'[n] = [transcript[n] EXCEPT !.vote = @ \cup {<<v, n>>}]
      /\ \A x \in Node \ {n} : transcript'[x] = transcript[x]
  BY <1>1, <1>3, Zenon DEF addVotetoMap
<1>5. /\ transcript'[n].vote = transcript[n].vote \cup {<<v, n>>}
      /\ transcript'[n].prop = transcript[n].prop
      /\ transcript'[n].maliVote = transcript[n].maliVote
      /\ transcript'[n].with = transcript[n].with
      /\ transcript'[n].equi = transcript[n].equi
      /\ transcript'[n].maliProp = transcript[n].maliProp
  BY <1>1, <1>4, SMTT(30) DEF Transcript
<1>6. \A x \in Node : TranscriptOK(x) /\ TallyOK(x)
  BY Zenon DEF Lock, NodeOK
<1>7. \A x \in Node : transcript[x].vote \subseteq transcript'[x].vote
  BY <1>4, <1>5, Zenon
<1>8. \A x \in Node : TranscriptOK(x)'
  <2>1. <<v, n>> \in VoteRecords(v)
    BY <1>1 DEF VoteRecords
  <2>2. TranscriptOK(n)'
    BY <1>1, <1>5, <1>6, <2>1, Zenon DEF TranscriptOK
  <2>3. \A x \in Node \ {n} : TranscriptOK(x)'
    BY <1>4, <1>6, Zenon DEF TranscriptOK
  <2> QED
    BY <2>2, <2>3, Zenon
<1>9. \A x \in Node : TallyOK(x)'
  BY <1>6, <1>7, Zenon DEF TallyOK
<1>10. Cast(n, v)' /\ \A x, w : Cast(x, w) => Cast(x, w)'
  <2>1. Cast(n, v)'
    BY <1>3, Zenon DEF Cast
  <2>2. \A x, w : Cast(x, w) => Cast(x, w)'
    BY <1>3, <1>7, Zenon DEF Cast
  <2> QED
    BY <2>1, <2>2, Zenon
<1>11. ASSUME NEW m \in voteNet'
       PROVE  InRound(view[m.to])' /\ m.vote = VoteOf(m.vote.voter, view'[m.to])
  <2>1. CASE m \in voteNet
    BY <2>1, Zenon DEF Lock, VotesOK, InRound
  <2>2. ASSUME NEW x \in Node, m = [to |-> x, vote |-> VoteOf(n, v)]
        PROVE  InRound(view[m.to])' /\ m.vote = VoteOf(m.vote.voter, view'[m.to])
    <3>1. m.to = x /\ m.vote = VoteOf(n, v) /\ m.vote.voter = n /\ view'[x] = v
      BY <1>1, <2>2, Zenon DEF VoteOf
    <3>2. InRound(v)'
      BY RoundKept
    <3> QED
      BY <3>1, <3>2, Zenon
  <2> QED
    BY <1>3, <2>1, <2>2, Zenon
<1> QED
  BY <1>8, <1>9, <1>10, <1>11, Zenon

\* A forward that is not the last one is only counted.
LEMMA LockAwait ==
  ASSUME ForwardsCount, TypeOK, LeaderOfView, CertWeight, Lock, NEW n \in Node,
         AwaitForwards(n), UNCHANGED <<early, lost>>
  PROVE  Lock'
<1>1. PICK v, p : v = view[n] /\ p = proposeChannel[n][1]
  BY Zenon
<1>2. /\ CountForward(n, p) /\ ~HasAllForwards(n, p)
      /\ UNCHANGED <<view, phase, up, head, BlocksByHeight, BlocksByHash,
                     equivocatingProposalInject, transcript, tally, voteTasks,
                     certTasks, voteNet, acks, evidence, certMap>>
  BY <1>1, Zenon DEF AwaitForwards, CountForward, roundVars, chainVars, voteVars
<1>3. head \in [Node -> Nat]
  BY SMTT(30) DEF TypeOK
<1>4. \A x \in Node : head'[x] \in Nat /\ head[x] <= head'[x]
  <2>1. \A i \in Nat : i <= i
    BY SMTT(30)
  <2> QED
    BY <1>2, <1>3, <2>1, Zenon
<1>5. /\ ~Full(n, v) /\ ~Full(n, v)'
      /\ \A x \in Node, w \in Nat \ {0} :
           x # n \/ w # v => (Full(x, w)' <=> Full(x, w))
      /\ \A x \in Node : HashesOK(x)' /\ RepOK(x)' /\ CertOK(x)' /\ ForwardsOK(x)'
      /\ PropsOK' /\ ChannelsOK' /\ Forwarded'
  BY <1>1, <1>2, <1>4, ForwardCounted, SMTT(30)
<1>6. \A x \in Node : NodeOK(x)
  BY Zenon DEF Lock
<1>7. \A x \in Node : ChainOK(x)' /\ TranscriptOK(x)' /\ TallyOK(x)' /\ PhaseOK(x)'
  <2> SUFFICES ASSUME NEW x \in Node
               PROVE  ChainOK(x)' /\ TranscriptOK(x)' /\ TallyOK(x)' /\ PhaseOK(x)'
    OBVIOUS
  <2>1. ChainOK(x)' /\ TranscriptOK(x)' /\ TallyOK(x)'
    BY <1>2, <1>6, Zenon DEF NodeOK, ChainOK, TranscriptOK, TallyOK
  <2>2. PhaseOK(x)'
    BY <1>2, <1>6, Zenon DEF NodeOK, PhaseOK
  <2> QED
    BY <2>1, <2>2, Zenon
<1>8. VotesOK'
  BY <1>2, VotesKept, Zenon DEF Lock
<1>9. \A x \in Node, w \in Nat \ {0} : Full(x, w)' <=> Full(x, w)
  BY <1>5, Zenon
<1>10. Accepted'
  BY <1>2, <1>9, Zenon DEF Lock, Accepted, Others
<1>11. Voted'
  BY <1>2, <1>9, Zenon DEF Lock, Voted, Cast
<1>12. \A x \in Node : NodeOK(x)'
  BY <1>5, <1>7, Zenon DEF NodeOK
<1>13. lost' = {} /\ early' = 0 /\ evidence' = {}
  BY <1>2, Zenon DEF Lock
<1> QED
  BY <1>5, <1>8, <1>10, <1>11, <1>12, <1>13, Zenon DEF Lock

\* With the last forward a node takes over the block and will vote.
LEMMA LockAccept ==
  ASSUME ForwardsCount, TypeOK, LeaderOfView, CertWeight, Lock, NEW n \in Node,
         AcceptBlock(n), UNCHANGED <<early, lost>>
  PROVE  Lock'
<1>1. PICK v, p : v = view[n] /\ p = proposeChannel[n][1]
  BY Zenon
<1>2. /\ CountForward(n, p) /\ HasAllForwards(n, p) /\ n # leader[n]
      /\ head' = [head EXCEPT ![n] = @ + 1]
      /\ addNewBlock(n, p.block)
      /\ transcript' =
           [transcript EXCEPT ![n] = addProposaltoMap(@, v, leader[n])]
      /\ voteTasks' = [voteTasks EXCEPT ![n] = @ \cup {p}]
      /\ UNCHANGED <<view, phase, up, equivocatingProposalInject, tally,
                     certTasks, voteNet, acks, evidence, certMap>>
  BY <1>1, Zenon DEF AcceptBlock, CountForward, roundVars, voteVars
<1>3. TakeProposal(n)
  BY <1>2, Zenon DEF CountForward
<1>4. InRound(v)
  BY <1>1, <1>3, TakeFacts, Zenon
<1>5. /\ v \in Nat \ {0} /\ LeaderOf(v) \in Node /\ leader[n] = LeaderOf(v)
      /\ head[n] \in (v - 1)..v /\ head \in [Node -> Nat]
      /\ voteTasks \in [Node -> SUBSET Proposal]
      /\ \A x \in Node : view[x] = v /\ phase[x] = "armed"
  BY <1>4, RoundFacts, Zenon DEF TypeOK, InRound
<1>6. n \in Others(v)
  BY <1>2, <1>5, Zenon DEF Others
<1>7. head'[n] = head[n] + 1 /\ \A x \in Node \ {n} : head'[x] = head[x]
  BY <1>2, <1>5, Zenon
<1>8. PICK s \in Others(v) : ~Counted(n, v, s)
  BY <1>1, <1>3, TakeFacts, SMTT(30)
<1>9. v \in Nat \ {0} /\ head[n] \in Nat /\ head[n] \in (v - 1)..v
  BY <1>5, Zenon
<1>10. head[n] = v - 1
  <2>1. ~Full(n, v)
    BY <1>8, Zenon DEF Full
  <2>2. ~(v <= head[n])
    BY <1>5, <1>6, <2>1, Zenon DEF Lock, Accepted
  <2> QED
    BY <1>9, <2>2, SMTT(30)
<1>11. head'[n] = v
  <2>1. head'[n] = (v - 1) + 1
    BY <1>7, <1>10, Zenon
  <2> QED
    BY <1>9, <2>1, SMTT(30)
<1>12. ASSUME NEW x \in Node PROVE head'[x] \in Nat /\ head[x] <= head'[x]
  <2>1. head[x] \in Nat /\ (x # n => head'[x] = head[x])
    BY <1>5, <1>7, Zenon
  <2> QED
    BY <1>10, <1>9, <1>11, <2>1, SMTT(30)
<1>13. ASSUME NEW w \in Nat \ {0}, w <= head'[LeaderOf(w)]
       PROVE  w <= head[LeaderOf(w)]
  <2>1. LeaderOf(w) \in Node
    BY LeaderType, Zenon
  <2>2. CASE LeaderOf(w) # n
    BY <1>7, <1>13, <2>1, <2>2, Zenon
  <2>3. CASE LeaderOf(w) = n
    <3>1. w # v
      BY <1>2, <1>5, <2>3, Zenon
    <3>2. w <= v
      BY <1>13, <1>11, <2>3, Zenon
    <3>3. w <= v - 1
      BY ONLY <1>9, <3>1, <3>2, SMTT(30)
    <3> QED
      BY <1>10, <2>3, <3>3, Zenon
  <2> QED
    BY <2>2, <2>3, Zenon
<1>14. /\ p.block = BlockOf(v) /\ p.miner = LeaderOf(v)
       /\ ~Full(n, v) /\ Full(n, v)'
       /\ \A x \in Node, w \in Nat \ {0} :
            x # n \/ w # v => (Full(x, w)' <=> Full(x, w))
       /\ \A x \in Node : HashesOK(x)' /\ RepOK(x)' /\ CertOK(x)' /\ ForwardsOK(x)'
       /\ PropsOK' /\ ChannelsOK' /\ Forwarded'
  BY <1>1, <1>2, <1>12, <1>13, ForwardCounted, SMTT(30)
<1>15. /\ head'[n] = v
       /\ \A x \in Node : transcript'[x].vote = transcript[x].vote
       /\ \A x \in Node : ChainOK(x)' /\ TranscriptOK(x)'
  BY <1>1, <1>2, <1>5, <1>10, <1>14, BlockAdded, Zenon
<1>16. \A x \in Node : NodeOK(x)
  BY Zenon DEF Lock
<1>17. ASSUME NEW x \in Node PROVE TallyOK(x)' /\ PhaseOK(x)'
  <2>1. TallyOK(x)'
    BY <1>2, <1>15, <1>16, Zenon DEF NodeOK, TallyOK
  <2>2. PhaseOK(x)
    BY <1>16, Zenon DEF NodeOK
  <2>3. \A m \in Node : head'[m] \in (v - 1)..v
    <3>1. view[x] = v
      BY <1>5, Zenon
    <3>2. \A m \in Node : head[m] \in (v - 1)..v
      BY <2>2, <3>1, Zenon DEF PhaseOK
    <3>3. v \in (v - 1)..v
      BY <1>9, SMTT(30)
    <3> QED
      BY <1>7, <1>11, <3>2, <3>3, Zenon
  <2>4. view'[x] = v /\ phase'[x] = "armed"
    BY <1>2, <1>5, Zenon
  <2>5. x = LeaderOf(v) => head'[x] = head[x]
    BY <1>2, <1>5, <1>7, Zenon
  <2> QED
    BY <1>2, <1>5, <2>1, <2>2, <2>3, <2>4, <2>5, Zenon DEF PhaseOK
<1>18. \A x \in Node : NodeOK(x)'
  BY <1>14, <1>15, <1>17, Zenon DEF NodeOK
<1>19. /\ voteTasks'[n] = voteTasks[n] \cup {p}
       /\ \A x \in Node \ {n} : voteTasks'[x] = voteTasks[x]
  BY <1>2, <1>5, Zenon
<1>20. VotesOK'
  <2>1. InRound(v)'
    BY <1>2, <1>4, RoundKept, Zenon
  <2>2. ASSUME NEW x \in Node, NEW q \in voteTasks'[x]
        PROVE  q.block = BlockOf(v) /\ q.miner = LeaderOf(v)
    <3>1. CASE q = p
      BY <1>14, <3>1, Zenon
    <3>2. CASE q \in voteTasks[x]
      <4>1. view[x] = v
        BY <1>5, Zenon
      <4> QED
        BY <3>2, <4>1, Zenon DEF Lock, VotesOK
    <3> QED
      BY <1>19, <3>1, <3>2, Zenon
  <2>3. \A m \in voteNet' :
          InRound(view[m.to])' /\ m.vote = VoteOf(m.vote.voter, view'[m.to])
    BY <1>2, ZenonT(30) DEF Lock, VotesOK, InRound
  <2>4. \A x \in Node : \A t \in certTasks'[x] :
          InRound(view[x])' /\ t.index = view'[x] /\ GoodCert(view'[x], t.cert)
    BY <1>2, SMTT(30) DEF Lock, VotesOK, InRound
  <2>5. \A x \in Node : view'[x] = v
    BY <1>2, <1>5, Zenon
  <2> QED
    BY <2>1, <2>2, <2>3, <2>4, <2>5, Zenon DEF VotesOK
<1>21. Accepted'
  <2> SUFFICES ASSUME NEW w \in Nat \ {0}, NEW x \in Others(w)
               PROVE  Full(x, w)' <=> w <= head'[x]
    BY SMTT(30) DEF Accepted
  <2>1. x \in Node /\ (Full(x, w) <=> w <= head[x])
    BY Zenon DEF Others, Lock, Accepted
  <2>2. CASE x = n /\ w = v
    <3>1. v <= v
      BY <1>9, SMTT(30)
    <3> QED
      BY <1>14, <1>11, <2>2, <3>1, Zenon
  <2>3. CASE x # n
    BY <1>7, <1>14, <2>1, <2>3, Zenon
  <2>4. CASE x = n /\ w # v
    <3>1. w <= head'[n] <=> w <= head[n]
      BY <1>10, <1>9, <1>11, <2>4, SMTT(30)
    <3> QED
      BY <1>14, <2>1, <2>4, <3>1, Zenon
  <2> QED
    BY <2>2, <2>3, <2>4, Zenon
<1>22. Voted'
  <2> SUFFICES ASSUME NEW w \in Nat \ {0}, NEW x \in Node, Full(x, w)'
               PROVE  (view'[x] = w /\ voteTasks'[x] # {}) \/ Cast(x, w)'
    BY Zenon DEF Voted
  <2>1. CASE x = n /\ w = v
    BY <1>2, <1>5, <1>19, <2>1, Zenon
  <2>2. CASE x # n \/ w # v
    <3>1. Full(x, w)
      BY <1>14, <2>2, Zenon
    <3>2. (view[x] = w /\ voteTasks[x] # {}) \/ Cast(x, w)
      BY <3>1, Zenon DEF Lock, Voted
    <3>3. Cast(x, w) => Cast(x, w)'
      BY <1>2, <1>15, SMTT(30) DEF Cast
    <3> QED
      BY <1>2, <1>19, <3>2, <3>3, Zenon
  <2> QED
    BY <2>1, <2>2, Zenon
<1>23. lost' = {} /\ early' = 0 /\ evidence' = {}
  BY <1>2, Zenon DEF Lock
<1> QED
  BY <1>14, <1>18, <1>20, <1>21, <1>22, <1>23, Zenon DEF Lock

\* With the last forward the leader votes.
LEMMA LockLeaderVotes ==
  ASSUME ForwardsCount, TypeOK, LeaderOfView, CertWeight, Lock, NEW n \in Node,
         LeaderVotes(n), UNCHANGED <<early, lost>>
  PROVE  Lock'
<1>1. PICK v, p : v = view[n] /\ p = proposeChannel[n][1]
  BY Zenon
<1>2. /\ CountForward(n, p) /\ HasAllForwards(n, p) /\ n = leader[n]
      /\ voteForBlock(n, p)
      /\ UNCHANGED <<view, phase, up, head, BlocksByHeight, BlocksByHash,
                     equivocatingProposalInject, tally, voteTasks, certTasks,
                     acks, evidence, certMap>>
  BY <1>1, Zenon DEF LeaderVotes, CountForward, roundVars, chainVars, voteVars
<1>3. head \in [Node -> Nat]
  BY DEF TypeOK
<1>4. \A x \in Node : head'[x] \in Nat /\ head[x] <= head'[x]
  <2>1. \A i \in Nat : i <= i
    OBVIOUS
  <2> QED
    BY <1>2, <1>3, <2>1, Zenon
<1>5. /\ InRound(v) /\ p.block = BlockOf(v) /\ p.miner = LeaderOf(v)
      /\ \A x \in Node, w \in Nat \ {0} :
           x # n \/ w # v => (Full(x, w)' <=> Full(x, w))
      /\ \A x \in Node : HashesOK(x)' /\ RepOK(x)' /\ CertOK(x)' /\ ForwardsOK(x)'
      /\ PropsOK' /\ ChannelsOK' /\ Forwarded'
  BY <1>1, <1>2, <1>4, ForwardCounted, SMTT(30)
<1>6. /\ \A x \in Node : TranscriptOK(x)' /\ TallyOK(x)'
      /\ Cast(n, v)' /\ \A x, w : Cast(x, w) => Cast(x, w)'
      /\ \A m \in voteNet' :
           InRound(view[m.to])' /\ m.vote = VoteOf(m.vote.voter, view'[m.to])
  <2>1. voteForBlock(n, p) /\ UNCHANGED <<view, phase, head, tally>>
    BY <1>2, Zenon
  <2>2. InRound(v) /\ p.block = BlockOf(v) /\ p.miner = LeaderOf(v)
    BY <1>5, Zenon
  <2> QED
    BY <2>1, <2>2, VoteSent, Zenon
<1>7. \A x \in Node : NodeOK(x)
  BY SMTT(30) DEF Lock
<1>8. \A x \in Node : ChainOK(x)' /\ PhaseOK(x)'
  <2>1. \A x \in Node : ChainOK(x)'
    BY <1>2, <1>7, Zenon DEF NodeOK, ChainOK
  <2>2. \A x \in Node : PhaseOK(x)'
    BY <1>2, <1>7, Zenon DEF NodeOK, PhaseOK
  <2> QED
    BY <2>1, <2>2, Zenon
<1>9. VotesOK'
  BY <1>2, <1>6, Zenon DEF Lock, VotesOK, InRound
<1>10. Accepted'
  <2> SUFFICES ASSUME NEW w \in Nat \ {0}, NEW x \in Others(w)
               PROVE  Full(x, w)' <=> w <= head'[x]
    BY Zenon DEF Accepted
  <2>1. n = LeaderOf(v)
    BY <1>2, <1>5, RoundFacts, Zenon
  <2>2. x \in Node /\ (x # n \/ w # v)
    BY <2>1, Zenon DEF Others
  <2> QED
    BY <1>2, <1>5, <2>2, Zenon DEF Lock, Accepted
<1>11. Voted'
  <2> SUFFICES ASSUME NEW w \in Nat \ {0}, NEW x \in Node, Full(x, w)'
               PROVE  (view'[x] = w /\ voteTasks'[x] # {}) \/ Cast(x, w)'
    BY Zenon DEF Voted
  <2>1. CASE x = n /\ w = v
    BY <1>6, <2>1, Zenon
  <2>2. CASE x # n \/ w # v
    BY <1>2, <1>5, <1>6, <2>2, Zenon DEF Lock, Voted
  <2> QED
    BY <2>1, <2>2, Zenon
<1>12. \A x \in Node : NodeOK(x)'
  BY <1>5, <1>6, <1>8, Zenon DEF NodeOK
<1>13. lost' = {} /\ early' = 0 /\ evidence' = {}
  BY <1>2, Zenon DEF Lock
<1> QED
  BY <1>5, <1>9, <1>10, <1>11, <1>12, <1>13, Zenon DEF Lock

\* The handler of forwards: no forward is rejected, and no leader accused.
LEMMA LockForward ==
  ASSUME ForwardsCount, TypeOK, LeaderOfView, CertWeight, Lock, NEW n \in Node,
         HandleForward(n), UNCHANGED <<early, lost>>
  PROVE  Lock'
<1>1. ~RejectForward(n)
  BY TakeFacts, Zenon DEF RejectForward
<1>2. ~DetectEquivocation(n)
  BY TakeFacts, Zenon DEF DetectEquivocation
<1> QED
  BY <1>1, <1>2, LockAwait, LockAccept, LockLeaderVotes, Zenon DEF HandleForward

-------------------------------------------------------------------------------
\* Votes and certificates within a round.

\* The proposals do not notice.
LEMMA ForwardsFrame ==
  ASSUME Lock, UNCHANGED <<view, phase, head, certMap, fpropMap, proposeChannel,
                           propNet>>
  PROVE  PropsOK' /\ ChannelsOK' /\ Forwarded' /\ Accepted'
<1>1. /\ \A w : Orig(w)' = Orig(w)
      /\ \A w, s : Fwd(w, s)' = Fwd(w, s)
  BY MessagesKept, Zenon
<1>2. /\ \A x, w, s : Counted(x, w, s)' <=> Counted(x, w, s)
      /\ \A x, w, s : Queued(x, w, s)' <=> Queued(x, w, s)
      /\ \A x, w, s : InFlight(x, w, s)' <=> InFlight(x, w, s)
      /\ \A s, w : Asked(s, w)' <=> Asked(s, w)
      /\ \A w : InRound(w)' <=> InRound(w)
  BY <1>1, Zenon DEF Counted, Queued, InFlight, Asked, InRound
<1>3. PropsOK'
  BY <1>1, <1>2, Zenon DEF Lock, PropsOK, PropOK
<1>4. ChannelsOK'
  BY <1>1, <1>2, Zenon DEF Lock, ChannelsOK, ChannelOK
<1>5. Forwarded'
  BY <1>2, Zenon DEF Lock, Forwarded
<1>6. Accepted'
  BY <1>2, Zenon DEF Lock, Accepted, Full
<1> QED
  BY <1>3, <1>4, <1>5, <1>6, Zenon

\* The vote of a node goes to everybody.
LEMMA LockCastVote ==
  ASSUME TypeOK, LeaderOfView, Lock, NEW n \in Node, NEW p \in voteTasks[n],
         CastVote(n, p), UNCHANGED <<early, lost>>
  PROVE  Lock'
<1>1. PICK v : v = view[n]
  BY Zenon
<1>2. /\ voteTasks' = [voteTasks EXCEPT ![n] = @ \ {p}]
      /\ voteForBlock(n, p)
      /\ UNCHANGED <<view, phase, up, head, BlocksByHeight, BlocksByHash,
                     certMap, reputationMap, proposalByviewMap,
                     equivocatingProposalInject, fpropMap, tally,
                     proposeChannel, certTasks, propNet, acks, evidence>>
  BY Zenon DEF CastVote, roundVars, chainVars, forwVars, voteVars
<1>3. InRound(v) /\ p.block = BlockOf(v) /\ p.miner = LeaderOf(v)
  BY <1>1, Zenon DEF Lock, VotesOK
<1>4. /\ \A x \in Node : TranscriptOK(x)' /\ TallyOK(x)'
      /\ Cast(n, v)' /\ \A x, w : Cast(x, w) => Cast(x, w)'
      /\ \A m \in voteNet' :
           InRound(view[m.to])' /\ m.vote = VoteOf(m.vote.voter, view'[m.to])
  BY <1>2, <1>3, VoteSent, Zenon
<1>5. \A x \in Node : NodeOK(x)
  BY Zenon DEF Lock
<1>6. ASSUME NEW x \in Node
      PROVE  ChainOK(x)' /\ HashesOK(x)' /\ RepOK(x)' /\ CertOK(x)'
               /\ ForwardsOK(x)' /\ PhaseOK(x)'
  <2>1. ChainOK(x)' /\ HashesOK(x)'
    BY <1>2, <1>5, Zenon DEF NodeOK, ChainOK, HashesOK
  <2>2. RepOK(x)' /\ CertOK(x)' /\ ForwardsOK(x)'
    BY <1>2, <1>5, Zenon DEF NodeOK, RepOK, CertOK, ForwardsOK
  <2>3. PhaseOK(x)'
    BY <1>2, <1>5, Zenon DEF NodeOK, PhaseOK
  <2> QED
    BY <2>1, <2>2, <2>3, Zenon
<1>7. \A x \in Node : NodeOK(x)'
  BY <1>4, <1>6, Zenon DEF NodeOK
<1>8. PropsOK' /\ ChannelsOK' /\ Forwarded' /\ Accepted'
  BY <1>2, ForwardsFrame, Zenon
<1>9. \A x \in Node : voteTasks'[x] \subseteq voteTasks[x]
                        /\ (x # n => voteTasks'[x] = voteTasks[x])
  BY <1>2, Zenon DEF TypeOK
<1>10. VotesOK'
  <2>1. VotesOK
    BY Zenon DEF Lock
  <2>2. ASSUME NEW x \in Node PROVE InRound(view[x])' <=> InRound(view[x])
    BY <1>2, Zenon DEF InRound
  <2>3. \A x \in Node : \A q \in voteTasks'[x] :
          /\ InRound(view[x])' /\ q.block = BlockOf(view'[x])
          /\ q.miner = LeaderOf(view'[x])
    BY <1>2, <1>9, <2>1, <2>2, Zenon DEF VotesOK
  <2>4. \A x \in Node : \A t \in certTasks'[x] :
          InRound(view[x])' /\ t.index = view'[x] /\ GoodCert(view'[x], t.cert)
    BY <1>2, <2>1, <2>2, Zenon DEF VotesOK
  <2> QED
    BY <1>4, <2>3, <2>4, Zenon DEF VotesOK
<1>11. Voted'
  <2> SUFFICES ASSUME NEW w \in Nat \ {0}, NEW x \in Node, Full(x, w)'
               PROVE  (view'[x] = w /\ voteTasks'[x] # {}) \/ Cast(x, w)'
    BY Zenon DEF Voted
  <2>1. Full(x, w)
    BY <1>2, Zenon DEF Full, Counted
  <2>2. (view[x] = w /\ voteTasks[x] # {}) \/ Cast(x, w)
    BY <2>1, Zenon DEF Lock, Voted
  <2> QED
    BY <1>1, <1>2, <1>4, <1>9, <2>2, Zenon
<1>12. lost' = {} /\ early' = 0 /\ evidence' = {}
  BY <1>2 DEF Lock
<1> QED
  BY <1>7, <1>8, <1>10, <1>11, <1>12, Zenon DEF Lock

\* A vote received in a round is a vote of this round, and not malicious.
LEMMA VoteFacts ==
  ASSUME TypeOK, LeaderOfView, Lock, NEW n \in Node, NEW m \in voteNet,
         ReceiveVote(n, m), NEW v, v = view[n]
  PROVE  /\ InRound(v) /\ v \in Nat \ {0} /\ ~IsMalicious(n, m.vote)
         /\ m.vote.voter \in Node
         /\ m = [to |-> n, vote |-> VoteOf(m.vote.voter, v)]
         /\ m.vote = VoteOf(m.vote.voter, v)
<1>1. /\ m.to = n /\ m = [to |-> m.to, vote |-> m.vote] /\ m.vote.voter \in Node
  BY Zenon DEF ReceiveVote, TypeOK, Vote
<1>2. InRound(v) /\ m.vote = VoteOf(m.vote.voter, v)
  BY <1>1 DEF Lock, VotesOK
<1>3. v \in Nat \ {0} /\ leader[n] = LeaderOf(v)
  BY <1>2, RoundFacts, ZenonT(30)
<1>4. m.vote.owner = LeaderOf(v)
  BY <1>2, SMTT(30) DEF VoteOf
<1> QED
  BY <1>1, <1>2, <1>3, <1>4, Zenon DEF IsMalicious

\* A vote that leaves the network has been credited.
LEMMA VoteTaken ==
  ASSUME NEW n, NEW s, NEW v,
         voteNet' = voteNet \ {[to |-> n, vote |-> VoteOf(s, v)]},
         \A x \in Node : transcript[x].vote \subseteq transcript'[x].vote,
         <<v, s>> \in transcript'[n].vote
  PROVE  \A x, w : Cast(x, w) => Cast(x, w)'
<1> SUFFICES ASSUME NEW x, NEW w, Cast(x, w), NEW k \in Node
             PROVE  \/ <<w, x>> \in transcript'[k].vote
                    \/ [to |-> k, vote |-> VoteOf(x, w)] \in voteNet'
  BY DEF Cast
<1>1. \/ <<w, x>> \in transcript[k].vote
      \/ [to |-> k, vote |-> VoteOf(x, w)] \in voteNet
  BY Zenon DEF Cast
<1>2. CASE [to |-> k, vote |-> VoteOf(x, w)] = [to |-> n, vote |-> VoteOf(s, v)]
  <2>1. k = n /\ VoteOf(x, w) = VoteOf(s, v)
    BY <1>2, Zenon
  <2>2. x = s /\ w = v
    BY <2>1, Zenon DEF VoteOf
  <2> QED
    BY <2>1, <2>2, Zenon
<1>3. CASE [to |-> k, vote |-> VoteOf(x, w)] # [to |-> n, vote |-> VoteOf(s, v)]
  BY <1>1, <1>3, Zenon
<1> QED
  BY <1>2, <1>3, SMTT(30)

\* Voting and counting votes, given what happens to the transcripts, the
\* tallies and the certificates under way.
LEMMA VoteStep ==
  ASSUME TypeOK, Lock, NEW n \in Node,
         UNCHANGED <<view, phase, up, head, BlocksByHeight, BlocksByHash,
                     certMap, reputationMap, proposalByviewMap,
                     equivocatingProposalInject, fpropMap, proposeChannel,
                     voteTasks, propNet, acks, evidence, early, lost>>,
         voteNet' \subseteq voteNet,
         \A x \in Node : TranscriptOK(x)' /\ TallyOK(x)',
         \A x, w : Cast(x, w) => Cast(x, w)',
         \A x \in Node : \A t \in certTasks'[x] :
           InRound(view[x]) /\ t.index = view[x] /\ GoodCert(view[x], t.cert)
  PROVE  Lock'
<1>1. \A x \in Node : NodeOK(x)
  BY Zenon DEF Lock
<1>2. ASSUME NEW x \in Node
      PROVE  ChainOK(x)' /\ HashesOK(x)' /\ RepOK(x)' /\ CertOK(x)'
               /\ ForwardsOK(x)' /\ PhaseOK(x)'
  <2>1. ChainOK(x)' /\ HashesOK(x)'
    BY <1>1, Zenon DEF NodeOK, ChainOK, HashesOK
  <2>2. RepOK(x)' /\ CertOK(x)' /\ ForwardsOK(x)'
    BY <1>1, Zenon DEF NodeOK, RepOK, CertOK, ForwardsOK
  <2>3. PhaseOK(x)'
    BY <1>1, Zenon DEF NodeOK, PhaseOK
  <2> QED
    BY <2>1, <2>2, <2>3, Zenon
<1>3. \A x \in Node : NodeOK(x)'
  BY <1>2, Zenon DEF NodeOK
<1>4. PropsOK' /\ ChannelsOK' /\ Forwarded' /\ Accepted'
  BY ForwardsFrame, Zenon
<1>5. VotesOK'
  BY Zenon DEF Lock, VotesOK, InRound
<1>6. Voted'
  BY Zenon DEF Lock, Voted, Full, Counted
<1> QED
  BY <1>3, <1>4, <1>5, <1>6, Zenon DEF Lock

\* A second vote of a voter changes nothing.
LEMMA LockDropVote ==
  ASSUME TypeOK, LeaderOfView, Lock, NEW n \in Node, NEW m \in voteNet,
         DropDuplicateVote(n, m), UNCHANGED <<early, lost>>
  PROVE  Lock'
<1>1. PICK v, s : v = view[n] /\ s = m.vote.voter
  BY Zenon
<1>2. /\ ReceiveVote(n, m) /\ IsDuplicate(n, m.vote)
      /\ voteNet' = voteNet \ {m}
      /\ UNCHANGED <<view, phase, up, head, BlocksByHeight, BlocksByHash,
                     certMap, reputationMap, proposalByviewMap,
                     equivocatingProposalInject, fpropMap, proposeChannel,
                     voteTasks, propNet, acks, evidence, transcript, tally,
                     certTasks>>
  BY DEF DropDuplicateVote, ReceiveVote, roundVars, chainVars, forwVars, voteVars
<1>3. m = [to |-> n, vote |-> VoteOf(s, v)]
  BY <1>1, <1>2, VoteFacts, ZenonT(30)
<1>4. \A x \in Node : TranscriptOK(x) /\ TallyOK(x)
  BY Zenon DEF Lock, NodeOK
<1>5. PICK e \in tally[n] : e[1] = v /\ e[2].voter = s
  BY <1>1, <1>2, Zenon DEF IsDuplicate, Tallied
<1>6. <<v, s>> \in transcript'[n].vote
  BY <1>2, <1>4, <1>5, Zenon DEF TallyOK
<1>7. \A x, w : Cast(x, w) => Cast(x, w)'
  <2>1. voteNet' = voteNet \ {[to |-> n, vote |-> VoteOf(s, v)]}
    BY <1>2, <1>3, Zenon
  <2>2. \A x \in Node : transcript[x].vote \subseteq transcript'[x].vote
    BY <1>2, Zenon
  <2> QED
    BY <1>6, <2>1, <2>2, VoteTaken, Zenon
<1>8. \A x \in Node : TranscriptOK(x)' /\ TallyOK(x)'
  BY <1>2, <1>4, Zenon DEF TranscriptOK, TallyOK
<1>9. \A x \in Node : \A t \in certTasks'[x] :
        InRound(view[x]) /\ t.index = view[x] /\ GoodCert(view[x], t.cert)
  BY <1>2, Zenon DEF Lock, VotesOK
<1>10. voteNet' \subseteq voteNet
  BY <1>2, Zenon
<1> QED
  BY <1>2, <1>7, <1>8, <1>9, <1>10, VoteStep, Zenon

\* A first vote is recorded, and may complete the certificate.
LEMMA LockCountVote ==
  ASSUME TypeOK, LeaderOfView, Lock, NEW n \in Node, NEW m \in voteNet,
         CountVote(n, m), UNCHANGED <<early, lost>>
  PROVE  Lock'
<1>1. PICK v, s : v = view[n] /\ s = m.vote.voter
  BY Zenon
<1> DEFINE c == NewCert(Tallied(n) \cup {m.vote}, m.vote)
<1>2. /\ ReceiveVote(n, m)
      /\ voteNet' = voteNet \ {m}
      /\ transcript' = [transcript EXCEPT ![n] = addVotetoMap(transcript[n], v, s)]
      /\ UNCHANGED <<view, phase, up, head, BlocksByHeight, BlocksByHash,
                     certMap, reputationMap, proposalByviewMap,
                     equivocatingProposalInject, fpropMap, proposeChannel,
                     voteTasks, propNet, acks, evidence>>
  BY <1>1, Zenon DEF CountVote, CreditVoter, ReceiveVote, roundVars, chainVars, forwVars,
     voteVars
<1>3. /\ InRound(v) /\ v \in Nat \ {0} /\ s \in Node
      /\ m = [to |-> n, vote |-> VoteOf(s, v)] /\ m.vote = VoteOf(s, v)
  BY <1>1, <1>2, VoteFacts
<1>4. /\ transcript \in [Node -> Transcript]
      /\ tally \in [Node -> SUBSET (Nat \X Vote)]
      /\ certTasks \in [Node -> SUBSET [index : Nat, cert : Cert]]
      /\ \A x \in Node : TranscriptOK(x) /\ TallyOK(x)
  BY ZenonT(30) DEF TypeOK, Lock, NodeOK
<1>5. /\ tally' = tally \/ tally' = [tally EXCEPT ![n] = @ \cup {<<v, m.vote>>}]
      /\ \/ certTasks' = certTasks
         \/ certTasks' = [certTasks EXCEPT ![n] =
                            @ \cup {[index |-> v, cert |-> c]}]
  BY <1>1, Zenon DEF CountVote, voteVars
<1>6. /\ \A x \in Node : \A e \in tally'[x] :
           e \in tally[x] \/ (x = n /\ e = <<v, m.vote>>)
      /\ \A x \in Node : \A t \in certTasks'[x] :
           t \in certTasks[x] \/ (x = n /\ t = [index |-> v, cert |-> c])
  <2> HIDE DEF c
  <2> QED
    BY <1>4, <1>5, SMTT(30)
<1>7. /\ transcript'[n] = [transcript[n] EXCEPT !.vote = @ \cup {<<v, s>>}]
      /\ \A x \in Node \ {n} : transcript'[x] = transcript[x]
  BY <1>2, <1>4, SMTT(30) DEF addVotetoMap
<1>8. /\ transcript'[n].vote = transcript[n].vote \cup {<<v, s>>}
      /\ transcript'[n].prop = transcript[n].prop
      /\ transcript'[n].maliVote = transcript[n].maliVote
      /\ transcript'[n].with = transcript[n].with
      /\ transcript'[n].equi = transcript[n].equi
      /\ transcript'[n].maliProp = transcript[n].maliProp
  BY <1>4, <1>7, ZenonT(30) DEF Transcript
<1>9. \A x \in Node : TranscriptOK(x)'
  <2>1. <<v, s>> \in VoteRecords(v)
    BY <1>3, SMTT(30) DEF VoteRecords
  <2>2. TranscriptOK(n)'
    BY <1>1, <1>2, <1>4, <1>8, <2>1, SMTT(30) DEF TranscriptOK
  <2>3. \A x \in Node \ {n} : TranscriptOK(x)'
    BY <1>2, <1>4, <1>7, Zenon DEF TranscriptOK
  <2> QED
    BY <2>2, <2>3, Zenon
<1>10. \A x \in Node : transcript[x].vote \subseteq transcript'[x].vote
  BY <1>7, <1>8, Zenon
<1>11. m.vote.hash = Chain(v) /\ m.vote.view = v /\ m.vote.voter = s
  BY <1>3, Zenon DEF VoteOf
<1>12. ASSUME NEW x \in Node PROVE TallyOK(x)'
  <2> SUFFICES ASSUME NEW e \in tally'[x]
               PROVE  /\ e[2].hash = Chain(e[1]) /\ e[2].view = e[1]
                      /\ <<e[1], e[2].voter>> \in transcript'[x].vote
    BY Zenon DEF TallyOK
  <2>1. CASE e \in tally[x]
    BY <1>4, <1>10, <2>1, Zenon DEF TallyOK
  <2>2. CASE x = n /\ e = <<v, m.vote>>
    <3>1. e[1] = v /\ e[2] = m.vote
      BY <2>2, Zenon
    <3> QED
      BY <1>8, <1>11, <2>2, <3>1, Zenon
  <2> QED
    BY <1>6, <2>1, <2>2, SMTT(30)
<1>13. \A x, w : Cast(x, w) => Cast(x, w)'
  <2>1. voteNet' = voteNet \ {[to |-> n, vote |-> VoteOf(s, v)]}
    BY <1>2, <1>3, Zenon
  <2>2. <<v, s>> \in transcript'[n].vote
    BY <1>8, Zenon
  <2> QED
    BY <1>10, <2>1, <2>2, VoteTaken, Zenon
<1>14. GoodCert(v, c)
  <2>1. c.hash = Chain(v) /\ c.view = v /\ c.votes = Tallied(n) \cup {m.vote}
    BY <1>11, Zenon DEF NewCert
  <2>2. \A w \in Tallied(n) : w.hash = Chain(v) /\ w.view = v
    BY <1>1, <1>4, Zenon DEF Tallied, TallyOK
  <2> HIDE DEF c
  <2> QED
    BY <1>11, <2>1, <2>2, Zenon DEF GoodCert
<1>15. ASSUME NEW x \in Node, NEW t \in certTasks'[x]
       PROVE  InRound(view[x]) /\ t.index = view[x] /\ GoodCert(view[x], t.cert)
  <2>1. CASE t \in certTasks[x]
    BY <2>1, SMTT(30) DEF Lock, VotesOK
  <2>2. CASE x = n /\ t = [index |-> v, cert |-> c]
    <3> HIDE DEF c
    <3>1. t.index = v /\ t.cert = c
      BY <2>2, Zenon
    <3> QED
      BY <1>1, <1>3, <1>14, <2>2, <3>1, Zenon
  <2> QED
    BY <1>6, <2>1, <2>2, ZenonT(30)
<1>16. voteNet' \subseteq voteNet
  BY <1>2, Zenon
<1> QED
  BY <1>2, <1>9, <1>12, <1>13, <1>15, <1>16, VoteStep, Zenon

\* The handler of votes: no voter is accused.
LEMMA LockVote ==
  ASSUME TypeOK, LeaderOfView, Lock, NEW n \in Node, NEW m \in voteNet,
         HandleVote(n, m), UNCHANGED <<early, lost>>
  PROVE  Lock'
<1>1. ~AccuseVoter(n, m)
  BY VoteFacts, Zenon DEF AccuseVoter
<1> QED
  BY <1>1, LockDropVote, LockCountVote, Zenon DEF HandleVote

\* A new certificate is the one of the current view: the certificates that
\* the proposals under way carry stay as they are.
LEMMA LockAddCert ==
  ASSUME TypeOK, LeaderOfView, Lock, NEW n \in Node, NEW t \in certTasks[n],
         addCert(n, t), UNCHANGED <<early, lost>>
  PROVE  Lock'
<1>1. PICK v : v = view[n]
  BY Zenon
<1>2. /\ certTasks' = [certTasks EXCEPT ![n] = @ \ {t}]
      /\ certMap' = [certMap EXCEPT ![n] = Put(@, t.index, t.cert)]
      /\ UNCHANGED <<view, phase, up, head, BlocksByHeight, BlocksByHash,
                     reputationMap, transcript, proposalByviewMap,
                     equivocatingProposalInject, fpropMap, tally,
                     proposeChannel, voteTasks, propNet, voteNet, acks, evidence>>
  BY ZenonT(30) DEF addCert, roundVars, chainVars, repVars, forwVars, voteVars
<1>3. InRound(v) /\ t.index = v /\ GoodCert(v, t.cert)
  BY <1>1, Zenon DEF Lock, VotesOK
<1>4. /\ v \in Nat \ {0} /\ \A x \in Node : view[x] = v /\ phase[x] = "armed"
      /\ DOMAIN certMap = Node /\ head \in [Node -> Nat]
      /\ certTasks \in [Node -> SUBSET [index : Nat, cert : Cert]]
      /\ propNet \subseteq [to : Node, prop : Proposal]
  BY <1>3, RoundFacts, ZenonT(30) DEF TypeOK, IsMapOf, InRound
<1>5. /\ certMap'[n] = Put(certMap[n], v, t.cert)
      /\ \A x \in Node \ {n} : certMap'[x] = certMap[x]
  BY <1>2, <1>3, <1>4, Zenon
<1>6. \A x \in Node : NodeOK(x)
  BY Zenon DEF Lock
<1>7. \A x \in Node : CertOK(x)'
  <2>1. CertOK(n)
    BY <1>6, Zenon DEF NodeOK
  <2>2. DOMAIN certMap'[n] = DOMAIN certMap[n] \cup {v}
    BY <1>5, Zenon DEF Put
  <2>3. \A i \in DOMAIN certMap'[n] : GoodCert(i, certMap'[n][i])
    BY <1>3, <1>5, <2>1, <2>2, Zenon DEF Put, CertOK
  <2>4. CertOK(n)'
    BY <1>2, <2>1, <2>2, <2>3, Zenon DEF CertOK
  <2>5. \A x \in Node \ {n} : CertOK(x)'
    BY <1>2, <1>5, <1>6, Zenon DEF NodeOK, CertOK
  <2> QED
    BY <2>4, <2>5, Zenon
<1>8. ASSUME NEW x \in Node
      PROVE  ChainOK(x)' /\ HashesOK(x)' /\ TranscriptOK(x)' /\ RepOK(x)'
               /\ TallyOK(x)' /\ ForwardsOK(x)' /\ PhaseOK(x)'
  <2>1. ChainOK(x)' /\ HashesOK(x)' /\ TranscriptOK(x)'
    BY <1>2, <1>6, Zenon DEF NodeOK, ChainOK, HashesOK, TranscriptOK
  <2>2. RepOK(x)' /\ TallyOK(x)' /\ ForwardsOK(x)'
    BY <1>2, <1>6, Zenon DEF NodeOK, RepOK, TallyOK, ForwardsOK
  <2>3. PhaseOK(x) /\ phase'[x] = "armed"
    BY <1>2, <1>4, <1>6, Zenon DEF NodeOK
  <2>4. PhaseOK(x)'
    BY <1>2, <2>3, Zenon DEF PhaseOK
  <2> QED
    BY <2>1, <2>2, <2>4, Zenon
<1>9. \A x \in Node : NodeOK(x)'
  BY <1>7, <1>8, Zenon DEF NodeOK
<1>10. ASSUME NEW w \in 1..v
      PROVE  Orig(w)' = Orig(w) /\ \A s : Fwd(w, s)' = Fwd(w, s)
  <2>1. w \in Nat \ {0} /\ w - 1 \in 0..(v - 1) /\ w - 1 # v
    BY <1>4, SMTT(30)
  <2>2. LeaderOf(w) \in Node
    BY <2>1, LeaderType, Zenon
  <2>3. w - 1 \in DOMAIN certMap[LeaderOf(w)]
    BY <1>4, <1>6, <2>1, <2>2, Zenon DEF NodeOK, CertOK
  <2>4. certMap'[LeaderOf(w)][w - 1] = certMap[LeaderOf(w)][w - 1]
    BY <1>5, <2>1, <2>2, <2>3, Zenon DEF Put
  <2>5. CertOf(w)' = CertOf(w)
    BY <2>4, Zenon DEF CertOf
  <2> QED
    BY <2>5, Zenon DEF Orig, Fwd
<1>11. ASSUME NEW w \in 1..v
       PROVE  /\ \A x, s : Counted(x, w, s)' <=> Counted(x, w, s)
              /\ \A x, s : Queued(x, w, s)' <=> Queued(x, w, s)
              /\ \A x, s : InFlight(x, w, s)' <=> InFlight(x, w, s)
              /\ \A s : Asked(s, w)' <=> Asked(s, w)
  BY <1>2, <1>10, Zenon DEF Counted, Queued, InFlight, Asked
<1>12. v \in 1..v
  BY <1>4, SMTT(30)
<1>13. InRound(v)'
  BY <1>2, <1>3, RoundKept, Zenon
<1>14. PropsOK'
  <2> SUFFICES ASSUME NEW k \in propNet PROVE PropOK(v, k)' /\ view'[k.to] = v
    BY <1>2, Zenon DEF PropsOK
  <2>1. k.to \in Node /\ view[k.to] = v /\ PropOK(v, k)
    BY <1>4, Zenon DEF Lock, PropsOK
  <2>2. PropOK(v, k)'
    BY <1>10, <1>11, <1>12, <1>13, <2>1, Zenon DEF PropOK
  <2> QED
    BY <1>2, <2>1, <2>2, Zenon
<1>15. ChannelsOK'
  <2> SUFFICES ASSUME NEW x \in Node PROVE ChannelOK(x, v)'
    BY <1>2, <1>4, Zenon DEF ChannelsOK
  <2>1. ChannelOK(x, v)
    BY <1>4, Zenon DEF Lock, ChannelsOK
  <2> QED
    BY <1>2, <1>10, <1>11, <1>12, <1>13, <2>1, Zenon DEF ChannelOK
<1>16. Forwarded'
  <2> SUFFICES ASSUME NEW w \in Nat \ {0}, NEW s \in Others(w),
                      w <= head[LeaderOf(w)]
               PROVE  \/ Asked(s, w)'
                      \/ \A x \in Node : \/ Counted(x, w, s)' \/ Queued(x, w, s)'
                                         \/ InFlight(x, w, s)'
    BY <1>2, Zenon DEF Forwarded
  <2>1. LeaderOf(w) \in Node /\ PhaseOK(n)
    BY <1>6, LeaderType, Zenon DEF NodeOK
  <2>2. head[LeaderOf(w)] \in (v - 1)..v
    BY <1>1, <2>1, Zenon DEF PhaseOK
  <2>3. w \in 1..v
    BY <1>4, <2>2, SMTT(30)
  <2> QED
    BY <1>11, <2>3, Zenon DEF Lock, Forwarded
<1>17. Accepted'
  BY <1>2, Zenon DEF Lock, Accepted, Full, Counted
<1>18. Voted'
  BY <1>2, Zenon DEF Lock, Voted, Full, Counted, Cast
<1>19. \A x \in Node : certTasks'[x] \subseteq certTasks[x]
  BY <1>2, <1>4, Zenon
<1>20. VotesOK'
  BY <1>2, <1>19, ZenonT(30) DEF Lock, VotesOK, InRound
<1>21. lost' = {} /\ early' = 0 /\ evidence' = {}
  BY <1>2, SMTT(30) DEF Lock
<1> QED
  BY <1>9, <1>14, <1>15, <1>16, <1>17, <1>18, <1>20, <1>21, Zenon DEF Lock

-------------------------------------------------------------------------------
\* The first state, and steps that change nothing.

\* Before the first round nothing is under way and all nodes are alike.
LEMMA LockInit == SyncInit => Lock
<1> SUFFICES ASSUME SyncInit PROVE Lock
  BY SMTT(30)
<1>1. Init /\ early = 0 /\ lost = {} /\ evidence = {}
  BY Zenon DEF SyncInit, Init
<1>2. ASSUME NEW n \in Node
      PROVE  /\ view[n] = 1 /\ head[n] = 0 /\ phase[n] = "ready" /\ up[n]
             /\ ~equivocatingProposalInject[n]
             /\ BlocksByHeight[n] = <<>> /\ BlocksByHash[n] = {} /\ acks[n] = <<>>
             /\ certMap[n] = [i \in {0} |-> GenesisCert]
             /\ proposalByviewMap[n] = <<>>
             /\ reputationMap[n] = [v \in {1} |-> [id \in Node |-> initialNodescore]]
             /\ transcript[n] = EmptyTranscript
             /\ fpropMap[n] = {} /\ tally[n] = {} /\ proposeChannel[n] = <<>>
             /\ voteTasks[n] = {} /\ certTasks[n] = {}
  BY <1>1, Zenon DEF Init
<1>3. 1..0 = {} /\ 1 - 1 = 0 /\ 0..0 = {0} /\ 1..1 = {1} /\ 0 \in 0..1
  OBVIOUS
<1>4. ASSUME NEW n \in Node PROVE NodeOK(n)
  <2>1. ChainOK(n) /\ HashesOK(n)
    BY <1>2, <1>3, SMTT(30) DEF ChainOK, HashesOK
  <2>2. TranscriptOK(n)
    BY <1>2, <1>3, SMTT(30) DEF TranscriptOK, EmptyTranscript, PropRecords
  <2>3. RepOK(n)
    BY <1>2, <1>3, SMTT(30) DEF RepOK, RepOf
  <2>4. CertOK(n)
    <3>1. Chain(0) = EmptyHash
      BY ChainType, Zenon
    <3>2. GoodCert(0, GenesisCert)
      BY <3>1, Zenon DEF GoodCert, GenesisCert
    <3> QED
      BY <1>2, <1>3, <3>2, SMTT(30) DEF CertOK
  <2>5. TallyOK(n) /\ ForwardsOK(n)
    BY <1>2, Zenon DEF TallyOK, ForwardsOK
  <2>6. PhaseOK(n)
    BY <1>2, <1>3, SMTT(30) DEF PhaseOK
  <2> QED
    BY <2>1, <2>2, <2>3, <2>4, <2>5, <2>6, Zenon DEF NodeOK
<1>5. propNet = {} /\ voteNet = {}
  BY <1>1, Zenon DEF Init
<1>6. PropsOK /\ VotesOK
  BY <1>2, <1>5, ZenonT(30) DEF PropsOK, VotesOK
<1>7. ChannelsOK
  BY <1>2, SMTT(30) DEF ChannelsOK, ChannelOK, Range, IsInjective
<1>8. ASSUME NEW v \in Nat \ {0}, NEW n \in Node PROVE ~Full(n, v) /\ ~(v <= head[n])
  <2>1. \E s \in Node : s # LeaderOf(v)
    <3>1. 0 \in Node /\ 1 \in Node
      BY NAssumption, SMTT(30) DEF Node
    <3> QED
      BY <3>1, SMTT(30)
  <2>2. ~Full(n, v)
    BY <1>2, <2>1, Zenon DEF Full, Counted, Others
  <2> QED
    BY <1>2, <2>2, SMTT(30)
<1>9. Forwarded
  BY <1>8, LeaderType, Zenon DEF Forwarded
<1>10. Accepted /\ Voted
  BY <1>8, Zenon DEF Accepted, Voted, Others
<1> QED
  BY <1>1, <1>4, <1>6, <1>7, <1>9, <1>10, Zenon DEF Lock

\* Steps that change nothing.
LEMMA LockStutter == Lock /\ UNCHANGED syncVars => Lock'
<1> SUFFICES ASSUME Lock, UNCHANGED syncVars PROVE Lock'
  BY SMTT(30)
<1>1. /\ UNCHANGED <<view, phase, up, head, BlocksByHeight, BlocksByHash,
                     certMap, reputationMap, transcript, proposalByviewMap,
                     equivocatingProposalInject, fpropMap, tally, acks>>
      /\ UNCHANGED <<proposeChannel, propNet, voteTasks, voteNet, certTasks,
                     evidence, early, lost>>
  BY Zenon DEF syncVars, vars, roundVars, chainVars, repVars, forwVars, voteVars
<1>2. \A x \in Node : NodeOK(x)'
  BY <1>1, NodesKept, Zenon
<1>3. PropsOK' /\ ChannelsOK' /\ Forwarded' /\ Accepted'
  BY <1>1, ForwardsFrame, Zenon
<1>4. VotesOK'
  BY <1>1, VotesKept, Zenon DEF Lock
<1>5. Voted'
  BY <1>1, Zenon DEF Lock, Voted, Full, Counted, Cast
<1> QED
  BY <1>1, <1>2, <1>3, <1>4, <1>5, Zenon DEF Lock

-------------------------------------------------------------------------------
\* Reputations and acknowledgements.

\* In lockstep all nodes judge a view by the same reputations.
LEMMA SameReputations == ASSUME TypeOK, Lock PROVE ReputationConsistency
<1> SUFFICES ASSUME NEW n \in Node, NEW m \in Node, NEW v \in 1..view[n],
                    v <= view[m]
             PROVE  reputationMap[n][v] = reputationMap[m][v]
  BY Zenon DEF ReputationConsistency
<1>1. view[n] \in Nat /\ view[m] \in Nat /\ RepOK(n) /\ RepOK(m)
  BY Zenon DEF TypeOK, Lock, NodeOK
<1>2. v \in 1..view[m]
  BY <1>1
<1> QED
  BY <1>1, <1>2, Zenon DEF RepOK

\* A step acknowledges nothing, or one block in one callback.
LEMMA AcksStep ==
  ASSUME TypeOK, [SyncNext]_syncVars
  PROVE  \/ acks' = acks
         \/ \E n \in Node : Commit(n) /\ UNCHANGED <<early, lost>>
<1>1. ASSUME NEW n \in Node, SyncStart(n) PROVE acks' = acks
  BY <1>1, Zenon DEF SyncStart, Start, Propose, StartWithoutProposal
<1>2. ASSUME NEW n \in Node, NEW P, NEW V, HandleMessage(n, P, V)
      PROVE  acks' = acks
  <2>1. ASSUME NEW m, Dispatch(n, m) PROVE acks' = acks
    BY <2>1, Zenon DEF Dispatch
  <2>2. ASSUME HandleForward(n) PROVE acks' = acks
    BY <2>2, Zenon DEF HandleForward, RejectForward, DetectEquivocation, AwaitForwards,
       AcceptBlock, LeaderVotes, CountForward
  <2>3. ASSUME NEW p, CastVote(n, p) PROVE acks' = acks
    BY <2>3, Zenon DEF CastVote
  <2>4. ASSUME NEW m, HandleVote(n, m) PROVE acks' = acks
    BY <2>4, Zenon DEF HandleVote, AccuseVoter, DropDuplicateVote, CountVote, ReceiveVote
  <2>5. ASSUME NEW t, addCert(n, t) PROVE acks' = acks
    BY <2>5, Zenon DEF addCert
  <2> QED
    BY <1>2, <2>1, <2>2, <2>3, <2>4, <2>5, Zenon DEF HandleMessage
<1>3. ASSUME NEW n \in Node, Timely(n)
      PROVE  acks' = acks \/ (Commit(n) /\ UNCHANGED <<early, lost>>)
  <2>1. RetryView(n) \/ Rotate(n) \/ PeerLost(n) => acks' = acks
    BY Zenon DEF RetryView, Rotate, PeerLost
  <2> QED
    BY <1>2, <1>3, <2>1, Zenon DEF Timely, Callback
<1>4. ASSUME NEW n \in Node, SyncTimer(n) \/ EarlyTimer(n) PROVE acks' = acks
  BY <1>4, Zenon DEF SyncTimer, EarlyTimer, TimerFires
<1>5. CASE Lose \/ Finished \/ UNCHANGED syncVars
  BY <1>5, Zenon DEF Lose, Finished, syncVars, vars
<1> QED
  BY <1>1, <1>3, <1>4, <1>5, Zenon DEF SyncNext

\* The blocks of the acknowledgements, as the refinement reads them.
Logs == [n \in Node |-> [i \in 1..Len(acks[n]) |-> acks[n][i].block]]

\* The acknowledgements of a node, and their blocks.
Ack == [view : Nat, block : Block]
Blocks(q) == [i \in 1..Len(q) |-> q[i].block]

\* The blocks are as many as the acknowledgements, and one more
\* acknowledgement adds one more block.
LEMMA BlocksOf ==
  ASSUME NEW q \in Seq(Ack)
  PROVE  /\ Blocks(q) \in Seq(Block) /\ Len(Blocks(q)) = Len(q)
         /\ \A i \in 1..Len(q) : Blocks(q)[i] = q[i].block
<1>1. \A e \in Ack : e.block \in Block
  BY Zenon DEF Ack
<1>2. Len(q) \in Nat /\ \A i \in 1..Len(q) : q[i] \in Ack
  OBVIOUS
<1>3. \A i \in 1..Len(q) : q[i].block \in Block
  BY <1>1, <1>2, Zenon
<1>4. Blocks(q) \in [1..Len(q) -> Block]
  BY <1>3, Zenon DEF Blocks
<1>5. Blocks(q) \in Seq(Block) /\ Len(Blocks(q)) = Len(q)
  BY <1>2, <1>4, SMTT(30)
<1>6. \A i \in 1..Len(q) : Blocks(q)[i] = q[i].block
  BY Zenon DEF Blocks
<1> QED
  BY <1>5, <1>6, Zenon

\* One more acknowledgement is one more block.
LEMMA BlocksAppend ==
  ASSUME NEW q \in Seq(Ack), NEW a \in Ack
  PROVE  Blocks(Append(q, a)) = Append(Blocks(q), a.block)
<1>1. Append(q, a) \in Seq(Ack)
  BY SMTT(30)
<1>2. PICK r \in Seq(Ack) : r = Append(q, a)
  BY <1>1, Zenon
<1>3. PICK b \in Block : b = a.block
  BY Zenon DEF Ack
<1>4. /\ Len(r) = Len(q) + 1 /\ r[Len(q) + 1] = a /\ Len(q) \in Nat
      /\ \A i \in 1..Len(q) : r[i] = q[i]
  BY <1>2, SMTT(30)
<1>5. PICK f \in Seq(Block) : f = Blocks(q) /\ Len(f) = Len(q)
  BY BlocksOf, SMTT(30)
<1>6. PICK g \in Seq(Block) : g = Blocks(r) /\ Len(g) = Len(r)
  BY BlocksOf, Zenon
<1>7. \A i \in 1..Len(q) : f[i] = q[i].block
  BY <1>5, BlocksOf, Zenon
<1>8. \A i \in 1..Len(r) : g[i] = r[i].block
  BY <1>6, BlocksOf, Zenon
<1>9. Len(q) + 1 \in 1..Len(r) /\ \A i \in 1..Len(q) : i \in 1..Len(r)
  BY <1>4, SMTT(30)
<1>10. g[Len(q) + 1] = b
  BY <1>3, <1>4, <1>8, <1>9, Zenon
<1>11. \A i \in 1..Len(q) : g[i] = f[i]
  BY <1>4, <1>7, <1>8, <1>9, Zenon
<1>12. g = Append(f, b)
  BY <1>4, <1>5, <1>6, <1>10, <1>11, SMTT(30)
<1> QED
  BY <1>2, <1>3, <1>5, <1>6, <1>12, Zenon

\* A node has acknowledged the block of every earlier view.
LEMMA LogFacts ==
  ASSUME TypeOK, Lock, NEW n \in Node
  PROVE  /\ view[n] \in Nat \ {0} /\ Logs[n] \in Seq(Block)
         /\ Len(Logs[n]) = view[n] - 1
         /\ \A i \in 1..(view[n] - 1) : Logs[n][i] = BlockOf(i)
<1>1. PICK v \in Nat \ {0} : v = view[n]
  BY Zenon DEF TypeOK
<1>2. PICK q \in Seq(Ack) : q = acks[n]
  BY Zenon DEF TypeOK, Ack
<1>3. q = [i \in 1..(v - 1) |-> [view |-> i, block |-> BlockOf(i)]]
  BY <1>1, <1>2, ZenonT(30) DEF Lock, NodeOK, ChainOK
<1>4. Logs[n] = Blocks(q)
  BY <1>2, SMTT(30) DEF Logs, Blocks
<1>5. DOMAIN q = 1..(v - 1) /\ \A i \in 1..(v - 1) : q[i].block = BlockOf(i)
  BY <1>3, SMTT(30)
<1>6. Len(q) = v - 1
  BY <1>5, SMTT(30)
<1> QED
  BY <1>1, <1>4, <1>5, <1>6, BlocksOf, Zenon

\* The callback adds the block of the node's view to its log.
LEMMA LogsCommit ==
  ASSUME TypeOK, NEW n \in Node, NEW a \in Ack,
         acks' = [acks EXCEPT ![n] = Append(@, a)]
  PROVE  Logs' = [Logs EXCEPT ![n] = Append(@, a.block)]
<1>1. acks \in [Node -> Seq(Ack)]
  BY Zenon DEF TypeOK, Ack
<1>2. PICK F, G : F = Logs /\ G = Logs'
  BY Zenon
<1>3. /\ F = [m \in Node |-> Blocks(acks[m])]
      /\ G = [m \in Node |-> Blocks(acks'[m])]
  BY <1>2, Zenon DEF Logs, Blocks
<1>4. acks'[n] = Append(acks[n], a) /\ \A m \in Node \ {n} : acks'[m] = acks[m]
  BY <1>1, Zenon
<1>5. Blocks(acks'[n]) = Append(Blocks(acks[n]), a.block)
  BY <1>1, <1>4, BlocksAppend, Zenon
<1>6. PICK x : x = Append(F[n], a.block)
  BY Zenon
<1>7. /\ F = [m \in Node |-> F[m]] /\ G = [m \in Node |-> G[m]]
      /\ G[n] = x /\ \A m \in Node \ {n} : G[m] = F[m]
  BY <1>3, <1>4, <1>5, <1>6
<1>8. G = [F EXCEPT ![n] = x]
  BY <1>7, Zenon
<1> QED
  BY <1>2, <1>6, <1>8, Zenon

\* The acknowledgements implement the abstract ledger.
LEMMA LedgerStep ==
  ASSUME ~Skew, TypeOK, LeaderOfView, CertWeight, Lock, [SyncNext]_syncVars
  PROVE  [L!LNext]_(Logs)
<1>1. CASE acks' = acks
  BY <1>1, Zenon DEF Logs
<1>2. ASSUME NEW n \in Node, Commit(n), UNCHANGED <<early, lost>> PROVE L!LNext
  <2>1. PICK v \in Nat \ {0} : v = view[n]
    BY Zenon DEF TypeOK
  <2>2. v <= MaxView
    BY <1>2, <2>1, LockCommit, Zenon
  <2>3. PICK b : b = BlockOf(v)
    BY Zenon
  <2>4. acks' = [acks EXCEPT ![n] = Append(@, [view |-> v, block |-> b])]
    BY <1>2, <2>1, <2>3, LockCommit, Zenon
  <2>5. \A m \in Node : /\ view[m] \in Nat \ {0} /\ Logs[m] \in Seq(Block)
                        /\ Len(Logs[m]) = view[m] - 1
                        /\ \A i \in 1..(view[m] - 1) : Logs[m][i] = BlockOf(i)
    BY LogFacts, Zenon
  <2>6. b \in ChainBlock
    <3>1. v \in 1..(MaxView + 1) /\ v \in 1..MaxView /\ LeaderOf(v) \in Node
      BY <2>2, LeaderType, MaxViewAssumption, SMTT(30)
    <3>2. b = [parent |-> Chain(v - 1), height |-> v, extra |-> "nil",
               txs |-> <<LeaderOf(v), v>>]
      BY <2>3, Zenon DEF BlockOf
    <3> QED
      BY <3>1, <3>2, SMTT(30) DEF ChainBlock
  <2>7. b \in Block
    <3>1. LeaderOf(v) \in Node /\ v - 1 \in Nat
      BY LeaderType, SMTT(30)
    <3>2. Chain(v - 1) \in Seq(Nat \X Extra)
      BY <3>1, ChainType, Zenon
    <3> QED
      BY <2>3, <3>1, <3>2, Zenon DEF BlockOf, Block, Hash, Extra
  <2>8. Logs' = [Logs EXCEPT ![n] = Append(@, b)]
    <3>1. [view |-> v, block |-> b] \in Ack /\ [view |-> v, block |-> b].block = b
      BY <2>7, Zenon DEF Ack
    <3> QED
      BY <2>4, <3>1, LogsCommit, Zenon
  <2>9. Follows(b, Logs[n])
    <3>1. b.parent = Chain(v - 1)
      BY <2>3, BlockFacts, Zenon
    <3>2. CASE v = 1
      <4>1. Logs[n] \in Seq(Block) /\ Len(Logs[n]) = v - 1
        BY <2>1, <2>5, Zenon
      <4>2. Logs[n] = <<>>
        BY <3>2, <4>1
      <4>3. Chain(v - 1) = EmptyHash
        BY <3>2, ChainType, SMTT(30)
      <4> QED
        BY <3>1, <4>2, <4>3, Zenon DEF Follows
    <3>3. CASE v # 1
      <4>1. v - 1 \in Nat \ {0} /\ v - 1 \in 1..(v - 1)
        BY <3>3, SMTT(30)
      <4>2. Logs[n] # <<>> /\ Logs[n][Len(Logs[n])] = BlockOf(v - 1)
        BY <2>1, <2>5, <4>1, Zenon
      <4>3. GetBlockHash(BlockOf(v - 1)) = Chain(v - 1)
        BY <4>1, BlockFacts, Zenon
      <4> QED
        BY <3>1, <4>2, <4>3, Zenon DEF Follows
    <3> QED
      BY <3>2, <3>3, Zenon
  <2>10. ASSUME NEW m \in Node, Len(Logs[m]) > Len(Logs[n])
         PROVE  Logs[m][Len(Logs[n]) + 1] = b
    <3>1. Len(Logs[n]) + 1 = v /\ v \in 1..(view[m] - 1)
      BY ONLY <2>1, <2>5, <2>10, SMTT(30)
    <3> QED
      BY <2>3, <2>5, <3>1, Zenon
  <2>11. Logs'[n] # Logs[n]
    <3>1. Logs'[n] = Append(Logs[n], b)
      BY <2>8, Zenon DEF Logs
    <3>2. Len(Append(Logs[n], b)) = Len(Logs[n]) + 1 /\ Len(Logs[n]) \in Nat
      BY <2>5, <2>7, SMTT(30)
    <3> QED
      BY <3>1, <3>2, SMTT(30)
  <2>12. L!Acknowledge(n, b)
    BY <2>8, <2>9, <2>10, Zenon DEF L!Acknowledge, Logs
  <2> QED
    BY <2>6, <2>11, <2>12, Zenon DEF L!LNext, Logs
<1> QED
  BY <1>1, <1>2, AcksStep
===============================================================================
