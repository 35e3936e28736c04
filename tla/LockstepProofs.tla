---------------------------- MODULE LockstepProofs ----------------------------
(***************************************************************************)
(* Rounds in lockstep, for any number of replicas and views: what the      *)
(* replicas, the messages and the goroutines are like when messages and    *)
(* timers are on time (Lock), and that the timers, the callbacks, the      *)
(* proposals and the forwards of proposals keep it so.                     *)
(***************************************************************************)
EXTENDS Synchrony, TLAPS

-------------------------------------------------------------------------------
\* Rounds in lockstep.

\* Who leads a view.
LeaderOf(v) == (v - 1) % N

\* The block of view v, and the certificate its leader proposes it with.
BlockOf(v) == [parent |-> Chain(v - 1), height |-> v, extra |-> "nil",
               txs |-> <<LeaderOf(v), v>>]
CertOf(v) == certMap[LeaderOf(v)][v - 1]

\* The messages of view v: the proposal, its forward by s, the vote of s.
Orig(v) == [miner |-> LeaderOf(v), forwardSender |-> LeaderOf(v),
            forwardSig |-> FALSE, block |-> BlockOf(v), cert |-> CertOf(v)]
Fwd(v, s) == [miner |-> LeaderOf(v), forwardSender |-> s,
              forwardSig |-> TRUE, block |-> BlockOf(v), cert |-> CertOf(v)]
VoteOf(s, v) == [voter |-> s, hash |-> Chain(v), view |-> v,
                 owner |-> LeaderOf(v)]

\* What everybody has recorded once view v is settled, and the reputations
\* that follow from it.
VoteRecords(v) == (1..v) \X Node
PropRecords(v) == {<<i, LeaderOf(i)>> : i \in 1..v}
Recorded(v) == [vote |-> VoteRecords(v), maliVote |-> {},
                prop |-> PropRecords(v), with |-> {}, equi |-> {},
                maliProp |-> {}]
RepOf(v) ==
  [id \in Node |-> IF v = 1 THEN initialNodescore
                   ELSE ReputationCalculateinCurrentRound(Recorded(v - 1), id)]

\* Where the forward of view v by s is on its way to n: counted, in the
\* queue, in flight; or still to be made, from the proposal in flight to s.
Counted(n, v, s) == <<v, s>> \in fpropMap[n]
Queued(n, v, s) == Fwd(v, s) \in Range(proposeChannel[n])
InFlight(n, v, s) == [to |-> n, prop |-> Fwd(v, s)] \in propNet
Asked(s, v) == [to |-> s, prop |-> Orig(v)] \in propNet

Others(v) == Node \ {LeaderOf(v)}
Full(n, v) == \A s \in Others(v) : Counted(n, v, s)

\* The vote of s in view v has reached, or will reach, everybody.
Cast(s, v) == \A m \in Node : \/ <<v, s>> \in transcript[m].vote
                              \/ [to |-> m, vote |-> VoteOf(s, v)] \in voteNet

InRound(v) == \A n \in Node : view[n] = v /\ phase[n] = "armed"

GoodCert(i, c) ==
  c.hash = Chain(i) /\ \A w \in c.votes : w.hash = c.hash /\ w.view = c.view

\* The ledger and the acknowledgements of a node are those of its view.
ChainOK(n) ==
  /\ BlocksByHeight[n] = [i \in 1..head[n] |-> BlockOf(i)]
  /\ BlocksByHash[n] = {Chain(i) : i \in 1..head[n]}
  /\ acks[n] = [i \in 1..(view[n] - 1) |-> [view |-> i, block |-> BlockOf(i)]]

HashesOK(n) ==
  \A i \in DOMAIN proposalByviewMap[n] : proposalByviewMap[n][i] = Chain(i)

\* So are its transcript and the reputations it has computed.
TranscriptOK(n) ==
  /\ transcript[n].vote \subseteq VoteRecords(view[n])
  /\ transcript[n].prop = PropRecords(head[n])
  /\ transcript[n].maliVote = {} /\ transcript[n].with = {}
  /\ transcript[n].equi = {} /\ transcript[n].maliProp = {}

RepOK(n) ==
  /\ 1..view[n] \subseteq DOMAIN reputationMap[n]
  /\ phase[n] = "decide" => view[n] + 1 \in DOMAIN reputationMap[n]
  /\ \A i \in DOMAIN reputationMap[n] : reputationMap[n][i] = RepOf(i)

CertOK(n) ==
  /\ 0..(view[n] - 1) \subseteq DOMAIN certMap[n]
  /\ \A i \in DOMAIN certMap[n] : GoodCert(i, certMap[n][i])

TallyOK(n) ==
  \A e \in tally[n] : /\ e[2].hash = Chain(e[1]) /\ e[2].view = e[1]
                      /\ <<e[1], e[2].voter>> \in transcript[n].vote

ForwardsOK(n) ==
  \A e \in fpropMap[n] : e[2] # LeaderOf(e[1]) /\ e[1] <= head[LeaderOf(e[1])]

\* Nobody is more than the block of its view ahead of anybody, and when a
\* node decides, everybody has the block of its view.
PhaseOK(n) ==
  /\ up[n] /\ ~equivocatingProposalInject[n] /\ phase[n] # "empty"
  /\ phase[n] \in {"armed", "decide"} => view[n] <= MaxView
  /\ phase[n] \in {"armed", "decide"} /\ n = LeaderOf(view[n])
       => head[n] = view[n]
  /\ phase[n] = "ready" /\ head[n] = view[n] => view[n] \notin DOMAIN certMap[n]
  /\ phase[n] = "rotate" => head[n] = view[n] - 1
  /\ \A m \in Node : /\ head[m] \in (view[n] - 1)..view[n]
                     /\ phase[n] = "decide" => head[m] = view[n]

NodeOK(n) ==
  /\ ChainOK(n) /\ HashesOK(n) /\ TranscriptOK(n) /\ RepOK(n) /\ CertOK(n)
  /\ TallyOK(n) /\ ForwardsOK(n) /\ PhaseOK(n)

\* Proposals and votes are under way only while all nodes are in one round,
\* and each step of a forward happens once.
PropOK(v, m) ==
  /\ InRound(v)
  /\ \/ /\ m.prop = Orig(v) /\ m.to # LeaderOf(v)
        /\ \A n \in Node : /\ ~Counted(n, v, m.to) /\ ~Queued(n, v, m.to)
                           /\ ~InFlight(n, v, m.to)
     \/ \E s \in Others(v) : /\ m.prop = Fwd(v, s) /\ m.to # s
                             /\ ~Counted(m.to, v, s) /\ ~Queued(m.to, v, s)

PropsOK == \A m \in propNet : PropOK(view[m.to], m)

ChannelOK(n, v) ==
  /\ IsInjective(proposeChannel[n])
  /\ \A p \in Range(proposeChannel[n]) :
       InRound(v) /\ \E s \in Others(v) : p = Fwd(v, s) /\ ~Counted(n, v, s)

ChannelsOK == \A n \in Node : ChannelOK(n, view[n])

VotesOK ==
  /\ \A n \in Node : \A p \in voteTasks[n] :
       InRound(view[n]) /\ p.block = BlockOf(view[n]) /\ p.miner = LeaderOf(view[n])
  /\ \A m \in voteNet :
       InRound(view[m.to]) /\ m.vote = VoteOf(m.vote.voter, view[m.to])
  /\ \A n \in Node : \A t \in certTasks[n] :
       InRound(view[n]) /\ t.index = view[n] /\ GoodCert(view[n], t.cert)

\* No forward of a block that was proposed is missing.
Forwarded ==
  \A v \in Nat \ {0} : \A s \in Others(v) :
    v <= head[LeaderOf(v)] =>
      \/ Asked(s, v)
      \/ \A n \in Node : Counted(n, v, s) \/ Queued(n, v, s) \/ InFlight(n, v, s)

\* A node has a block exactly when it has all forwards of it, and has then
\* voted for it, or is about to.
Accepted ==
  \A v \in Nat \ {0} : \A n \in Others(v) : Full(n, v) <=> v <= head[n]

Voted ==
  \A v \in Nat \ {0} : \A n \in Node :
    Full(n, v) => (view[n] = v /\ voteTasks[n] # {}) \/ Cast(n, v)

Lock ==
  /\ lost = {} /\ early = 0 /\ evidence = {}
  /\ \A n \in Node : NodeOK(n)
  /\ PropsOK /\ ChannelsOK /\ VotesOK
  /\ Forwarded /\ Accepted /\ Voted

-------------------------------------------------------------------------------
\* The operators the invariant is built from.

\* The leader of a view is a replica.
LEMMA LeaderType == ASSUME NEW v \in Nat \ {0} PROVE LeaderOf(v) \in Node
BY NAssumption, SMTT(30) DEF LeaderOf, Node

\* The hash of a chain is its path: it is longer by one for each block, and
\* only the empty one is that of the genesis block.
LEMMA ChainType ==
  ASSUME NEW h \in Nat
  PROVE  /\ Chain(h) \in Seq(Nat \X Extra)
         /\ Len(Chain(h)) = h
         /\ Append(Chain(h), <<h + 1, "nil">>) = Chain(h + 1)
         /\ Chain(h) = EmptyHash <=> h = 0
         /\ h > 0 => ~HasExtra(Chain(h))
<1>1. Chain(h) \in Seq(Nat \X Extra)
  BY DEF Chain, Extra
<1>2. Len(Chain(h)) = h
  BY DEF Chain
<1>3. Append(Chain(h), <<h + 1, "nil">>) = Chain(h + 1)
  BY <1>1, <1>2, SMTT(30) DEF Chain, Extra
<1>4. Chain(h) = EmptyHash <=> h = 0
  BY <1>1, <1>2 DEF EmptyHash, Chain
<1>5. ASSUME h > 0 PROVE ~HasExtra(Chain(h))
  <2>1. Chain(h)[h] = <<h, "nil">>
    BY <1>5 DEF Chain
  <2> QED
    BY <1>2, <2>1, SMTT(30) DEF HasExtra
<1> QED
  BY <1>1, <1>2, <1>3, <1>4, <1>5, Zenon

\* The block of a view is the child of the block of the view before.
LEMMA BlockFacts ==
  ASSUME NEW v \in Nat \ {0}
  PROVE  /\ GetBlockHash(BlockOf(v)) = Chain(v)
         /\ BlockOf(v).height = v
         /\ BlockOf(v).parent = Chain(v - 1)
         /\ BlockOf(v).txs[2] = v
<1>1. v - 1 \in Nat /\ (v - 1) + 1 = v
  OBVIOUS
<1>2. Append(Chain(v - 1), <<v, "nil">>) = Chain(v)
  BY <1>1, ChainType, Zenon
<1> QED
  BY <1>2, Zenon DEF GetBlockHash, BlockOf

\* A message tells its view, its sender and its kind.
LEMMA MessageFacts ==
  ASSUME NEW v \in Nat \ {0}, NEW w \in Nat \ {0}, NEW s, NEW t
  PROVE  /\ Orig(v) # Fwd(w, s)
         /\ Orig(v) = Orig(w) => v = w
         /\ Fwd(v, s) = Fwd(w, t) => v = w /\ s = t
         /\ Round(Orig(v)) = v /\ Round(Fwd(v, s)) = v
<1>1. Orig(v).forwardSig = FALSE /\ Fwd(w, s).forwardSig = TRUE
  BY DEF Orig, Fwd
<1>2. /\ Orig(v).block = BlockOf(v) /\ Orig(w).block = BlockOf(w)
      /\ Fwd(v, s).block = BlockOf(v) /\ Fwd(w, t).block = BlockOf(w)
      /\ Fwd(v, s).forwardSender = s /\ Fwd(w, t).forwardSender = t
  BY DEF Orig, Fwd
<1>3. BlockOf(v).height = v /\ BlockOf(w).height = w /\ BlockOf(v).txs[2] = v
  BY BlockFacts, SMTT(30)
<1> QED
  BY <1>1, <1>2, <1>3, Zenon DEF Round

\* Queues.
LEMMA Appending ==
  ASSUME NEW S, NEW q \in Seq(S), NEW e \in S
  PROVE  /\ Range(Append(q, e)) = Range(q) \cup {e}
         /\ IsInjective(q) /\ e \notin Range(q) => IsInjective(Append(q, e))
<1>1. /\ DOMAIN q = 1..Len(q) /\ DOMAIN Append(q, e) = 1..(Len(q) + 1)
      /\ Len(q) \in Nat
      /\ \A i \in 1..Len(q) : Append(q, e)[i] = q[i]
      /\ Append(q, e)[Len(q) + 1] = e
  BY SMTT(30)
<1>2. 1..(Len(q) + 1) = 1..Len(q) \cup {Len(q) + 1} /\ Len(q) + 1 \notin 1..Len(q)
  BY <1>1
<1>3. Range(Append(q, e)) = Range(q) \cup {e}
  BY <1>1, <1>2, ZenonT(30) DEF Range
<1>4. ASSUME IsInjective(q), e \notin Range(q) PROVE IsInjective(Append(q, e))
  BY <1>1, <1>2, <1>4, SMTT(30) DEF Range, IsInjective
<1> QED
  BY <1>3, <1>4

\* The head of a queue is in it, and the rest has what remains.
LEMMA Taking ==
  ASSUME NEW S, NEW q \in Seq(S), q # <<>>
  PROVE  /\ q[1] \in Range(q)
         /\ Range(q) = Range(Tail(q)) \cup {q[1]}
         /\ IsInjective(q) => IsInjective(Tail(q)) /\ q[1] \notin Range(Tail(q))
<1>1. /\ DOMAIN q = 1..Len(q) /\ DOMAIN Tail(q) = 1..(Len(q) - 1)
      /\ Len(q) \in Nat /\ Len(q) >= 1
      /\ \A i \in 1..(Len(q) - 1) : Tail(q)[i] = q[i + 1]
  OBVIOUS
<1>2. \A i \in 1..Len(q) : i = 1 \/ (i - 1 \in 1..(Len(q) - 1) /\ q[i] = Tail(q)[i - 1])
  BY <1>1
<1>3. \A i \in 1..(Len(q) - 1) : i + 1 \in 1..Len(q) /\ i + 1 # 1
  BY <1>1
<1>4. 1 \in 1..Len(q)
  BY <1>1
<1>5. Range(q) = Range(Tail(q)) \cup {q[1]}
  <2>1. ASSUME NEW i \in 1..Len(q)
        PROVE  q[i] \in Range(Tail(q)) \cup {q[1]}
    <3>1. CASE i = 1
      BY <3>1
    <3>2. CASE i - 1 \in 1..(Len(q) - 1) /\ q[i] = Tail(q)[i - 1]
      BY <1>1, <3>2, Zenon DEF Range
    <3> QED
      BY <1>2, <3>1, <3>2, Zenon
  <2>2. \A x \in Range(Tail(q)) : x \in Range(q)
    BY <1>1, <1>3, SMTT(30) DEF Range
  <2>3. q[1] \in Range(q)
    BY <1>1, <1>4, SMTT(30) DEF Range
  <2> QED
    BY <1>1, <2>1, <2>2, <2>3, ZenonT(30) DEF Range
<1>6. ASSUME IsInjective(q)
      PROVE  IsInjective(Tail(q)) /\ q[1] \notin Range(Tail(q))
  <2>1. IsInjective(Tail(q))
    BY <1>1, <1>3, <1>6, SMTT(30) DEF IsInjective
  <2>2. q[1] \notin Range(Tail(q))
    BY <1>1, <1>3, <1>4, <1>6, SMTT(30) DEF IsInjective, Range
  <2> QED
    BY <2>1, <2>2, Zenon
<1> QED
  BY <1>1, <1>4, <1>5, <1>6, Zenon DEF Range

\* N - 1 different forwards are the forwards of all non-leaders.  This is about
\* cardinalities only: the lemmas that count forwards take it as a hypothesis,
\* which SynchronyProofs discharges (AllForwards).
ForwardsCount ==
  \A v : \A l \in Node : \A F \in SUBSET {<<v, s>> : s \in Node \ {l}} :
    /\ Cardinality(F) \in Nat
    /\ Cardinality(F) >= N - 1 <=> \A s \in Node \ {l} : <<v, s>> \in F

-------------------------------------------------------------------------------
\* Between the rounds nothing is under way.

Idle ==
  /\ propNet = {} /\ voteNet = {}
  /\ \A n \in Node : /\ Range(proposeChannel[n]) = {}
                     /\ voteTasks[n] = {} /\ certTasks[n] = {}

\* A node whose timer does not run has no round in progress around it.
LEMMA IdleOutsideRounds ==
  ASSUME TypeOK, Lock, NEW n \in Node, phase[n] # "armed"
  PROVE  Idle
<1>1. \A v : ~InRound(v)
  BY DEF InRound
<1>2. propNet = {}
  BY <1>1, Zenon DEF Lock, PropsOK, PropOK
<1>3. \A x \in Node : Range(proposeChannel[x]) = {}
  BY <1>1 DEF Lock, ChannelsOK, ChannelOK
<1>4. voteNet = {} /\ \A x \in Node : voteTasks[x] = {} /\ certTasks[x] = {}
  BY <1>1, Zenon DEF Lock, VotesOK
<1> QED
  BY <1>2, <1>3, <1>4, Zenon DEF Idle

\* Whatever was proposed has then been forwarded, accepted and voted for, and
\* the votes have been credited everywhere.
LEMMA IdleRound ==
  ASSUME TypeOK, Lock, Idle, NEW v \in Nat \ {0}, v <= head[LeaderOf(v)]
  PROVE  /\ \A n \in Node : Full(n, v)
         /\ \A n \in Node : v <= head[n]
         /\ \A n, m \in Node : <<v, n>> \in transcript[m].vote
<1>1. ASSUME NEW n \in Node PROVE Full(n, v)
  <2>1. \A s \in Others(v) : ~Asked(s, v) /\ ~Queued(n, v, s) /\ ~InFlight(n, v, s)
    BY DEF Idle, Asked, Queued, InFlight
  <2>2. \A s \in Others(v) : Counted(n, v, s)
    BY <2>1, Zenon DEF Lock, Forwarded
  <2> QED
    BY <2>2, Zenon DEF Full
<1>2. ASSUME NEW n \in Node PROVE v <= head[n]
  <2>1. CASE n = LeaderOf(v)
    BY <2>1, Zenon
  <2>2. CASE n \in Others(v)
    BY <1>1, <2>2, Zenon DEF Lock, Accepted
  <2> QED
    BY <2>1, <2>2, Zenon DEF Others
<1>3. ASSUME NEW n \in Node, NEW m \in Node PROVE <<v, n>> \in transcript[m].vote
  <2>1. Cast(n, v)
    BY <1>1, SMTT(30) DEF Lock, Voted, Idle
  <2> QED
    BY <2>1, Zenon DEF Cast, Idle
<1> QED
  BY <1>1, <1>2, <1>3, Zenon

\* A settled round is one without messages.
LEMMA SettledIdle ==
  ASSUME ForwardsCount, TypeOK, Lock, NEW n \in Node, phase[n] = "armed", Settled(view[n])
  PROVE  Idle
<1> DEFINE v == view[n]
<1>1. v \in Nat \ {0} /\ LeaderOf(v) \in Node
  BY LeaderType, Zenon DEF TypeOK
<1>2. lost = {}
  BY Zenon DEF Lock
<1>3. \A w : InRound(w) => w = v
  BY SMTT(30) DEF InRound
<1> HIDE DEF v
<1>4. propNet = {}
  <2> SUFFICES ASSUME NEW m \in propNet PROVE FALSE
    OBVIOUS
  <2>1. PropOK(view[m.to], m)
    BY Zenon DEF Lock, PropsOK
  <2>2. InRound(view[m.to])
    BY <2>1, SMTT(30) DEF PropOK
  <2>3. PropOK(v, m)
    BY <1>3, <2>1, <2>2, ZenonT(30)
  <2>4. Round(m.prop) = v
    BY <1>1, <2>3, MessageFacts, Zenon DEF PropOK
  <2>5. Round(m.prop) > v
    BY <1>2, ZenonT(30) DEF Settled, v
  <2> QED
    BY <1>1, <2>4, <2>5, SMTT(30)
<1>5. voteNet = {}
  <2> SUFFICES ASSUME NEW m \in voteNet PROVE FALSE
    OBVIOUS
  <2>1. InRound(view[m.to]) /\ m.vote = VoteOf(m.vote.voter, view[m.to])
    BY Zenon DEF Lock, VotesOK
  <2>2. m.vote = VoteOf(m.vote.voter, v)
    BY <1>3, <2>1, Zenon
  <2>3. m.vote.view = v
    BY <2>2, SMTT(30) DEF VoteOf
  <2>4. m.vote.view > v
    BY <1>2, SMTT(30) DEF Settled, v
  <2> QED
    BY <1>1, <2>3, <2>4, SMTT(30)
<1>6. ASSUME NEW x \in Node PROVE voteTasks[x] = {}
  <2> SUFFICES ASSUME NEW p \in voteTasks[x] PROVE FALSE
    OBVIOUS
  <2>1. InRound(view[x]) /\ p.block = BlockOf(view[x])
    BY Zenon DEF Lock, VotesOK
  <2>2. p.block = BlockOf(v)
    BY <1>3, <2>1, SMTT(30)
  <2>3. Round(p) = v
    BY <1>1, <2>2, BlockFacts, ZenonT(30) DEF Round
  <2>4. Round(p) > v
    BY SMTT(30) DEF Settled, v
  <2> QED
    BY <1>1, <2>3, <2>4, SMTT(30)
<1>7. ASSUME NEW x \in Node PROVE certTasks[x] = {}
  <2> SUFFICES ASSUME NEW t \in certTasks[x] PROVE FALSE
    OBVIOUS
  <2>1. InRound(view[x]) /\ t.index = view[x]
    BY SMTT(30) DEF Lock, VotesOK
  <2>2. t.index = v
    BY <1>3, <2>1, ZenonT(30)
  <2>3. t.index > v
    BY SMTT(30) DEF Settled, v
  <2> QED
    BY <1>1, <2>2, <2>3, SMTT(30)
<1>8. ASSUME NEW x \in Node PROVE Range(proposeChannel[x]) = {}
  <2> SUFFICES ASSUME NEW p \in Range(proposeChannel[x]) PROVE FALSE
    BY SMTT(30)
  <2>1. ChannelOK(x, view[x])
    BY ZenonT(30) DEF Lock, ChannelsOK
  <2>2. InRound(view[x])
    BY <2>1, SMTT(30) DEF ChannelOK
  <2>3. view[x] = v
    BY <1>3, <2>2, Zenon
  <2>4. PICK s \in Others(v) : p = Fwd(v, s) /\ ~Counted(x, v, s)
    BY <2>1, <2>3, Zenon DEF ChannelOK
  <2>5. Round(p) = v
    BY <1>1, <2>4, MessageFacts, ZenonT(30)
  <2>6. PICK i \in DOMAIN proposeChannel[x] : p = proposeChannel[x][i]
    BY Zenon DEF Range
  <2>7. ~(Cardinality(Forwards(x)) < N - 1)
    BY <1>1, <2>5, <2>6, SMTT(30) DEF Settled, v
  <2>8. Forwards(x) \subseteq {<<v, t>> : t \in Node \ {LeaderOf(v)}}
    <3>1. fpropMap[x] \in SUBSET (Nat \X Node)
      BY Zenon DEF TypeOK
    <3>2. \A e \in fpropMap[x] : e[2] # LeaderOf(e[1])
      BY SMTT(30) DEF Lock, NodeOK, ForwardsOK
    <3> QED
      BY <2>3, <3>1, <3>2, SMTT(30) DEF Forwards
  <2>9. <<v, s>> \in Forwards(x)
    <3> DEFINE F == Forwards(x)
    <3>1. F \in SUBSET {<<v, t>> : t \in Node \ {LeaderOf(v)}}
      BY <2>8, SMTT(30)
    <3> HIDE DEF F
    <3>2. /\ Cardinality(F) \in Nat
          /\ Cardinality(F) >= N - 1 <=>
               \A t \in Node \ {LeaderOf(v)} : <<v, t>> \in F
      BY <1>1, <3>1, ZenonT(30) DEF ForwardsCount
    <3>3. Cardinality(F) >= N - 1
      BY <2>7, <3>2, NAssumption, SMTT(30) DEF F
    <3> QED
      BY <2>4, <3>2, <3>3, ZenonT(30) DEF Others, F
  <2> QED
    BY <2>4, <2>9, Zenon DEF Counted, Forwards
<1> QED
  BY <1>4, <1>5, <1>6, <1>7, <1>8, ZenonT(30) DEF Idle

\* A settled round is complete: everybody has its block, and this node has
\* recorded all proposals and votes up to it.
LEMMA SettledRound ==
  ASSUME ForwardsCount, TypeOK, Lock, NEW n \in Node, phase[n] = "armed", Settled(view[n])
  PROVE  /\ Idle
         /\ \A m \in Node : head[m] = view[n]
         /\ transcript[n] = Recorded(view[n])
<1> DEFINE v == view[n]
           l == LeaderOf(v)
<1>1. v \in Nat \ {0} /\ l \in Node /\ head \in [Node -> Nat]
      /\ view \in [Node -> Nat \ {0}] /\ phase \in [Node -> Phase]
  BY LeaderType, Zenon DEF TypeOK
<1>2. Idle
  BY SettledIdle, ZenonT(30)
<1>3. PhaseOK(l) /\ PhaseOK(n) /\ TranscriptOK(n)
  BY <1>1, Zenon DEF Lock, NodeOK
<1>4. view[l] >= v /\ (view[l] = v => phase[l] \notin {"rotate", "ready"})
  BY <1>1, <1>3, ZenonT(30) DEF Settled, PhaseOK
<1>5. v <= head[l]
  <2>1. CASE view[l] = v
    <3>1. phase[l] \in {"armed", "decide"}
      BY <1>1, <1>3, <1>4, <2>1, Zenon DEF PhaseOK, Phase
    <3>2. head[l] = v
      BY <1>3, <2>1, <3>1, ZenonT(30) DEF PhaseOK
    <3> QED
      BY <1>1, <3>2, SMTT(30)
  <2>2. CASE view[l] > v
    <3>1. head[l] \in (view[l] - 1)..view[l]
      BY <1>1, <1>3, ZenonT(30) DEF PhaseOK
    <3> QED
      BY <1>1, <2>2, <3>1, SMTT(30)
  <2> QED
    BY <1>1, <1>4, <2>1, <2>2, SMTT(30)
<1>6. \A m \in Node : head[m] \in (v - 1)..v
  BY <1>3, SMTT(30) DEF PhaseOK
<1>7. \A m \in Node : head[m] = v
  BY <1>1, <1>2, <1>5, <1>6, IdleRound, SMTT(30)
<1>8. ASSUME NEW i \in 1..v, NEW m \in Node PROVE <<i, m>> \in transcript[n].vote
  <2>1. i \in Nat \ {0} /\ LeaderOf(i) \in Node /\ i <= v
    BY <1>1, LeaderType, SMTT(30)
  <2>2. i <= head[LeaderOf(i)]
    BY <1>7, <2>1, Zenon
  <2> QED
    BY <1>2, <2>1, <2>2, IdleRound, Zenon
<1>9. transcript[n].vote = VoteRecords(v)
  BY <1>3, <1>8, SMTT(30) DEF TranscriptOK, VoteRecords
<1>10. transcript[n] \in Transcript
  BY Zenon DEF TypeOK
<1>11. transcript[n].prop = PropRecords(v)
  BY <1>3, <1>7, ZenonT(30) DEF TranscriptOK
<1>12. transcript[n] = Recorded(v)
  BY <1>3, <1>9, <1>10, <1>11, Zenon DEF TranscriptOK, Transcript, Recorded
<1> QED
  BY <1>2, <1>7, <1>12, ZenonT(30)

-------------------------------------------------------------------------------
\* The steps of the rounds: timers and callbacks.

\* They leave the messages alone, of which there are none.
LEMMA IdleFrame ==
  ASSUME TypeOK, Lock, Idle,
         UNCHANGED <<head, certMap, fpropMap, transcript, proposeChannel,
                     voteTasks, certTasks, propNet, voteNet>>
  PROVE  PropsOK' /\ ChannelsOK' /\ VotesOK' /\ Forwarded' /\ Accepted' /\ Voted'
<1>1. Idle'
  BY SMTT(30) DEF Idle
<1>2. PropsOK'
  BY <1>1, Zenon DEF Idle, PropsOK
<1>3. ChannelsOK'
  <2> SUFFICES ASSUME NEW x \in Node PROVE ChannelOK(x, view[x])'
    BY SMTT(30) DEF ChannelsOK
  <2>1. Range(proposeChannel'[x]) = {}
    BY <1>1, SMTT(30) DEF Idle
  <2>2. IsInjective(proposeChannel[x])
    BY Zenon DEF Lock, ChannelsOK, ChannelOK
  <2> QED
    BY <2>1, <2>2, SMTT(30) DEF ChannelOK
<1>4. VotesOK'
  BY <1>1, SMTT(30) DEF Idle, VotesOK
<1>5. Forwarded'
  BY ZenonT(30) DEF Lock, Forwarded, Asked, Counted, Queued, InFlight, Orig, Fwd, CertOf
<1>6. Accepted'
  BY DEF Lock, Accepted, Full, Counted
<1>7. Voted'
  <2> SUFFICES ASSUME NEW v \in Nat \ {0}, NEW x \in Node, Full(x, v)'
               PROVE  Cast(x, v)'
    BY SMTT(30) DEF Voted
  <2>1. Full(x, v)
    BY Zenon DEF Full, Counted
  <2>2. Cast(x, v)
    BY <2>1, SMTT(30) DEF Lock, Voted, Idle
  <2> QED
    BY <2>2, SMTT(30) DEF Cast
<1> QED
  BY <1>2, <1>3, <1>4, <1>5, <1>6, <1>7, ZenonT(30)

\* A step of node n's round, given what it does to n itself.
LEMMA RoundStep ==
  ASSUME TypeOK, Lock, Idle, NEW n \in Node,
         UNCHANGED <<up, head, BlocksByHeight, BlocksByHash, proposalByviewMap,
                     certMap, transcript, fpropMap, tally, proposeChannel,
                     voteTasks, certTasks, propNet, voteNet, evidence, early,
                     lost>>,
         view'[n] \in Nat, view[n] <= view'[n],
         \A x \in Node \ {n} :
           /\ view'[x] = view[x] /\ phase'[x] = phase[x]
           /\ reputationMap'[x] = reputationMap[x] /\ acks'[x] = acks[x]
           /\ equivocatingProposalInject'[x] = equivocatingProposalInject[x],
         ChainOK(n)', RepOK(n)', CertOK(n)', PhaseOK(n)'
  PROVE  Lock'
<1>1. ASSUME NEW x \in Node PROVE NodeOK(x) /\ view[x] \in Nat
  BY SMTT(30) DEF Lock, TypeOK
<1>2. ASSUME NEW x \in Node PROVE TranscriptOK(x)'
  <2>1. view[x] \in Nat /\ view'[x] \in Nat /\ view[x] <= view'[x]
    BY <1>1, SMTT(30)
  <2>2. TranscriptOK(x)
    BY <1>1, ZenonT(30) DEF NodeOK
  <2>3. 1..view[x] \subseteq 1..view'[x]
    BY <2>1, SMTT(30)
  <2> QED
    BY <2>2, <2>3, ZenonT(30) DEF TranscriptOK, VoteRecords
<1>3. ASSUME NEW x \in Node PROVE HashesOK(x)' /\ TallyOK(x)' /\ ForwardsOK(x)'
  BY <1>1, ZenonT(30) DEF NodeOK, HashesOK, TallyOK, ForwardsOK
<1>4. ASSUME NEW x \in Node \ {n}
      PROVE  ChainOK(x)' /\ RepOK(x)' /\ CertOK(x)' /\ PhaseOK(x)'
  <2>1. ChainOK(x)'
    BY <1>1, ZenonT(30) DEF NodeOK, ChainOK
  <2>2. RepOK(x)'
    BY <1>1, SMTT(30) DEF NodeOK, RepOK
  <2>3. CertOK(x)'
    BY <1>1, ZenonT(30) DEF NodeOK, CertOK
  <2>4. PhaseOK(x)'
    <3>1. /\ view'[x] = view[x] /\ phase'[x] = phase[x]
          /\ equivocatingProposalInject'[x] = equivocatingProposalInject[x]
          /\ UNCHANGED <<up, head, certMap>>
      BY ZenonT(30)
    <3>2. PhaseOK(x)
      BY <1>1, ZenonT(30) DEF NodeOK
    <3> QED
      BY ONLY <3>1, <3>2, ZenonT(30) DEF PhaseOK
  <2> QED
    BY <2>1, <2>2, <2>3, <2>4, ZenonT(30)
<1>5. \A x \in Node : NodeOK(x)'
  BY <1>2, <1>3, <1>4, ZenonT(30) DEF NodeOK
<1>6. PropsOK' /\ ChannelsOK' /\ VotesOK' /\ Forwarded' /\ Accepted' /\ Voted'
  BY IdleFrame, Zenon
<1> QED
  BY <1>5, <1>6, ZenonT(30) DEF Lock

\* startConsensusTimer of a node that does not propose only arms the timer.
LEMMA LockQuietStart ==
  ASSUME TypeOK, LeaderOfView, Lock, NEW n \in Node, StartWithoutProposal(n),
         UNCHANGED <<early, lost>>
  PROVE  Lock'
<1>1. /\ phase[n] = "ready" /\ view[n] <= MaxView
      /\ leader[n] = n => head[n] \notin DOMAIN certMap[n]
      /\ phase' = [phase EXCEPT ![n] = "armed"]
      /\ UNCHANGED <<view, up, head, BlocksByHeight, BlocksByHash,
                     proposalByviewMap, certMap, transcript, fpropMap, tally,
                     proposeChannel, voteTasks, certTasks, propNet, voteNet,
                     evidence, reputationMap, acks, equivocatingProposalInject>>
  BY Zenon DEF StartWithoutProposal, startConsensusTimer, chainVars, repVars,
     forwVars, voteVars
<1>2. /\ view[n] \in Nat \ {0} /\ head[n] \in Nat
      /\ phase \in [Node -> Phase] /\ LeaderOf(view[n]) \in Node
  BY LeaderType, ZenonT(30) DEF TypeOK
<1>3. phase'[n] = "armed" /\ \A x \in Node \ {n} : phase'[x] = phase[x]
  BY <1>1, <1>2, Zenon
<1>4. Idle
  BY <1>1, IdleOutsideRounds, ZenonT(30)
<1>5. ChainOK(n) /\ RepOK(n) /\ CertOK(n) /\ PhaseOK(n)
  BY Zenon DEF Lock, NodeOK
<1>6. ChainOK(n)' /\ RepOK(n)' /\ CertOK(n)'
  <2>1. ChainOK(n)'
    BY <1>1, <1>5, Zenon DEF ChainOK
  <2>2. RepOK(n)'
    BY <1>1, <1>3, <1>5, ZenonT(30) DEF RepOK
  <2>3. CertOK(n)'
    BY <1>1, <1>5, Zenon DEF CertOK
  <2> QED
    BY <2>1, <2>2, <2>3, ZenonT(30)
<1>7. n = LeaderOf(view[n]) => head[n] = view[n]
  <2> SUFFICES ASSUME n = LeaderOf(view[n]) PROVE head[n] = view[n]
    OBVIOUS
  <2>1. leader[n] = n
    BY <1>1, ZenonT(30) DEF LeaderOfView, LeaderOf
  <2>2. head[n] \notin 0..(view[n] - 1)
    BY <1>1, <1>5, <2>1, Zenon DEF CertOK
  <2>3. head[n] \in (view[n] - 1)..view[n]
    BY <1>5, ZenonT(30) DEF PhaseOK
  <2> QED
    BY <1>2, <2>2, <2>3, SMTT(30)
<1>8. PhaseOK(n)'
  BY <1>1, <1>3, <1>5, <1>7, Zenon DEF PhaseOK
<1>9. view[n] \in Nat /\ view[n] <= view[n]
  BY <1>2, SMTT(30)
<1> QED
  BY <1>1, <1>3, <1>4, <1>6, <1>8, <1>9, RoundStep, ZenonT(30)

\* The callback without certificate starts the view again.
LEMMA LockRetry ==
  ASSUME TypeOK, Lock, NEW n \in Node, RetryView(n), UNCHANGED <<early, lost>>
  PROVE  Lock'
<1>1. /\ phase[n] = "decide" /\ view[n] \notin DOMAIN certMap[n]
      /\ phase' = [phase EXCEPT ![n] = "ready"]
      /\ UNCHANGED <<view, up, head, BlocksByHeight, BlocksByHash,
                     proposalByviewMap, certMap, transcript, fpropMap, tally,
                     proposeChannel, voteTasks, certTasks, propNet, voteNet,
                     evidence, reputationMap, acks, equivocatingProposalInject>>
  BY Zenon DEF RetryView, chainVars, repVars, forwVars, voteVars
<1>2. view[n] \in Nat \ {0} /\ phase \in [Node -> Phase]
  BY Zenon DEF TypeOK
<1>3. phase'[n] = "ready" /\ \A x \in Node \ {n} : phase'[x] = phase[x]
  BY <1>1, <1>2, ZenonT(30)
<1>4. Idle
  BY <1>1, IdleOutsideRounds, Zenon
<1>5. ChainOK(n) /\ RepOK(n) /\ CertOK(n) /\ PhaseOK(n)
  BY ZenonT(30) DEF Lock, NodeOK
<1>6. ChainOK(n)' /\ RepOK(n)' /\ CertOK(n)' /\ PhaseOK(n)'
  <2>1. ChainOK(n)'
    BY <1>1, <1>5, ZenonT(30) DEF ChainOK
  <2>2. RepOK(n)'
    BY <1>1, <1>3, <1>5, SMTT(30) DEF RepOK
  <2>3. CertOK(n)'
    BY <1>1, <1>5, ZenonT(30) DEF CertOK
  <2>4. PhaseOK(n)'
    BY <1>1, <1>3, <1>5, ZenonT(30) DEF PhaseOK
  <2> QED
    BY <2>1, <2>2, <2>3, <2>4, Zenon
<1>7. view[n] \in Nat /\ view[n] <= view[n]
  BY <1>2, SMTT(30)
<1> QED
  BY <1>1, <1>3, <1>4, <1>6, <1>7, RoundStep, Zenon

\* changeLeader lets the next round start.
LEMMA LockRotate ==
  ASSUME TypeOK, Lock, NEW n \in Node, Rotate(n), UNCHANGED <<early, lost>>
  PROVE  Lock'
<1>1. /\ phase[n] = "rotate"
      /\ phase' = [phase EXCEPT ![n] = "ready"]
      /\ UNCHANGED <<view, up, head, BlocksByHeight, BlocksByHash,
                     proposalByviewMap, certMap, transcript, fpropMap, tally,
                     proposeChannel, voteTasks, certTasks, propNet, voteNet,
                     evidence, reputationMap, acks, equivocatingProposalInject>>
  BY SMTT(30) DEF Rotate, chainVars, repVars, forwVars, voteVars
<1>2. view[n] \in Nat \ {0} /\ phase \in [Node -> Phase]
  BY DEF TypeOK
<1>3. phase'[n] = "ready" /\ \A x \in Node \ {n} : phase'[x] = phase[x]
  BY <1>1, <1>2, ZenonT(30)
<1>4. Idle
  BY <1>1, IdleOutsideRounds, Zenon
<1>5. ChainOK(n) /\ RepOK(n) /\ CertOK(n) /\ PhaseOK(n)
  BY SMTT(30) DEF Lock, NodeOK
<1>6. ChainOK(n)' /\ RepOK(n)' /\ CertOK(n)'
  <2>1. ChainOK(n)'
    BY <1>1, <1>5, ZenonT(30) DEF ChainOK
  <2>2. RepOK(n)'
    BY <1>1, <1>3, <1>5, Zenon DEF RepOK
  <2>3. CertOK(n)'
    BY <1>1, <1>5, ZenonT(30) DEF CertOK
  <2> QED
    BY <2>1, <2>2, <2>3, Zenon
<1>7. head[n] = view[n] - 1 /\ head[n] # view[n]
  <2>1. head[n] = view[n] - 1
    BY <1>1, <1>5, ZenonT(30) DEF PhaseOK
  <2> QED
    BY <1>2, <2>1, SMTT(30)
<1>8. PhaseOK(n)'
  BY <1>1, <1>3, <1>5, <1>7, Zenon DEF PhaseOK
<1>9. view[n] \in Nat /\ view[n] <= view[n]
  BY <1>2
<1> QED
  BY <1>1, <1>3, <1>4, <1>6, <1>8, <1>9, RoundStep, Zenon

\* The timer of a settled round: the reputations of the next view are the
\* same at every node, as they come from the same records.
LEMMA LockTimer ==
  ASSUME ForwardsCount, TypeOK, Lock, NEW n \in Node, Settled(view[n]), TimerFires(n),
         UNCHANGED <<early, lost>>
  PROVE  Lock'
<1> DEFINE v == view[n]
           rep == [id \in Node |-> ReputationCalculateinCurrentRound(transcript[n], id)]
<1>1. /\ phase[n] = "armed"
      /\ phase' = [phase EXCEPT ![n] =
                     IF equivocatingProposalInject[n] THEN "empty" ELSE "decide"]
      /\ equivocatingProposalInject' =
           [equivocatingProposalInject EXCEPT ![n] = FALSE]
      /\ reputationMap' =
           [reputationMap EXCEPT ![n] = Put(reputationMap[n], v + 1, rep)]
      /\ UNCHANGED <<view, up, head, BlocksByHeight, BlocksByHash,
                     proposalByviewMap, certMap, transcript, fpropMap, tally,
                     proposeChannel, voteTasks, certTasks, propNet, voteNet,
                     evidence, acks>>
  BY ZenonT(30) DEF TimerFires, addNewViewReputaiontoMap, chainVars, voteVars
<1>2. /\ v \in Nat \ {0} /\ phase \in [Node -> Phase] /\ head[n] \in Nat
      /\ DOMAIN reputationMap = Node
      /\ equivocatingProposalInject \in [Node -> BOOLEAN]
  BY Zenon DEF TypeOK, IsMapOf
<1>3. ChainOK(n) /\ RepOK(n) /\ CertOK(n) /\ PhaseOK(n)
  BY ZenonT(30) DEF Lock, NodeOK
<1>4. /\ phase'[n] = "decide" /\ ~equivocatingProposalInject'[n]
      /\ \A x \in Node \ {n} :
           /\ phase'[x] = phase[x]
           /\ equivocatingProposalInject'[x] = equivocatingProposalInject[x]
  BY <1>1, <1>2, <1>3, Zenon DEF PhaseOK
<1>5. /\ reputationMap'[n] = Put(reputationMap[n], v + 1, rep)
      /\ \A x \in Node \ {n} : reputationMap'[x] = reputationMap[x]
  BY <1>1, <1>2, ZenonT(30)
<1>6. /\ Idle /\ \A m \in Node : head[m] = v
      /\ transcript[n] = Recorded(v)
  BY <1>1, SettledRound, Zenon
<1>7. rep = RepOf(v + 1)
  <2>1. v \in Nat \ {0}
    BY <1>2, Zenon
  <2>2. v + 1 # 1 /\ (v + 1) - 1 = v
    BY <2>1, SMTT(30)
  <2> QED
    BY <1>6, <2>2, ZenonT(30) DEF RepOf
<1>8. RepOK(n)'
  <2> HIDE DEF rep
  <2>1. DOMAIN reputationMap'[n] = DOMAIN reputationMap[n] \cup {v + 1}
    BY <1>5, ZenonT(30) DEF Put
  <2>2. ASSUME NEW i \in DOMAIN reputationMap'[n]
        PROVE  reputationMap'[n][i] = RepOf(i)
    BY <1>3, <1>5, <1>7, <2>1, Zenon DEF Put, RepOK
  <2> QED
    BY <1>1, <1>3, <2>1, <2>2, ZenonT(30) DEF RepOK
<1>9. ChainOK(n)' /\ CertOK(n)'
  BY <1>1, <1>3, ZenonT(30) DEF ChainOK, CertOK
<1>10. PhaseOK(n)'
  <2>1. up'[n] /\ view'[n] <= MaxView
    BY <1>1, <1>3, ZenonT(30) DEF PhaseOK
  <2>2. v \in Nat \ {0}
    BY <1>2, Zenon
  <2>3. v \in (v - 1)..v
    BY <2>2, SMTT(30)
  <2>4. \A m \in Node : head'[m] = v /\ v \in (v - 1)..v
    BY <1>1, <1>6, <2>3, Zenon
  <2>5. view'[n] = v
    BY <1>1, ZenonT(30)
  <2> HIDE DEF v
  <2> QED
    BY <1>4, <2>1, <2>4, <2>5, Zenon DEF PhaseOK
<1>11. UNCHANGED <<up, head, BlocksByHeight, BlocksByHash, proposalByviewMap,
                   certMap, transcript, fpropMap, tally, proposeChannel,
                   voteTasks, certTasks, propNet, voteNet, evidence, early, lost>>
  BY <1>1, Zenon
<1>12. view'[n] \in Nat /\ view[n] <= view'[n]
  <2>1. v \in Nat /\ view'[n] = v
    BY <1>1, <1>2, SMTT(30)
  <2>2. v <= v
    BY <2>1, SMTT(30)
  <2> QED
    BY <2>1, <2>2, ZenonT(30)
<1>13. \A x \in Node \ {n} :
         /\ view'[x] = view[x] /\ phase'[x] = phase[x]
         /\ reputationMap'[x] = reputationMap[x] /\ acks'[x] = acks[x]
         /\ equivocatingProposalInject'[x] = equivocatingProposalInject[x]
  BY <1>1, <1>4, <1>5, Zenon
<1> QED
  BY <1>6, <1>8, <1>9, <1>10, <1>11, <1>12, <1>13, RoundStep, ZenonT(30)

\* The callback acknowledges the block of its view, and everybody has it.
LEMMA LockCommit ==
  ASSUME TypeOK, Lock, NEW n \in Node, Commit(n), UNCHANGED <<early, lost>>
  PROVE  /\ Lock'
         /\ view[n] <= MaxView
         /\ acks' = [acks EXCEPT ![n] =
                       Append(@, [view |-> view[n], block |-> BlockOf(view[n])])]
<1> DEFINE v == view[n]
           a == [view |-> v, block |-> BlockOf(v)]
<1>1. /\ v \in Nat \ {0} /\ phase \in [Node -> Phase] /\ view \in [Node -> Nat \ {0}]
      /\ acks \in [Node -> Seq([view : Nat, block : Block])]
  BY Zenon DEF TypeOK
<1>2. ChainOK(n) /\ RepOK(n) /\ CertOK(n) /\ PhaseOK(n)
  BY DEF Lock, NodeOK
<1>3. phase[n] = "decide" /\ v \in DOMAIN certMap[n]
  BY <1>2, Zenon DEF Commit, PhaseOK
<1>4. Idle
  BY <1>3, IdleOutsideRounds, ZenonT(30)
<1>5. v <= MaxView /\ \A m \in Node : head[m] = v
  BY <1>2, <1>3, Zenon DEF PhaseOK
<1>6. head[n] \in DOMAIN BlocksByHeight[n] /\ BlocksByHeight[n][head[n]] = BlockOf(v)
  <2>1. v \in Nat \ {0} /\ head[n] = v
    BY <1>1, <1>5, Zenon
  <2>2. v \in 1..v
    BY <2>1, SMTT(30)
  <2> QED
    BY <1>2, <2>1, <2>2, ZenonT(30) DEF ChainOK
<1>7. /\ acks' = [acks EXCEPT ![n] = Append(@, a)]
      /\ view' = [view EXCEPT ![n] = @ + 1]
      /\ phase' = [phase EXCEPT ![n] = "rotate"]
      /\ UNCHANGED <<up, head, BlocksByHeight, BlocksByHash,
                     proposalByviewMap, certMap, transcript, fpropMap, tally,
                     proposeChannel, voteTasks, certTasks, propNet, voteNet,
                     evidence, reputationMap, equivocatingProposalInject>>
  BY <1>6, Zenon DEF Commit, chainVars, repVars, forwVars, voteVars
<1>8. /\ acks'[n] = Append(acks[n], a)
      /\ view'[n] = v + 1 /\ phase'[n] = "rotate"
      /\ \A x \in Node \ {n} : /\ acks'[x] = acks[x] /\ view'[x] = view[x]
                               /\ phase'[x] = phase[x]
  BY <1>1, <1>7, SMTT(30)
<1>9. acks'[n] = [i \in 1..v |-> [view |-> i, block |-> BlockOf(i)]]
  <2> DEFINE b == [i \in 1..(v - 1) |-> [view |-> i, block |-> BlockOf(i)]]
  <2>1. acks[n] = b
    BY <1>2, ZenonT(30) DEF ChainOK
  <2>2. b \in Seq([view : Nat, block : Block]) /\ Len(b) = v - 1
    <3>1. acks[n] \in Seq([view : Nat, block : Block])
      BY <1>1, ZenonT(30)
    <3>2. b \in Seq([view : Nat, block : Block])
      BY <2>1, <3>1, ZenonT(30)
    <3>3. DOMAIN b = 1..(v - 1)
      BY SMTT(30)
    <3> HIDE DEF b, v
    <3> QED
      BY <1>1, <3>2, <3>3, SMTT(30)
  <2>3. DOMAIN Append(b, a) = 1..v
    <3> HIDE DEF b, a
    <3> QED
      BY <1>1, <2>2, SMTT(30)
  <2>4. ASSUME NEW i \in 1..v
        PROVE  Append(b, a)[i] = [view |-> i, block |-> BlockOf(i)]
    <3>1. CASE i = v
      <4>1. Append(b, a)[v] = a
        <5>1. v = Len(b) + 1
          <6> HIDE DEF b, v
          <6> QED
            BY <1>1, <2>2, SMTT(30)
        <5> HIDE DEF b, a
        <5> QED
          BY <2>2, <5>1, SMTT(30)
      <4> QED
        BY <3>1, <4>1, Zenon
    <3>2. CASE i \in 1..(v - 1)
      <4>1. Append(b, a)[i] = b[i]
        BY <1>1, <2>2, <3>2, SMTT(30)
      <4> QED
        BY <3>2, <4>1, ZenonT(30)
    <3> QED
      BY <1>1, <3>1, <3>2, SMTT(30)
  <2>5. Append(b, a) = [i \in 1..v |-> Append(b, a)[i]]
    <3> DEFINE T == [view : Nat, block : Block]
    <3>1. a \in T
      BY <1>1, <1>6, Zenon DEF TypeOK, IsMapOf
    <3> HIDE DEF b, a, T
    <3>2. Append(b, a) \in Seq(T)
      BY <2>2, <3>1, SMTT(30) DEF T
    <3>3. PICK q : q = Append(b, a)
      BY Zenon
    <3> HIDE DEF v
    <3>4. q \in Seq(T) /\ Len(q) = v
      BY <1>1, <2>2, <3>1, <3>2, <3>3, SMTT(30) DEF T
    <3>5. q \in [1..v -> T]
      BY <3>4, SMTT(30)
    <3>6. q = [i \in 1..v |-> q[i]]
      BY <3>5, Zenon
    <3> QED
      BY <3>3, <3>6, ZenonT(30)
  <2>6. [i \in 1..v |-> Append(b, a)[i]]
          = [i \in 1..v |-> [view |-> i, block |-> BlockOf(i)]]
    <3> HIDE DEF b, a, v
    <3> QED
      BY <2>4, ZenonT(30)
  <2> HIDE DEF b, a
  <2> QED
    BY <1>8, <2>1, <2>5, <2>6, Zenon
<1>10. (v + 1) - 1 = v /\ 0..v = 0..(v - 1) \cup {v} /\ 1..(v + 1) = 1..v \cup {v + 1}
  <2>1. v \in Nat \ {0}
    BY <1>1, ZenonT(30)
  <2> HIDE DEF v
  <2> QED
    BY <2>1, SMTT(30)
<1>11. ChainOK(n)'
  BY <1>2, <1>7, <1>8, <1>9, <1>10, ZenonT(30) DEF ChainOK
<1>12. RepOK(n)'
  BY <1>2, <1>3, <1>7, <1>8, <1>10, ZenonT(30) DEF RepOK
<1>13. CertOK(n)'
  BY <1>2, <1>3, <1>7, <1>8, <1>10, ZenonT(30) DEF CertOK
<1>14. PhaseOK(n)'
  <2>1. v \in v..(v + 1)
    BY <1>1, SMTT(30)
  <2> QED
    BY <1>2, <1>3, <1>5, <1>7, <1>8, <1>10, <2>1, ZenonT(30) DEF PhaseOK
<1>15. view'[n] \in Nat /\ view[n] <= view'[n]
  <2>1. view'[n] = v + 1 /\ v \in Nat /\ v = view[n]
    BY <1>1, <1>8, SMTT(30)
  <2> HIDE DEF v
  <2> QED
    BY <2>1, SMTT(30)
<1> QED
  BY <1>4, <1>5, <1>7, <1>8, <1>11, <1>12, <1>13, <1>14, <1>15, RoundStep, ZenonT(30)

-------------------------------------------------------------------------------
\* New blocks.

\* proposalByviewMap gets the hash of the view's block.
LEMMA HashRecorded ==
  ASSUME TypeOK, Lock, NEW n \in Node,
         proposalByviewMap' = [proposalByviewMap EXCEPT ![n] =
                                 Put(@, view[n], Chain(view[n]))]
  PROVE  \A x \in Node : HashesOK(x)'
<1>1. DOMAIN proposalByviewMap = Node /\ \A x \in Node : HashesOK(x)
  BY SMTT(30) DEF TypeOK, IsMapOf, Lock, NodeOK
<1>2. /\ proposalByviewMap'[n] = Put(proposalByviewMap[n], view[n], Chain(view[n]))
      /\ \A x \in Node \ {n} : proposalByviewMap'[x] = proposalByviewMap[x]
  BY <1>1, ZenonT(30)
<1>3. HashesOK(n)'
  BY <1>1, <1>2, SMTT(30) DEF HashesOK, Put
<1>4. \A x \in Node \ {n} : HashesOK(x)'
  BY <1>1, <1>2, ZenonT(30) DEF HashesOK
<1> QED
  BY <1>3, <1>4, ZenonT(30)

\* The block of the current view, on top of the chain of the earlier views.
LEMMA BlockAdded ==
  ASSUME TypeOK, Lock, NEW n \in Node, head[n] = view[n] - 1,
         addNewBlock(n, BlockOf(view[n])),
         head' = [head EXCEPT ![n] = @ + 1],
         transcript' = [transcript EXCEPT ![n] =
                          addProposaltoMap(@, view[n], LeaderOf(view[n]))],
         UNCHANGED <<view, acks>>
  PROVE  /\ head'[n] = view[n]
         /\ \A x \in Node \ {n} : head'[x] = head[x]
         /\ \A x \in Node : transcript'[x].vote = transcript[x].vote
         /\ \A x \in Node : ChainOK(x)' /\ TranscriptOK(x)'
<1> DEFINE v == view[n]
           b == BlockOf(v)
<1>1. /\ v \in Nat \ {0} /\ head \in [Node -> Nat] /\ LeaderOf(v) \in Node
      /\ DOMAIN BlocksByHeight = Node /\ DOMAIN BlocksByHash = Node
      /\ transcript \in [Node -> Transcript]
  BY LeaderType, ZenonT(30) DEF TypeOK, IsMapOf
<1>2. b.height = v /\ GetBlockHash(b) = Chain(v)
  BY <1>1, BlockFacts, Zenon
<1>3. \A x \in Node : ChainOK(x) /\ TranscriptOK(x)
  BY SMTT(30) DEF Lock, NodeOK
<1>4. head'[n] = v /\ \A x \in Node \ {n} : head'[x] = head[x]
  BY <1>1, SMTT(30)
<1>5. 1..v = 1..head[n] \cup {v} /\ v \notin 1..head[n]
  BY <1>1, SMTT(30)
<1>6. /\ BlocksByHeight'[n] = Put(BlocksByHeight[n], v, b)
      /\ BlocksByHash'[n] = BlocksByHash[n] \cup {Chain(v)}
      /\ \A x \in Node \ {n} : /\ BlocksByHeight'[x] = BlocksByHeight[x]
                               /\ BlocksByHash'[x] = BlocksByHash[x]
  <2> HIDE DEF b
  <2> QED
    BY <1>1, <1>2, ZenonT(30) DEF addNewBlock, b, v
<1>7. BlocksByHeight'[n] = [i \in 1..v |-> BlockOf(i)]
  <2>1. BlocksByHeight[n] = [i \in 1..head[n] |-> BlockOf(i)]
    BY <1>3, Zenon DEF ChainOK
  <2> QED
    BY <1>5, <1>6, <2>1, ZenonT(30) DEF Put
<1>8. BlocksByHash'[n] = {Chain(i) : i \in 1..v}
  BY <1>3, <1>5, <1>6, ZenonT(30) DEF ChainOK
<1>9. ChainOK(n)'
  BY <1>3, <1>4, <1>7, <1>8, ZenonT(30) DEF ChainOK
<1>10. \A x \in Node \ {n} : ChainOK(x)'
  BY <1>3, <1>4, <1>6, ZenonT(30) DEF ChainOK
<1>11. /\ transcript'[n] = addProposaltoMap(transcript[n], v, LeaderOf(v))
       /\ \A x \in Node \ {n} : transcript'[x] = transcript[x]
  BY <1>1, SMTT(30)
<1>12. /\ transcript'[n] = [transcript[n] EXCEPT !.prop = PropRecords(v)]
  <2> DEFINE t == transcript[n]
  <2>1. t.prop = PropRecords(head[n])
    BY <1>3, ZenonT(30) DEF TranscriptOK
  <2>2. \A e \in t.prop : e[1] # v
    BY <1>5, <2>1, SMTT(30) DEF PropRecords
  <2>3. <<v, LeaderOf(v)>> \notin t.prop
    BY <2>2, Zenon
  <2>4. {e \in t.prop : e[1] # v} = t.prop
    BY <2>2, ZenonT(30)
  <2>5. t.prop \cup {<<v, LeaderOf(v)>>} = PropRecords(v)
    BY <1>5, <2>1, Zenon DEF PropRecords
  <2> HIDE DEF t
  <2> QED
    BY <1>11, <2>3, <2>4, <2>5, ZenonT(30) DEF addProposaltoMap, t
<1>13. /\ transcript'[n].prop = PropRecords(v)
       /\ transcript'[n].vote = transcript[n].vote
       /\ transcript'[n].maliVote = transcript[n].maliVote
       /\ transcript'[n].with = transcript[n].with
       /\ transcript'[n].equi = transcript[n].equi
       /\ transcript'[n].maliProp = transcript[n].maliProp
  BY <1>1, <1>12, ZenonT(30) DEF Transcript
<1>14. TranscriptOK(n)'
  BY <1>3, <1>4, <1>13, ZenonT(30) DEF TranscriptOK
<1>15. \A x \in Node \ {n} : TranscriptOK(x)'
  BY <1>3, <1>4, <1>11, Zenon DEF TranscriptOK
<1> QED
  BY <1>4, <1>9, <1>10, <1>11, <1>13, <1>14, <1>15, Zenon

-------------------------------------------------------------------------------
\* The leader proposes: everybody else has started the round, and nothing
\* of an earlier one is left.

\* A leader that may start is at the head of the chain of its view, and all
\* others are in this view.
LEMMA ProposeFacts ==
  ASSUME TypeOK, LeaderOfView, Lock, ~Skew, NEW n \in Node, Propose(n),
         MayStart(n)
  PROVE  /\ Idle /\ head[n] = view[n] - 1 /\ n = LeaderOf(view[n])
         /\ \A x \in Node \ {n} : view[x] = view[n] /\ phase[x] = "armed"
         /\ NewCandidateProposal(n, certMap[n][head[n]], head[n] + 1, "nil")
              = Orig(view[n])
<1> DEFINE v == view[n]
<1>1. /\ v \in Nat \ {0} /\ head \in [Node -> Nat]
      /\ view \in [Node -> Nat \ {0}]
  BY ZenonT(30) DEF TypeOK
<1>2. phase[n] = "ready" /\ leader[n] = n /\ head[n] \in DOMAIN certMap[n]
  BY SMTT(30) DEF Propose, startConsensusTimer
<1>3. n = LeaderOf(v)
  BY <1>2, ZenonT(30) DEF LeaderOfView, LeaderOf
<1>4. Idle
  BY <1>2, IdleOutsideRounds, ZenonT(30)
<1>5. \A x \in Node : PhaseOK(x) /\ CertOK(x)
  BY Zenon DEF Lock, NodeOK
<1>6. head[n] = v - 1
  <2>1. head[n] \in (v - 1)..v
    BY <1>5, Zenon DEF PhaseOK
  <2>2. head[n] # v
    BY <1>2, <1>5, ZenonT(30) DEF PhaseOK
  <2> QED
    BY <1>1, <2>1, <2>2, SMTT(30)
<1>7. ASSUME NEW x \in Node \ {n} PROVE view[x] = v /\ phase[x] = "armed"
  <2>1. head[n] \in (view[x] - 1)..view[x] /\ up[x]
    BY <1>5, SMTT(30) DEF PhaseOK
  <2>2. view[x] <= v
    BY <1>1, <1>6, <2>1, SMTT(30)
  <2> QED
    BY <1>2, <2>1, <2>2, ZenonT(30) DEF MayStart
<1>8. certMap[n][v - 1].hash = Chain(v - 1)
  BY <1>2, <1>5, <1>6, ZenonT(30) DEF CertOK, GoodCert
<1>9. (v - 1) + 1 = v
  BY <1>1, SMTT(30)
<1>10. NewCandidateProposal(n, certMap[n][head[n]], head[n] + 1, "nil") = Orig(v)
  BY <1>2, <1>3, <1>6, <1>8, <1>9, ZenonT(30) DEF NewCandidateProposal, Orig, BlockOf, CertOf
<1> QED
  BY <1>3, <1>4, <1>6, <1>7, <1>10, ZenonT(30)

\* The proposal is the first message of its round.
LEMMA LockPropose ==
  ASSUME TypeOK, LeaderOfView, Lock, ~Skew, NEW n \in Node, Propose(n),
         MayStart(n), UNCHANGED <<early, lost>>
  PROVE  Lock'
<1>1. PICK v : v = view[n]
  BY ZenonT(30)
<1>2. /\ v \in Nat \ {0} /\ head \in [Node -> Nat] /\ phase \in [Node -> Phase]
      /\ view \in [Node -> Nat \ {0}]
      /\ fpropMap \in [Node -> SUBSET (Nat \X Node)]
  BY <1>1, SMTT(30) DEF TypeOK
<1>3. /\ Idle /\ head[n] = v - 1 /\ n = LeaderOf(v)
      /\ \A x \in Node \ {n} : view[x] = v /\ phase[x] = "armed"
      /\ NewCandidateProposal(n, certMap[n][head[n]], head[n] + 1, "nil") = Orig(v)
  BY <1>1, ProposeFacts, ZenonT(30)
<1>4. Orig(v).block = BlockOf(v) /\ GetBlockHash(BlockOf(v)) = Chain(v)
  BY <1>2, BlockFacts, Zenon DEF Orig
<1>5. /\ phase[n] = "ready" /\ v <= MaxView
      /\ phase' = [phase EXCEPT ![n] = "armed"]
      /\ head' = [head EXCEPT ![n] = @ + 1]
      /\ addNewBlock(n, BlockOf(v))
      /\ proposalByviewMap' =
           [proposalByviewMap EXCEPT ![n] = Put(@, v, Chain(v))]
      /\ transcript' =
           [transcript EXCEPT ![n] = addProposaltoMap(@, v, LeaderOf(v))]
      /\ propNet' = propNet \cup Broadcast(n, Orig(v))
      /\ UNCHANGED <<view, up, certMap, reputationMap,
                     equivocatingProposalInject, fpropMap, tally,
                     proposeChannel, voteTasks, certTasks, voteNet, acks, evidence>>
  BY <1>1, <1>3, <1>4, ZenonT(30) DEF Propose, startConsensusTimer, voteVars
<1>6. /\ head'[n] = v /\ \A x \in Node \ {n} : head'[x] = head[x]
      /\ \A x \in Node : transcript'[x].vote = transcript[x].vote
      /\ \A x \in Node : ChainOK(x)' /\ TranscriptOK(x)'
  BY <1>1, <1>3, <1>5, BlockAdded, Zenon
<1>7. \A x \in Node : HashesOK(x)'
  BY <1>1, <1>5, HashRecorded, ZenonT(30)
<1>8. v \in Nat \ {0} /\ head[n] = v - 1 /\ head'[n] = v
  BY <1>2, <1>3, <1>6, Zenon
<1>9. ASSUME NEW x \in Node
       PROVE  head[x] \in Nat /\ head'[x] \in Nat /\ head[x] <= head'[x]
  <2>1. head[x] \in Nat
    BY <1>2, Zenon
  <2>2. x = n \/ head'[x] = head[x]
    BY <1>6, ZenonT(30)
  <2> QED
    BY <1>8, <2>1, <2>2, SMTT(30)
<1>10. phase'[n] = "armed" /\ \A x \in Node \ {n} : phase'[x] = phase[x]
  BY <1>2, <1>5, SMTT(30)
<1>11. \A x \in Node : NodeOK(x)
  BY SMTT(30) DEF Lock
<1>12. ASSUME NEW x \in Node
      PROVE  RepOK(x)' /\ CertOK(x)' /\ TallyOK(x)' /\ ForwardsOK(x)' /\ PhaseOK(x)'
  <2>1. RepOK(x)'
    BY <1>5, <1>10, <1>11, Zenon DEF NodeOK, RepOK
  <2>2. CertOK(x)'
    BY <1>5, <1>11, ZenonT(30) DEF NodeOK, CertOK
  <2>3. TallyOK(x)'
    BY <1>5, <1>6, <1>11, Zenon DEF NodeOK, TallyOK
  <2>4. ForwardsOK(x)'
    <3> SUFFICES ASSUME NEW e \in fpropMap[x]
                 PROVE  e[2] # LeaderOf(e[1]) /\ e[1] <= head'[LeaderOf(e[1])]
      BY <1>5, Zenon DEF ForwardsOK
    <3>1. e[1] \in Nat
      BY <1>2, SMTT(30)
    <3>2. e[2] # LeaderOf(e[1]) /\ e[1] <= head[LeaderOf(e[1])]
      BY <1>11, Zenon DEF NodeOK, ForwardsOK
    <3>3. PICK i \in Nat : i = e[1]
      BY <3>1, ZenonT(30)
    <3>4. LeaderOf(i) \in Node
      BY NAssumption, SMTT(30) DEF LeaderOf, Node
    <3>5. head[LeaderOf(i)] \in Nat /\ head'[LeaderOf(i)] \in Nat
            /\ head[LeaderOf(i)] <= head'[LeaderOf(i)]
      BY <1>9, <3>4, ZenonT(30)
    <3>6. i <= head[LeaderOf(i)]
      BY <3>2, <3>3, ZenonT(30)
    <3>7. i <= head'[LeaderOf(i)]
      BY <3>5, <3>6, SMTT(30)
    <3> QED
      BY <3>2, <3>3, <3>7, ZenonT(30)
  <2>5. PhaseOK(x)'
    <3>1. PhaseOK(x) /\ PhaseOK(n)
      BY <1>11, ZenonT(30) DEF NodeOK
    <3>2. view'[x] = v /\ phase'[x] = "armed"
      BY <1>1, <1>3, <1>5, <1>10, ZenonT(30)
    <3>3. \A m \in Node : head'[m] \in (v - 1)..v
      <4>1. \A m \in Node : head[m] \in (v - 1)..v
        BY <1>1, <3>1, Zenon DEF PhaseOK
      <4>2. v \in (v - 1)..v
        BY <1>8, SMTT(30)
      <4> QED
        BY <1>6, <4>1, <4>2, ZenonT(30)
    <3> QED
      BY <1>3, <1>5, <1>6, <3>1, <3>2, <3>3, Zenon DEF PhaseOK
  <2> QED
    BY <2>1, <2>2, <2>3, <2>4, <2>5, SMTT(30)
<1>13. InRound(v)'
  BY <1>1, <1>3, <1>5, <1>10, ZenonT(30) DEF InRound
<1>14. /\ \A w : Orig(w)' = Orig(w)
       /\ \A w, s : Fwd(w, s)' = Fwd(w, s)
  BY <1>5, ZenonT(30) DEF Orig, Fwd, CertOf
<1>15. ASSUME NEW x \in Node, NEW s PROVE ~Counted(x, v, s)'
  <2>1. ForwardsOK(x)
    BY <1>11, ZenonT(30) DEF NodeOK
  <2>2. ~(v <= head[LeaderOf(v)])
    <3>1. ~(v <= head[n])
      BY <1>8, SMTT(30)
    <3> QED
      BY <1>3, <3>1, ZenonT(30)
  <2> QED
    BY <1>5, <2>1, <2>2, ZenonT(30) DEF ForwardsOK, Counted
<1>16. PropsOK'
  <2> SUFFICES ASSUME NEW m \in propNet' PROVE PropOK(v, m)' /\ view'[m.to] = v
    BY <1>5, ZenonT(30) DEF PropsOK
  <2>1. PICK x \in Node \ {n} : m = [to |-> x, prop |-> Orig(v)]
    BY <1>3, <1>5, SMTT(30) DEF Broadcast, Idle
  <2>2. m.prop = Orig(v) /\ m.to = x
    BY <2>1, ZenonT(30)
  <2>3. ASSUME NEW y \in Node PROVE ~Queued(y, v, x)' /\ ~InFlight(y, v, x)'
    <3>1. ~Queued(y, v, x)'
      BY <1>3, <1>5, ZenonT(30) DEF Queued, Idle
    <3>2. Orig(v) # Fwd(v, x)
      BY <1>2, MessageFacts, ZenonT(30)
    <3>3. ~InFlight(y, v, x)'
      BY <1>3, <1>5, <1>14, <3>2, ZenonT(30) DEF InFlight, Broadcast, Idle
    <3> QED
      BY <3>1, <3>3, Zenon
  <2>4. view'[x] = v
    BY <1>3, <1>5, Zenon
  <2> QED
    BY <1>3, <1>13, <1>14, <1>15, <2>2, <2>3, <2>4, ZenonT(30) DEF PropOK
<1>17. ChannelsOK'
  <2> SUFFICES ASSUME NEW x \in Node PROVE ChannelOK(x, view[x])'
    BY Zenon DEF ChannelsOK
  <2>1. Range(proposeChannel'[x]) = {}
    BY <1>3, <1>5, ZenonT(30) DEF Idle
  <2>2. IsInjective(proposeChannel'[x])
    BY <1>5, Zenon DEF Lock, ChannelsOK, ChannelOK
  <2> QED
    BY <2>1, <2>2, ZenonT(30) DEF ChannelOK
<1>18. VotesOK'
  BY <1>3, <1>5, ZenonT(30) DEF Idle, VotesOK
<1>19. Forwarded'
  <2> SUFFICES ASSUME NEW w \in Nat \ {0}, NEW s \in Others(w),
                      w <= head'[LeaderOf(w)]
               PROVE  Asked(s, w)' \/ \A x \in Node : Counted(x, w, s)'
    BY ZenonT(30) DEF Forwarded
  <2>1. CASE w = v
    <3>1. s \in Node \ {n}
      BY <1>3, <2>1, ZenonT(30) DEF Others
    <3>2. [to |-> s, prop |-> Orig(v)] \in propNet'
      BY <1>5, <3>1, Zenon DEF Broadcast
    <3> QED
      BY <1>14, <2>1, <3>2, Zenon DEF Asked
  <2>2. CASE w # v
    <3>1. LeaderOf(w) \in Node
      BY LeaderType, Zenon
    <3>2. LeaderOf(w) = n => w <= v /\ head[LeaderOf(w)] = v - 1
      BY <1>8, ZenonT(30)
    <3>3. LeaderOf(w) # n => head'[LeaderOf(w)] = head[LeaderOf(w)]
      BY <1>6, <3>1, ZenonT(30)
    <3>4. w <= head[LeaderOf(w)]
      BY <1>8, <2>2, <3>2, <3>3, SMTT(30)
    <3>5. \A x \in Node : Full(x, w)
      BY <1>3, <3>4, IdleRound, ZenonT(30)
    <3> QED
      BY <1>5, <3>5, ZenonT(30) DEF Full, Counted
  <2> QED
    BY <2>1, <2>2, Zenon
<1>20. Accepted'
  <2> SUFFICES ASSUME NEW w \in Nat \ {0}, NEW x \in Others(w)
               PROVE  Full(x, w)' <=> w <= head'[x]
    BY SMTT(30) DEF Accepted
  <2>1. x \in Node /\ (Full(x, w) <=> w <= head[x])
    BY Zenon DEF Lock, Accepted, Others
  <2>2. Full(x, w)' <=> Full(x, w)
    BY <1>5, ZenonT(30) DEF Full, Counted
  <2>3. x = n => w # v
    BY <1>3, Zenon DEF Others
  <2>4. x # n => head'[x] = head[x]
    BY <1>6, <2>1, ZenonT(30)
  <2>5. x = n => (w <= v <=> w <= v - 1)
    BY <1>8, <2>3, SMTT(30)
  <2>6. w <= head'[x] <=> w <= head[x]
    BY <1>8, <2>4, <2>5, ZenonT(30)
  <2> QED
    BY <2>1, <2>2, <2>6, Zenon
<1>21. Voted'
  <2> SUFFICES ASSUME NEW w \in Nat \ {0}, NEW x \in Node, Full(x, w)'
               PROVE  Cast(x, w)'
    BY ZenonT(30) DEF Voted
  <2>1. Full(x, w)
    BY <1>5, Zenon DEF Full, Counted
  <2>2. Cast(x, w)
    BY <1>3, <2>1, ZenonT(30) DEF Lock, Voted, Idle
  <2> QED
    BY <1>5, <1>6, <2>2, Zenon DEF Cast
<1>22. \A x \in Node : NodeOK(x)'
  BY <1>6, <1>7, <1>12, Zenon DEF NodeOK
<1>23. lost' = {} /\ early' = 0 /\ evidence' = {}
  BY <1>5, SMTT(30) DEF Lock
<1> QED
  BY <1>16, <1>17, <1>18, <1>19, <1>20, <1>21, <1>22, <1>23, Zenon DEF Lock

-------------------------------------------------------------------------------
\* Forwarding within a round.

\* In a round everybody is in its view, and the leader has its block.
LEMMA RoundFacts ==
  ASSUME TypeOK, LeaderOfView, Lock, NEW v, InRound(v), NEW n \in Node
  PROVE  /\ v \in Nat \ {0} /\ LeaderOf(v) \in Node
         /\ view[n] = v /\ leader[n] = LeaderOf(v)
         /\ head[n] \in (v - 1)..v /\ head[LeaderOf(v)] = v
<1>1. \A x \in Node : view[x] = v /\ phase[x] = "armed"
  BY ZenonT(30) DEF InRound
<1>2. v \in Nat \ {0}
  BY <1>1, ZenonT(30) DEF TypeOK
<1>3. LeaderOf(v) \in Node
  BY <1>2, LeaderType, ZenonT(30)
<1>4. leader[n] = LeaderOf(v)
  BY <1>1, Zenon DEF LeaderOfView, LeaderOf
<1>5. PhaseOK(n) /\ PhaseOK(LeaderOf(v))
  BY <1>3, ZenonT(30) DEF Lock, NodeOK
<1>6. head[n] \in (v - 1)..v
  BY <1>1, <1>5, Zenon DEF PhaseOK
<1>7. head[LeaderOf(v)] = v
  BY <1>1, <1>3, <1>5, ZenonT(30) DEF PhaseOK
<1> QED
  BY <1>1, <1>2, <1>3, <1>4, <1>6, <1>7, ZenonT(30)

\* The certificate of the proposal convinces everybody: all nodes have the
\* certified block and judge it by the reputations the leader had.
LEMMA ValidCert ==
  ASSUME TypeOK, LeaderOfView, CertWeight, Lock, NEW v, InRound(v),
         NEW n \in Node
  PROVE  ~CertPanics(n, CertOf(v)) /\ IsCertValid(n, CertOf(v))
<1> DEFINE l == LeaderOf(v)
           c == CertOf(v)
<1>1. /\ v \in Nat \ {0} /\ l \in Node /\ view[n] = v /\ view[l] = v
      /\ head[n] \in (v - 1)..v
  BY RoundFacts, ZenonT(30)
<1>2. ChainOK(n) /\ RepOK(n) /\ RepOK(l) /\ CertOK(l)
  BY <1>1, Zenon DEF Lock, NodeOK
<1>3. v - 1 \in Nat /\ v - 1 \in 0..(v - 1)
  BY <1>1, SMTT(30)
<1>4. v - 1 \in DOMAIN certMap[l]
  BY <1>1, <1>2, <1>3, Zenon DEF CertOK
<1>5. c = certMap[l][v - 1] /\ c.hash = Chain(v - 1)
  BY <1>2, <1>4, ZenonT(30) DEF CertOK, GoodCert, CertOf
<1>6. CASE v = 1
  <2>1. c.hash = EmptyHash
    BY <1>3, <1>5, <1>6, ChainType, SMTT(30)
  <2> QED
    BY <2>1, ZenonT(30) DEF CertPanics, IsCertValid
<1>7. CASE v # 1
  <2>1. /\ v - 1 > 0 /\ v - 1 # 0 /\ v - 1 \in 1..v /\ v - 1 \in 1..head[n]
    BY <1>1, <1>7, SMTT(30)
  <2>2. c.hash # EmptyHash /\ ~HasExtra(c.hash)
    BY <1>3, <1>5, <2>1, ChainType, Zenon
  <2>3. c.hash \in BlocksByHash[n]
    BY <1>2, <1>5, <2>1, ZenonT(30) DEF ChainOK
  <2>4. /\ v - 1 \in DOMAIN reputationMap[n] /\ v - 1 \in DOMAIN reputationMap[l]
        /\ reputationMap[n][v - 1] = reputationMap[l][v - 1]
    BY <1>1, <1>2, <2>1, Zenon DEF RepOK
  <2>5. ExceedsBenchMark(reputationMap[l][v - 1], GetSigners(c))
    BY <1>1, <1>4, <1>5, <2>1, ZenonT(30) DEF CertWeight
  <2> QED
    BY <1>1, <2>2, <2>3, <2>4, <2>5, Zenon DEF CertPanics, IsCertValid
<1> QED
  BY <1>6, <1>7, Zenon

\* What a node keeps when only messages move.
LEMMA NodesKept ==
  ASSUME Lock,
         UNCHANGED <<view, phase, up, head, BlocksByHeight, BlocksByHash,
                     certMap, reputationMap, transcript, proposalByviewMap,
                     equivocatingProposalInject, fpropMap, tally, acks>>
  PROVE  \A x \in Node : NodeOK(x)'
<1> SUFFICES ASSUME NEW x \in Node PROVE NodeOK(x)'
  BY SMTT(30)
<1>1. NodeOK(x)
  BY Zenon DEF Lock
<1>2. ChainOK(x)' /\ HashesOK(x)' /\ TranscriptOK(x)'
  BY <1>1, ZenonT(30) DEF NodeOK, ChainOK, HashesOK, TranscriptOK
<1>3. RepOK(x)' /\ CertOK(x)'
  BY <1>1, Zenon DEF NodeOK, RepOK, CertOK
<1>4. TallyOK(x)' /\ ForwardsOK(x)'
  BY <1>1, Zenon DEF NodeOK, TallyOK, ForwardsOK
<1>5. PhaseOK(x)'
  BY <1>1, Zenon DEF NodeOK, PhaseOK
<1> QED
  BY <1>2, <1>3, <1>4, <1>5, Zenon DEF NodeOK

\* A step within a round leaves it a round.
LEMMA RoundKept ==
  ASSUME NEW v, InRound(v), UNCHANGED <<view, phase>>
  PROVE  InRound(v)'
BY ZenonT(30) DEF InRound

\* What concerns votes is kept by steps that leave votes alone.
LEMMA VotesKept ==
  ASSUME VotesOK, UNCHANGED <<view, phase, voteTasks, voteNet, certTasks>>
  PROVE  VotesOK'
BY ZenonT(30) DEF VotesOK, InRound

\* The messages of a view depend on the certificates only.
LEMMA MessagesKept ==
  ASSUME UNCHANGED certMap
  PROVE  /\ \A w : Orig(w)' = Orig(w)
         /\ \A w, s : Fwd(w, s)' = Fwd(w, s)
BY SMTT(30) DEF Orig, Fwd, CertOf

\* A dispatched message is a forward that goes into the queue, or the
\* proposal, which the node forwards.
\* What forward() changes in a proposal.
LEMMA Signing ==
  ASSUME NEW p \in Proposal, NEW n \in Node, NEW q,
         q = [p EXCEPT !.forwardSender = n, !.forwardSig = TRUE]
  PROVE  q = [miner |-> p.miner, forwardSender |-> n, forwardSig |-> TRUE,
              block |-> p.block, cert |-> p.cert]
BY Zenon DEF Proposal

\* A proposal in flight is the leader's own, or a forward of it.
LEMMA DispatchFacts ==
  ASSUME TypeOK, LeaderOfView, CertWeight, Lock, NEW n \in Node,
         NEW m \in propNet, Dispatch(n, m), NEW v, v = view[n]
  PROVE  /\ InRound(v) /\ UNCHANGED up
         /\ \/ \E s \in Others(v) :
                 /\ m = [to |-> n, prop |-> Fwd(v, s)] /\ s # n
                 /\ ~Counted(n, v, s) /\ ~Queued(n, v, s)
                 /\ proposeChannel' =
                      [proposeChannel EXCEPT ![n] = Append(@, Fwd(v, s))]
                 /\ propNet' = propNet \ {m}
            \/ /\ m = [to |-> n, prop |-> Orig(v)] /\ n \in Others(v)
               /\ \A x \in Node : /\ ~Counted(x, v, n) /\ ~Queued(x, v, n)
                                  /\ ~InFlight(x, v, n)
               /\ proposeChannel' =
                    [proposeChannel EXCEPT ![n] = Append(@, Fwd(v, n))]
               /\ propNet' = (propNet \ {m}) \cup Broadcast(n, Fwd(v, n))
<1>1. m.to = n /\ m = [to |-> n, prop |-> m.prop]
  BY ZenonT(30) DEF Dispatch, TypeOK
<1>2. PropOK(v, m)
  BY <1>1, Zenon DEF Lock, PropsOK
<1>3. InRound(v)
  BY <1>2, ZenonT(30) DEF PropOK
<1>4. /\ v \in Nat \ {0} /\ LeaderOf(v) \in Node /\ leader[n] = LeaderOf(v)
  BY <1>3, RoundFacts, Zenon
<1>5. ~CertPanics(n, CertOf(v)) /\ IsCertValid(n, CertOf(v))
  BY <1>3, ValidCert, ZenonT(30)
<1>6. ASSUME m.prop = Orig(v), m.to # LeaderOf(v),
             \A x \in Node : /\ ~Counted(x, v, m.to) /\ ~Queued(x, v, m.to)
                             /\ ~InFlight(x, v, m.to)
      PROVE  /\ UNCHANGED up
             /\ m = [to |-> n, prop |-> Orig(v)] /\ n \in Others(v)
             /\ \A x \in Node : /\ ~Counted(x, v, n) /\ ~Queued(x, v, n)
                                /\ ~InFlight(x, v, n)
             /\ proposeChannel' =
                  [proposeChannel EXCEPT ![n] = Append(@, Fwd(v, n))]
             /\ propNet' = (propNet \ {m}) \cup Broadcast(n, Fwd(v, n))
  <2>1. /\ m.prop.forwardSender = leader[n] /\ m.prop.miner = leader[n]
        /\ m.prop.cert = CertOf(v)
    BY <1>4, <1>6, SMTT(30) DEF Orig
  <2>2. Forward(n, m)
    BY <1>5, <2>1, Zenon DEF Dispatch, Enqueue, ForwardFails, SignedByLeader
  <2>3. [m.prop EXCEPT !.forwardSender = n, !.forwardSig = TRUE] = Fwd(v, n)
    <3>1. m.prop \in Proposal
      BY ZenonT(30) DEF TypeOK
    <3>2. /\ m.prop.miner = LeaderOf(v) /\ m.prop.block = BlockOf(v)
          /\ m.prop.cert = CertOf(v)
      BY <1>6, SMTT(30) DEF Orig
    <3>3. [m.prop EXCEPT !.forwardSender = n, !.forwardSig = TRUE]
            = [miner |-> m.prop.miner, forwardSender |-> n, forwardSig |-> TRUE,
               block |-> m.prop.block, cert |-> m.prop.cert]
      BY <3>1, Signing, Zenon
    <3> QED
      BY <3>2, <3>3, ZenonT(30) DEF Fwd
  <2> QED
    BY <1>1, <1>6, <2>2, <2>3, ZenonT(30) DEF Forward, Others
<1>7. ASSUME NEW s \in Others(v), m.prop = Fwd(v, s), m.to # s,
             ~Counted(m.to, v, s), ~Queued(m.to, v, s)
      PROVE  /\ UNCHANGED up
             /\ m = [to |-> n, prop |-> Fwd(v, s)] /\ s # n
             /\ ~Counted(n, v, s) /\ ~Queued(n, v, s)
             /\ proposeChannel' =
                  [proposeChannel EXCEPT ![n] = Append(@, Fwd(v, s))]
             /\ propNet' = propNet \ {m}
  <2>1. m.prop.forwardSender = s /\ s # leader[n]
    BY <1>4, <1>7, SMTT(30) DEF Fwd, Others
  <2>2. Enqueue(n, m)
    BY <2>1, Zenon DEF Dispatch, Forward, ForwardFails
  <2> QED
    BY <1>1, <1>7, <2>2, ZenonT(30) DEF Enqueue
<1> QED
  BY <1>2, <1>3, <1>6, <1>7, ZenonT(30) DEF PropOK

\* A proposal that arrives is forwarded to everybody, a forward is queued.
LEMMA LockDispatch ==
  ASSUME TypeOK, LeaderOfView, CertWeight, Lock, NEW n \in Node,
         NEW m \in propNet, Dispatch(n, m), UNCHANGED <<early, lost>>
  PROVE  Lock'
<1>1. PICK v : v = view[n]
  BY ZenonT(30)
<1>2. InRound(v) /\ UNCHANGED up
  BY <1>1, DispatchFacts, ZenonT(30)
<1>3. UNCHANGED <<view, phase, head, BlocksByHeight, BlocksByHash, certMap,
                  reputationMap, transcript, proposalByviewMap,
                  equivocatingProposalInject, fpropMap, tally, voteTasks,
                  certTasks, voteNet, acks, evidence>>
  BY ZenonT(30) DEF Dispatch, roundVars, chainVars, repVars, forwVars, voteVars
<1>4. /\ v \in Nat \ {0} /\ LeaderOf(v) \in Node
      /\ \A x \in Node : view[x] = v
      /\ proposeChannel \in [Node -> Seq(Proposal)]
      /\ propNet \subseteq [to : Node, prop : Proposal]
  BY <1>2, RoundFacts, ZenonT(30) DEF InRound, TypeOK
<1>5. InRound(v)'
  BY <1>2, <1>3, RoundKept, ZenonT(30)
<1>6. /\ \A w : Orig(w)' = Orig(w)
      /\ \A w, s : Fwd(w, s)' = Fwd(w, s)
  BY <1>3, MessagesKept, Zenon
<1>7. \A x \in Node : \A w, s : Counted(x, w, s)' <=> Counted(x, w, s)
  BY <1>3, ZenonT(30) DEF Counted
<1>8. \A x \in propNet : PropOK(v, x) /\ x.to \in Node
                         /\ x = [to |-> x.to, prop |-> x.prop]
  BY <1>4, SMTT(30) DEF Lock, PropsOK
<1>9. \A x \in Node : ChannelOK(x, v)
  BY <1>4, ZenonT(30) DEF Lock, ChannelsOK
<1>10. ASSUME NEW s \in Others(v), NEW new,
             proposeChannel' = [proposeChannel EXCEPT ![n] = Append(@, Fwd(v, s))],
             ~Counted(n, v, s), ~Queued(n, v, s), Fwd(v, s) \in Proposal,
             propNet' = (propNet \ {m}) \cup new
      PROVE  /\ \A x \in Node : \A w, t :
                  Queued(x, w, t)' <=> Queued(x, w, t)
                                         \/ (x = n /\ Fwd(w, t) = Fwd(v, s))
             /\ ChannelsOK'
  <2>1. /\ proposeChannel'[n] = Append(proposeChannel[n], Fwd(v, s))
        /\ \A x \in Node \ {n} : proposeChannel'[x] = proposeChannel[x]
    BY <1>4, <1>10, ZenonT(30)
  <2>2. /\ Range(proposeChannel'[n]) = Range(proposeChannel[n]) \cup {Fwd(v, s)}
        /\ IsInjective(proposeChannel'[n])
    <3>1. IsInjective(proposeChannel[n]) /\ Fwd(v, s) \notin Range(proposeChannel[n])
      BY <1>9, <1>10, ZenonT(30) DEF ChannelOK, Queued
    <3>2. proposeChannel[n] \in Seq(Proposal)
      BY <1>4, Zenon
    <3> QED
      BY <1>10, <2>1, <3>1, <3>2, Appending, SMTT(30)
  <2>3. \A x \in Node : \A w, t :
          Queued(x, w, t)' <=> Queued(x, w, t)
                                 \/ (x = n /\ Fwd(w, t) = Fwd(v, s))
    BY <1>6, <2>1, <2>2, ZenonT(30) DEF Queued
  <2>4. ASSUME NEW x \in Node PROVE ChannelOK(x, v)'
    <3>1. IsInjective(proposeChannel'[x])
      BY <1>9, <2>1, <2>2, ZenonT(30) DEF ChannelOK
    <3>2. ASSUME NEW p \in Range(proposeChannel'[x])
          PROVE  \E t \in Others(v) : p = Fwd(v, t) /\ ~Counted(x, v, t)
      <4>1. CASE p \in Range(proposeChannel[x])
        BY <1>9, <4>1, SMTT(30) DEF ChannelOK
      <4>2. CASE x = n /\ p = Fwd(v, s)
        BY <1>10, <4>2, Zenon
      <4> QED
        BY <2>1, <2>2, <3>2, <4>1, <4>2, ZenonT(30)
    <3> QED
      BY <1>5, <1>6, <1>7, <3>1, <3>2, Zenon DEF ChannelOK
  <2> QED
    BY <1>3, <1>4, <2>3, <2>4, Zenon DEF ChannelsOK
<1>11. \A x \in Node : NodeOK(x)'
  BY <1>2, <1>3, NodesKept, ZenonT(30)
<1>12. VotesOK'
  BY <1>3, VotesKept, Zenon DEF Lock
<1>13. Accepted'
  BY <1>3, ZenonT(30) DEF Lock, Accepted, Full, Counted
<1>14. Voted'
  BY <1>3, Zenon DEF Lock, Voted, Full, Counted, Cast
<1>15. ASSUME NEW s \in Others(v), m = [to |-> n, prop |-> Fwd(v, s)], s # n,
              ~Counted(n, v, s), ~Queued(n, v, s),
              proposeChannel' = [proposeChannel EXCEPT ![n] = Append(@, Fwd(v, s))],
              propNet' = propNet \ {m}
       PROVE  PropsOK' /\ ChannelsOK' /\ Forwarded'
  <2>1. Fwd(v, s) \in Proposal
    BY <1>4, <1>15, Zenon
  <2>2. propNet' = (propNet \ {m}) \cup {}
    BY <1>15, ZenonT(30)
  <2>3. /\ \A x \in Node : \A w, t :
             Queued(x, w, t)' <=> Queued(x, w, t)
                                    \/ (x = n /\ Fwd(w, t) = Fwd(v, s))
        /\ ChannelsOK'
    BY <1>10, <1>15, <2>1, <2>2, Zenon
  <2>4. \A x, w, t : InFlight(x, w, t)' => InFlight(x, w, t)
    BY <1>6, <1>15, ZenonT(30) DEF InFlight
  <2>5. InFlight(n, v, s)
    BY <1>15, Zenon DEF InFlight
  <2>6. ASSUME NEW k \in propNet' PROVE PropOK(v, k)' /\ view'[k.to] = v
    <3>1. k \in propNet /\ k # m
      BY <1>15, Zenon
    <3>2. k.to \in Node /\ k = [to |-> k.to, prop |-> k.prop] /\ PropOK(v, k)
      BY <1>8, <3>1, ZenonT(30)
    <3>3. \A t : Fwd(v, t) = Fwd(v, s) => t = s
      BY <1>4, MessageFacts, ZenonT(30)
    <3>4. CASE /\ k.prop = Orig(v) /\ k.to # LeaderOf(v)
               /\ \A x \in Node : /\ ~Counted(x, v, k.to) /\ ~Queued(x, v, k.to)
                                  /\ ~InFlight(x, v, k.to)
      <4>1. k.to # s
        BY <2>5, <3>4, ZenonT(30)
      <4>2. \A x \in Node : /\ ~Counted(x, v, k.to)' /\ ~Queued(x, v, k.to)'
                            /\ ~InFlight(x, v, k.to)'
        BY <1>7, <2>3, <2>4, <3>3, <3>4, <4>1, Zenon
      <4> QED
        BY <1>3, <1>4, <1>5, <1>6, <3>2, <3>4, <4>2, Zenon DEF PropOK
    <3>5. ASSUME NEW t \in Others(v), k.prop = Fwd(v, t), k.to # t,
                 ~Counted(k.to, v, t), ~Queued(k.to, v, t)
          PROVE  PropOK(v, k)' /\ view'[k.to] = v
      <4>1. ~(k.to = n /\ t = s)
        BY <1>15, <3>1, <3>2, <3>5, ZenonT(30)
      <4>2. ~Counted(k.to, v, t)' /\ ~Queued(k.to, v, t)'
        BY <1>7, <2>3, <3>2, <3>3, <3>5, <4>1, SMTT(30)
      <4> QED
        BY <1>3, <1>4, <1>5, <1>6, <3>2, <3>5, <4>2, ZenonT(30) DEF PropOK
    <3> QED
      BY <3>2, <3>4, <3>5, ZenonT(30) DEF PropOK
  <2>7. PropsOK'
    BY <2>6, ZenonT(30) DEF PropsOK
  <2>8. Forwarded'
    <3> SUFFICES ASSUME NEW w \in Nat \ {0}, NEW t \in Others(w),
                        w <= head[LeaderOf(w)]
                 PROVE  \/ Asked(t, w)'
                        \/ \A x \in Node : \/ Counted(x, w, t)' \/ Queued(x, w, t)'
                                           \/ InFlight(x, w, t)'
      BY <1>3, ZenonT(30) DEF Forwarded
    <3>1. \/ Asked(t, w)
          \/ \A x \in Node : Counted(x, w, t) \/ Queued(x, w, t) \/ InFlight(x, w, t)
      BY Zenon DEF Lock, Forwarded
    <3>2. Asked(t, w) => Asked(t, w)'
      <4>1. Orig(w) # Fwd(v, s)
        BY <1>4, MessageFacts, ZenonT(30)
      <4> QED
        BY <1>6, <1>15, <4>1, ZenonT(30) DEF Asked
    <3>3. ASSUME NEW x \in Node, InFlight(x, w, t)
          PROVE  Queued(x, w, t)' \/ InFlight(x, w, t)'
      <4>1. CASE [to |-> x, prop |-> Fwd(w, t)] = m
        <5>1. x = n /\ Fwd(w, t) = Fwd(v, s)
          BY <1>15, <4>1, SMTT(30)
        <5> QED
          BY <2>3, <5>1, ZenonT(30)
      <4>2. CASE [to |-> x, prop |-> Fwd(w, t)] # m
        BY <1>6, <1>15, <3>3, <4>2, ZenonT(30) DEF InFlight
      <4> QED
        BY <4>1, <4>2, ZenonT(30)
    <3> QED
      BY <1>7, <2>3, <3>1, <3>2, <3>3, Zenon
  <2> QED
    BY <2>3, <2>7, <2>8, ZenonT(30)
<1>16. ASSUME m = [to |-> n, prop |-> Orig(v)], n \in Others(v),
              \A x \in Node : /\ ~Counted(x, v, n) /\ ~Queued(x, v, n)
                              /\ ~InFlight(x, v, n),
              proposeChannel' = [proposeChannel EXCEPT ![n] = Append(@, Fwd(v, n))],
              propNet' = (propNet \ {m}) \cup Broadcast(n, Fwd(v, n))
       PROVE  PropsOK' /\ ChannelsOK' /\ Forwarded'
  <2>1. Fwd(v, n) \in Proposal
    <3>1. Orig(v) \in Proposal
      BY <1>4, <1>16, ZenonT(30)
    <3> QED
      BY <3>1, Zenon DEF Orig, Fwd, Proposal
  <2>2. /\ \A x \in Node : \A w, t :
             Queued(x, w, t)' <=> Queued(x, w, t)
                                    \/ (x = n /\ Fwd(w, t) = Fwd(v, n))
        /\ ChannelsOK'
    BY <1>10, <1>16, <2>1, Zenon
  <2>3. \A t : Fwd(v, t) = Fwd(v, n) => t = n
    BY <1>4, MessageFacts, ZenonT(30)
  <2>4. \A x, w, t : InFlight(x, w, t)' =>
                       InFlight(x, w, t) \/ Fwd(w, t) = Fwd(v, n)
    BY <1>6, <1>16, Zenon DEF InFlight, Broadcast
  <2>5. ASSUME NEW k \in propNet' PROVE PropOK(v, k)' /\ view'[k.to] = v
    <3>1. CASE k \in propNet /\ k # m
      <4>1. k.to \in Node /\ k = [to |-> k.to, prop |-> k.prop] /\ PropOK(v, k)
        BY <1>8, <3>1, ZenonT(30)
      <4>2. CASE /\ k.prop = Orig(v) /\ k.to # LeaderOf(v)
                 /\ \A x \in Node : /\ ~Counted(x, v, k.to) /\ ~Queued(x, v, k.to)
                                    /\ ~InFlight(x, v, k.to)
        <5>1. k.to # n
          BY <1>16, <3>1, <4>1, <4>2, ZenonT(30)
        <5>2. \A x \in Node : /\ ~Counted(x, v, k.to)' /\ ~Queued(x, v, k.to)'
                              /\ ~InFlight(x, v, k.to)'
          BY <1>7, <2>2, <2>3, <2>4, <4>2, <5>1, SMTT(30)
        <5> QED
          BY <1>3, <1>4, <1>5, <1>6, <4>1, <4>2, <5>2, SMTT(30) DEF PropOK
      <4>3. ASSUME NEW t \in Others(v), k.prop = Fwd(v, t), k.to # t,
                   ~Counted(k.to, v, t), ~Queued(k.to, v, t)
            PROVE  PropOK(v, k)' /\ view'[k.to] = v
        <5>1. InFlight(k.to, v, t)
          BY <3>1, <4>1, <4>3, ZenonT(30) DEF InFlight
        <5>2. t # n
          BY <1>16, <4>1, <5>1, ZenonT(30)
        <5>3. ~Counted(k.to, v, t)' /\ ~Queued(k.to, v, t)'
          BY <1>7, <2>2, <2>3, <4>1, <4>3, <5>2, ZenonT(30)
        <5> QED
          BY <1>3, <1>4, <1>5, <1>6, <4>1, <4>3, <5>3, ZenonT(30) DEF PropOK
      <4> QED
        BY <4>1, <4>2, <4>3, Zenon DEF PropOK
    <3>2. ASSUME NEW x \in Node \ {n}, k = [to |-> x, prop |-> Fwd(v, n)]
          PROVE  PropOK(v, k)' /\ view'[k.to] = v
      <4>1. k.to = x /\ k.prop = Fwd(v, n)
        BY <3>2, ZenonT(30)
      <4>2. ~Counted(x, v, n)' /\ ~Queued(x, v, n)'
        BY <1>7, <1>16, <2>2, Zenon
      <4> QED
        BY <1>3, <1>4, <1>5, <1>6, <1>16, <4>1, <4>2, ZenonT(30) DEF PropOK
    <3> QED
      BY <1>16, <3>1, <3>2, ZenonT(30) DEF Broadcast
  <2>6. PropsOK'
    BY <2>5, ZenonT(30) DEF PropsOK
  <2>7. Forwarded'
    <3> SUFFICES ASSUME NEW w \in Nat \ {0}, NEW t \in Others(w),
                        w <= head[LeaderOf(w)]
                 PROVE  \/ Asked(t, w)'
                        \/ \A x \in Node : \/ Counted(x, w, t)' \/ Queued(x, w, t)'
                                           \/ InFlight(x, w, t)'
      BY <1>3, ZenonT(30) DEF Forwarded
    <3>1. \/ Asked(t, w)
          \/ \A x \in Node : Counted(x, w, t) \/ Queued(x, w, t) \/ InFlight(x, w, t)
      BY Zenon DEF Lock, Forwarded
    <3>2. CASE \A x \in Node : Counted(x, w, t) \/ Queued(x, w, t) \/ InFlight(x, w, t)
      <4>1. Orig(v) # Fwd(w, t)
        BY <1>4, MessageFacts, ZenonT(30)
      <4>2. \A x \in Node : InFlight(x, w, t) => InFlight(x, w, t)'
        BY <1>6, <1>16, <4>1, SMTT(30) DEF InFlight
      <4> QED
        BY <1>7, <2>2, <3>2, <4>2, ZenonT(30)
    <3>3. CASE Asked(t, w) /\ [to |-> t, prop |-> Orig(w)] # m
      BY <1>6, <1>16, <3>3, ZenonT(30) DEF Asked
    <3>4. CASE [to |-> t, prop |-> Orig(w)] = m
      <4>1. t = n /\ w = v
        <5>1. t = n /\ Orig(w) = Orig(v)
          BY <1>16, <3>4, SMTT(30)
        <5> QED
          BY <1>4, <5>1, MessageFacts, ZenonT(30)
      <4>2. Queued(n, v, n)'
        BY <2>2, Zenon
      <4>3. \A x \in Node \ {n} : InFlight(x, v, n)'
        BY <1>6, <1>16, ZenonT(30) DEF InFlight, Broadcast
      <4> QED
        BY <4>1, <4>2, <4>3, ZenonT(30)
    <3> QED
      BY <3>1, <3>2, <3>3, <3>4, Zenon
  <2> QED
    BY <2>2, <2>6, <2>7, ZenonT(30)
<1>17. PropsOK' /\ ChannelsOK' /\ Forwarded'
  BY <1>1, <1>15, <1>16, DispatchFacts, Zenon
<1>18. lost' = {} /\ early' = 0 /\ evidence' = {}
  BY <1>3 DEF Lock
<1> QED
  BY <1>11, <1>12, <1>13, <1>14, <1>17, <1>18, ZenonT(30) DEF Lock
===============================================================================
