------------------------------ MODULE Synchrony -------------------------------
(***************************************************************************)
(* SyncHS on the network its timer is made for.  The callback comes 4.5 s  *)
(* after the start of the round, many times the delay of a message, so it  *)
(* normally finds the round settled: all nodes have started it and all     *)
(* its messages and goroutines are done.  Departures from this are counted *)
(* and bounded: a timer that fires too early, a message that is lost.      *)
(***************************************************************************)
EXTENDS SyncHS

CONSTANTS
  Skew,      \* TRUE: a leader may propose before all others are in its view
  Hasty,     \* bound: the nodes whose timers may fire too early
  MaxEarly,  \* bound: timers that fire before their round is settled
  MaxLost,   \* bound: messages that are lost
  Deaf       \* bound: the nodes that may miss a message

VARIABLES early, lost   \* early timers so far; the messages lost

syncVars == <<vars, early, lost>>

SyncInit == Init /\ early = 0 /\ lost = {}

\* All nodes after an undisturbed view 1 in which the votes of the first
\* nodes made the certificates.
AfterFirstView ==
  LET b == [parent |-> EmptyHash, height |-> 1, extra |-> "nil", txs |-> <<0, 1>>]
      h == GetBlockHash(b)
      votes == {[voter |-> n, hash |-> h, view |-> 1, owner |-> 0] :
                  n \in 0..(N \div 2)}
      t == [EmptyTranscript EXCEPT !.vote = {1} \X Node, !.prop = {<<1, 0>>}]
      Everywhere(x) == [n \in Node |-> x]
      rep == [n \in Node |-> ReputationCalculateinCurrentRound(t, n)]
  IN /\ view = Everywhere(2)
     /\ leader = Everywhere(1)
     /\ phase = Everywhere("ready")
     /\ up = Everywhere(TRUE)
     /\ head = Everywhere(1)
     /\ BlocksByHeight = Everywhere(<<b>>)
     /\ BlocksByHash = Everywhere({h})
     /\ certMap = Everywhere(
          Put([i \in {0} |-> GenesisCert], 1, [hash |-> h, view |-> 1, votes |-> votes]))
     /\ reputationMap = Everywhere(<<Everywhere(initialNodescore), rep>>)
     /\ transcript = Everywhere(t)
     /\ proposalByviewMap = Everywhere(<<h>>)
     /\ equivocatingProposalInject = Everywhere(FALSE)
     /\ fpropMap = Everywhere({1} \X (Node \ {0}))
     /\ tally = Everywhere({1} \X votes)
     /\ isCertified = Everywhere({1})
     /\ proposeChannel = Everywhere(<<>>)
     /\ voteTasks = Everywhere({})
     /\ certTasks = Everywhere({})
     /\ propNet = {}
     /\ voteNet = {}
     /\ acks = Everywhere(<<[view |-> 1, block |-> b]>>)
     /\ evidence = {}

\* The messages of a view 2 that follows: node 1's proposal, its forwards and
\* the votes, but for the ones that do not use the network.
SecondView ==
  LET p == NewCandidateProposal(1, certMap[1][1], 2, "nil")
      Forwarded(s) == [p EXCEPT !.forwardSender = s, !.forwardSig = TRUE]
  IN Broadcast(1, p)
       \cup UNION {Broadcast(s, Forwarded(s)) : s \in Node \ {1}}
       \cup {m \in [to : Node, vote : {NewVote(s, p) : s \in Node}] :
               m.to # m.vote.voter}

\* A start in view 2, one of whose messages will be lost.
LossyInit ==
  /\ AfterFirstView
  /\ early = 0
  /\ \E m \in SecondView : m.to \in Deaf /\ lost = {m}

\* The view in which a proposal was made.
Round(p) == p.block.txs[2]

\* Nothing of view v or before is under way at any node.
Settled(v) ==
  /\ \A n \in Node : up[n] => /\ view[n] >= v
                              /\ view[n] = v =>
                                   phase[n] \notin {"rotate", "ready"}
  /\ \A m \in propNet \ lost : Round(m.prop) > v
  /\ \A m \in voteNet \ lost : m.vote.view > v
  /\ \A n \in Node :
       /\ \A p \in voteTasks[n] : Round(p) > v
       /\ \A t \in certTasks[n] : t.index > v
       /\ Cardinality(Forwards(n)) < N - 1 =>
            \A i \in DOMAIN proposeChannel[n] : Round(proposeChannel[n][i]) > v

\* Without skew, the leader of a view proposes when all others have started it.
MayStart(n) ==
  ~Skew /\ n = leader[n] =>
    \A m \in Node \ {n} :
      up[m] /\ view[m] <= view[n] => view[m] = view[n] /\ phase[m] = "armed"

SyncStart(n) ==
  /\ MayStart(n)
  /\ Start(n)
  /\ UNCHANGED <<early, lost>>

Timely(n) ==
  /\ HandleMessage(n, propNet \ lost, voteNet \ lost) \/ Callback(n) \/ PeerLost(n)
  /\ UNCHANGED <<early, lost>>

SyncTimer(n) ==
  /\ Settled(view[n])
  /\ TimerFires(n)
  /\ UNCHANGED <<early, lost>>

EarlyTimer(n) ==
  /\ n \in Hasty
  /\ early < MaxEarly
  /\ ~Settled(view[n])
  /\ TimerFires(n)
  /\ early' = early + 1
  /\ UNCHANGED lost

\* A write to a peer fails; a node's own vote does not use the network.
Lose ==
  /\ Cardinality(lost) < MaxLost
  /\ \E m \in (propNet \cup {x \in voteNet : x.to # x.vote.voter}) \ lost :
       m.to \in Deaf /\ lost' = lost \cup {m}
  /\ UNCHANGED <<vars, early>>

\* The views within the bound are done, or every process is gone.
Finished ==
  /\ \A n \in Node : up[n] => phase[n] = "ready" /\ view[n] > MaxView
  /\ UNCHANGED syncVars

SyncNext ==
  \/ \E n \in Node : SyncStart(n) \/ Timely(n) \/ SyncTimer(n) \/ EarlyTimer(n)
  \/ Lose
  \/ Finished

SyncSpec == SyncInit /\ [][SyncNext]_syncVars

LossySpec == LossyInit /\ [][SyncNext]_syncVars

\* Every node keeps running its goroutines and its round starts, and an armed
\* timer fires once the round is settled.
FairSpec ==
  /\ SyncSpec
  /\ \A n \in Node : /\ WF_syncVars(SyncStart(n))
                     /\ WF_syncVars(Timely(n))
                     /\ WF_syncVars(SyncTimer(n))

-------------------------------------------------------------------------------
\* Properties.

\* The hash of the chain of honest leaders that has no gap up to height h, and
\* the blocks of such chains.
Chain(h) == [i \in 1..h |-> <<i, "nil">>]

ChainBlock ==
  {[parent |-> Chain(h - 1), height |-> h, extra |-> "nil", txs |-> <<n, v>>] :
     h \in 1..(MaxView + 1), n \in Node, v \in 1..MaxView}

Follows(b, s) ==
  b.parent = IF s = <<>> THEN EmptyHash ELSE GetBlockHash(s[Len(s)])

L == INSTANCE Ledger WITH
       Entry <- ChainBlock,
       log <- [n \in Node |-> [i \in 1..Len(acks[n]) |-> acks[n][i].block]]

\* The acknowledgements of the callbacks implement the ledger: every node
\* acknowledges a hash chain from the genesis block, one block at a time,
\* and no two nodes acknowledge different blocks at one position (client.go,
\* callback; README, "jointly maintain a consistent ledger").
ImplementsLedger == L!LSpec

\* Two nodes that have both entered a view judge its votes by the same
\* reputations, whichever votes made their certificates and in whichever
\* order everything arrived (README, "reputation-consistency").
ReputationConsistency ==
  \A n, m \in Node : \A v \in 1..view[n] :
    v <= view[m] => reputationMap[n][v] = reputationMap[m][v]

\* The block a callback acknowledges for a view is the one this node's
\* certificate of that view names (client.go, "Tell all the clients, that I
\* have committed this block").
CertifiedAck ==
  \A n \in Node : \A i \in DOMAIN acks[n] :
    LET a == acks[n][i]
    IN /\ a.view \in DOMAIN certMap[n]
       /\ certMap[n][a.view].hash = GetBlockHash(a.block)

\* All signatures of a certificate are on the certificate's block and view
\* (msg/types.go, "multiple signatures on a fixed data").
OneBlockCerts ==
  \A n \in Node : \A i \in DOMAIN certMap[n] :
    \A v \in certMap[n][i].votes :
      v.hash = certMap[n][i].hash /\ v.view = certMap[n][i].view

\* No node accuses another one: all of them follow the protocol (evidence.go,
\* sendEqProEvidence and sendMalivoteEvidence).
NoFalseEvidence == evidence = {}

\* No replica ends in a nil dereference, and none is taken down by the end
\* of a peer (ProtoMsgHandler, IsCertValid, callback).
NoPanic == \A n \in Node : up[n]

\* The nodes that have missed nothing keep one ledger: whatever another node
\* makes of a lost message, in that view or as the leader of a later one, the
\* blocks they acknowledge form one chain without gap or repetition, the same
\* for all of them (sendall.go, "If we fail to send a message to someone,
\* continue").
HearingLedger ==
  LET Hearing == Node \ {m.to : m \in lost}
  IN \A n \in Hearing : \A i \in DOMAIN acks[n] :
       /\ acks[n][i].block.parent = Chain(i - 1)
       /\ acks[n][i].block.height = i
       /\ \A m \in Hearing : i \in DOMAIN acks[m] =>
            acks[n][i].block = acks[m][i].block

\* No two blocks of one height are acknowledged, by one node or by two
\* (README, "jointly maintain a consistent ledger").
NoFork ==
  \A n, m \in Node : \A i \in DOMAIN acks[n], j \in DOMAIN acks[m] :
    acks[n][i].block.height = acks[m][j].block.height
      => acks[n][i].block = acks[m][j].block

\* Every node commits every view within the bound.
Progress == \A n \in Node : <>(view[n] > MaxView)
===============================================================================
