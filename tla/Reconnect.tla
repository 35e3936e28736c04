------------------------------- MODULE Reconnect -------------------------------
(***************************************************************************)
(* Synchrony with clients that connect while the replicas are running.     *)
(* ClientMsgHandler treats every connection as the first one.              *)
(***************************************************************************)
EXTENDS Synchrony

CONSTANT MaxConnects   \* bound: connections after the first one

VARIABLE connects      \* connections so far

reconVars == <<syncVars, connects>>

\* ClientMsgHandler up to its read loop: addClient, initialReputationMap
\* and setConsensusTimer.  The reputations of the node's current view are
\* overwritten; the timer gets the same callback and duration again.
initialReputationMap(n) ==
  Put(reputationMap[n], view[n], [id \in Node |-> initialNodescore])

ClientConnects(n) ==
  /\ up[n]
  /\ connects < MaxConnects
  /\ connects' = connects + 1
  /\ reputationMap' = [reputationMap EXCEPT ![n] = initialReputationMap(n)]
  /\ UNCHANGED <<roundVars, up, chainVars, certMap, transcript, forwVars,
                 voteVars, proposeChannel, voteTasks, certTasks, propNet,
                 voteNet, acks, evidence, early, lost>>

ReconInit == SyncInit /\ connects = 0

ReconNext ==
  \/ SyncNext /\ UNCHANGED connects
  \/ \E n \in Node : ClientConnects(n)

ReconSpec == ReconInit /\ [][ReconNext]_reconVars

-------------------------------------------------------------------------------
\* Until a client connects to a running node, any two nodes judge the votes
\* of a view by the same reputations (client.go, initialReputationMap).
ConsistentUntilReconnect == connects = 0 => ReputationConsistency
===============================================================================
