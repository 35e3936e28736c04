------------------------------ MODULE BatchProofs ------------------------------
(***************************************************************************)
(* The client's batches, for any number of replicas and any size of        *)
(* blocks: the client sends one batch for each block it commits, and at    *)
(* the right pace finds its commands in the ledger in the order in which   *)
(* it sent them.                                                           *)
(***************************************************************************)
EXTENDS CommandProofs, FiniteSetTheorems

\* Committing a block adds it to the client's blocks if it was not one.
LEMMA CommitCounts ==
  ASSUME LoopInv, NEW h
  PROVE  /\ Cardinality(commitMap) \in Nat
         /\ h \notin commitMap => Cardinality(commitMap \cup {h}) = Cardinality(commitMap) + 1
<1>1. IsFiniteSet(1..Len(chain))
  BY FS_Interval DEF LoopInv, DataTypes
<1>2. IsFiniteSet(commitMap)
  BY <1>1, FS_Subset, Zenon DEF LoopInv, Blocks
<1> QED
  BY <1>2, FS_AddElement, FS_CardinalityType, Zenon

\* For any number of replicas, block size and pace: the client has sent its
\* first batch and as many commands as the blocks it has committed hold, or is
\* about to (client.go, handleVotes).
THEOREM ClientSendsOneBatchPerBlock == ClientSpec => []OneBatchPerBlock
<1> USE DEF OneBatchPerBlock
<1>1. ClientInit => OneBatchPerBlock
  BY FS_EmptySet, BlockSizeAssumption DEF ClientInit
<1>2. ASSUME LoopInv, OneBatchPerBlock, [ClientNext]_loopVars PROVE OneBatchPerBlock'
  <2>1. idx \in Nat /\ toSend \in Nat /\ BlockSize \in Nat \ {0}
    BY <1>2, BlockSizeAssumption DEF LoopInv, DataTypes
  <2>2. ASSUME UNCHANGED <<idx, toSend, commitMap>> PROVE OneBatchPerBlock'
    BY <1>2, <2>2, Zenon
  <2>3. CASE sendFirst
    BY <1>2, <2>1, <2>3 DEF sendFirst
  <2>4. CASE sendNew
    BY <1>2, <2>1, <2>4 DEF sendNew
  <2>5. ASSUME NEW n \in Replica, handleVotes(n) PROVE OneBatchPerBlock'
    <3> DEFINE h == Head(ackStream[n])
    <3>1. /\ toSend = 0 /\ idx' = idx
          /\ \/ commitMap' = commitMap \cup {h} /\ h \notin commitMap /\ toSend' = Shipped(chain[h])
             \/ commitMap' = commitMap \cup {h} /\ h \in commitMap /\ toSend' = 0
             \/ commitMap' = commitMap /\ toSend' = 0
      BY <2>5 DEF handleVotes
    <3>2. h \in 1..Len(chain)
      <4>1. ackStream[n] \in Seq(Nat) /\ ackStream[n] # <<>>
        BY <1>2, <2>5, Zenon DEF handleVotes, LoopInv, DataTypes
      <4> QED
        BY <1>2, <4>1 DEF LoopInv, Blocks
    <3>3. Shipped(chain[h]) = BlockSize
      <4>1. Len(chain[h]) = BlockSize
        BY <1>2, <3>2, Zenon DEF LoopInv, Blocks
      <4> QED
        BY <2>1, <4>1 DEF Shipped
    <3> HIDE DEF h
    <3>4. CASE commitMap' = commitMap \cup {h} /\ h \notin commitMap /\ toSend' = Shipped(chain[h])
      <4>1. Cardinality(commitMap) \in Nat /\ Cardinality(commitMap') = Cardinality(commitMap) + 1
        BY <1>2, <3>4, CommitCounts, Zenon
      <4> DEFINE c == Cardinality(commitMap)
                 s == IF idx < BlockSize THEN BlockSize ELSE idx
      <4>2. s + 0 = BlockSize * (1 + c) /\ s \in Nat /\ c \in Nat
        BY <1>2, <2>1, <3>1, <4>1, Zenon
      <4>3. BlockSize * (1 + (c + 1)) = BlockSize * (1 + c) + BlockSize
        BY <2>1, <4>1
      <4> QED
        BY <2>1, <3>1, <3>3, <3>4, <4>1, <4>2, <4>3, SMTT(30)
    <3>5. CASE commitMap' = commitMap /\ toSend' = 0
      BY <1>2, <3>1, <3>5, Zenon
    <3>6. CASE commitMap' = commitMap \cup {h} /\ h \in commitMap /\ toSend' = 0
      BY <1>2, <3>1, <3>6, Zenon
    <3> QED
      BY <3>1, <3>4, <3>5, <3>6, Zenon
  <2>6. ASSUME NEW cmd \in sending, sendCommandToServer(cmd)
        PROVE  UNCHANGED <<idx, toSend, commitMap>>
    BY <2>6, Zenon DEF sendCommandToServer
  <2>7. ASSUME NEW n \in Replica, replicaStep(n) PROVE UNCHANGED <<idx, toSend, commitMap>>
    BY <2>7, Zenon DEF replicaStep, ClientMsgHandler, handleCommand, Propose, startWithoutProposal,
      timerGoroutine, timerFires, callbackEnds, clientVars
  <2>8. CASE UNCHANGED loopVars
    BY <2>2, <2>8 DEF loopVars, clientVars
  <2> QED
    BY <1>2, <2>2, <2>3, <2>4, <2>5, <2>6, <2>7, <2>8, Zenon DEF ClientNext, clientStep
<1> QED
  BY LoopInvariant, <1>1, <1>2, PTL DEF ClientSpec

\* For any number of replicas and any size of blocks, if the fresh pool has nil
\* commands for all of the first block but one (it has 1000): at the right pace
\* the blocks hold the client's commands, each once and in order (command.go,
\* getCmdsIfSufficient: "TODO all pengdingCommands should be change not only
\* leader?").
THEOREM BlocksInOrder ==
  ASSUME InitialPool >= BlockSize - 1
  PROVE  ClientSpec => []LedgerInOrder
<1>1. ClientInit => PaceInv
  <2> SUFFICES ASSUME ClientInit PROVE PaceInv
    OBVIOUS
  <2>1. BlockSize \in Nat \ {0} /\ InitialPool \in Nat
    BY BlockSizeAssumption, InitialPoolAssumption, Zenon
  <2>2. idx = 0 /\ LastOrdered = 0 - BlockSize
    <3>1. BlockSize * (0 - 1) = 0 - BlockSize
      BY <2>1
    <3> QED BY <3>1, Zenon DEF ClientInit, LastOrdered
  <2>3. ASSUME NEW n \in Replica PROVE Paced(n)
    <3>1. ~UnderWay(n) /\ LastAdded(n) = 0 - 1
      BY <2>2, Zenon DEF ClientInit, RoundInit, UnderWay, LastAdded
    <3>2. OneUnderWay(n)
      BY <3>1, Zenon DEF ClientInit, RoundInit, OneUnderWay
    <3>3. Unstarted(n)
      BY <2>2, <3>1, Zenon DEF ClientInit, RoundInit, Unstarted
    <3>4. /\ Len(pendingCommands[n]) = InitialPool
          /\ \A i \in 1..InitialPool : pendingCommands[n][i] = nil
      BY <2>1 DEF ClientInit, RoundInit
    <3>5. Len(pendingCommands[n]) >= LastAdded(n) - LastOrdered
      BY <2>1, <2>2, <3>1, <3>4
    <3>6. ASSUME NEW x \in (LastOrdered + 1)..LastAdded(n)
          PROVE  /\ x < 0 /\ Len(pendingCommands[n]) - (LastAdded(n) - x) \in 1..InitialPool
      BY <2>1, <2>2, <3>1, <3>4
    <3>7. PoolInOrder(n)
      BY <3>4, <3>5, <3>6, Zenon DEF PoolInOrder
    <3> QED BY <3>2, <3>3, <3>7, Zenon DEF Paced, Stage
  <2>4. LedgerInOrder
    BY DEF ClientInit, LedgerInOrder
  <2> QED BY <2>1, <2>2, <2>3, <2>4 DEF PaceInv
<1>2. LoopInv /\ OneBatchPerBlock /\ PaceInv /\ [ClientNext]_loopVars => PaceInv'
  <2> SUFFICES ASSUME LoopInv, OneBatchPerBlock, PaceInv, [ClientNext]_loopVars PROVE PaceInv'
    OBVIOUS
  <2>0. ASSUME UNCHANGED <<paced, idx, sending, chain>>, \A m \in Replica : SameAt(m)
        PROVE  PaceInv'
    <3>1. \A m \in Replica : Paced(m) => Paced(m)'
      BY <2>0, PaceFrame, Zenon
    <3> QED BY <2>0, <3>1, Zenon DEF PaceInv, LastOrdered, LedgerInOrder
  <2>1. ASSUME UNCHANGED <<paced, idx, sending, chain, roundVars, inbox>> PROVE PaceInv'
    BY <2>0, <2>1, Zenon DEF SameAt, roundVars, goVars, timerVars
  <2>2. CASE UNCHANGED loopVars
    BY <2>1, <2>2, Zenon DEF loopVars, blockVars, clientVars, streamVars
  <2>3. ASSUME NEW n \in Replica, handleVotes(n) PROVE PaceInv'
    BY <2>1, <2>3 DEF handleVotes, blockVars
  <2>4. CASE sendFirst \/ sendNew
    BY <2>4, CommitCounts, PaceSend, Zenon
  <2>5. ASSUME NEW cmd \in sending, sendCommandToServer(cmd) PROVE PaceInv'
    BY <2>5, PaceDeliver, Zenon
  <2>6. ASSUME NEW n \in Replica, replicaStep(n) PROVE PaceInv'
    <3>1. ASSUME timerGoroutine(n) PROVE PaceInv'
      BY <2>0, <3>1, Zenon DEF timerGoroutine, readTimer, SameAt, goVars, blockVars, clientVars,
        streamVars
    <3> QED BY <2>6, <3>1, PaceRead, PaceAdd, PacePropose, PaceTimer, Zenon DEF replicaStep
  <2> QED BY <2>2, <2>3, <2>4, <2>5, <2>6, Zenon DEF ClientNext, clientStep
<1>3. PaceInv => LedgerInOrder
  BY DEF PaceInv, LedgerInOrder
<1> QED BY LoopInvariant, ClientSendsOneBatchPerBlock, <1>1, <1>2, <1>3, PTL DEF ClientSpec
===============================================================================
