---------------------------- MODULE CommandProofs -----------------------------
(***************************************************************************)
(* What the client's commands become, for any number of replicas and any   *)
(* size of blocks: a client at the right pace keeps the pools in order,    *)
(* step by step.                                                           *)
(***************************************************************************)
EXTENDS ClientLoopProofs

\* The part of a sequence between two indices (the Go expression s[m-1:n]).
LEMMA PartOf ==
  ASSUME NEW S, NEW s, NEW m \in Int, NEW n \in Int, \A i \in m..n : s[i] \in S
  PROVE  /\ SubSeq(s, m, n) \in Seq(S)
         /\ m <= n => Len(SubSeq(s, m, n)) = n - m + 1
         /\ n < m => SubSeq(s, m, n) = <<>>
         /\ \A i \in 1..(n - m + 1) : SubSeq(s, m, n)[i] = s[m + i - 1]
OBVIOUS

-------------------------------------------------------------------------------
\* The client at the right pace.

\* A command is on its way to a replica's pool.
UnderWay(n) == sending # {} \/ inbox[n] # <<>> \/ adding[n] # {}

\* At most the last command is under way to a replica, in one place, and the
\* replica has nothing to do with earlier ones.
OneUnderWay(n) ==
  /\ sending \in {{}, {idx - 1}}
  /\ inbox[n] \in {<<>>, <<idx - 1>>}
  /\ adding[n] \in {{}, {idx - 1}}
  /\ sending # {} => inbox[n] = <<>> /\ adding[n] = {}
  /\ inbox[n] # <<>> => adding[n] = {}
  /\ UnderWay(n) => proposing[n] = 0 /\ clearing[n] = 0 /\ receiving[n] = 0

\* The commands of the batches before the replica's view.
Before(n) == BlockSize * (view[n] - 1)

\* Before the first round.
Unstarted(n) ==
  /\ firstStarts[n] = 0 /\ view[n] = 1 /\ gcallFuncFinish[n]
  /\ proposing[n] = 0 /\ clearing[n] = 0 /\ receiving[n] = 0
  /\ \/ idx = 0 /\ ~UnderWay(n)
     \/ idx = 1 /\ UnderWay(n) /\ Len(pendingCommands[n]) >= BlockSize - 1

\* In a round, which the first command of the view's batch has started.
InRound(n) ==
  /\ armed[n] = 1 /\ receiving[n] = 0
  /\ idx \in (Before(n) + 1)..(Before(n) + BlockSize)
  /\ gcallFuncFinish[n] => clearing[n] = 1
  /\ clearing[n] + proposing[n] > 0 => idx = Before(n) + 1

\* Between two rounds: no command of the next batch is there, or the first is
\* under way, or its goroutine waits for the token.
BetweenRounds(n) ==
  /\ armed[n] = 0 /\ firstStarts[n] = 1 /\ ~gcallFuncFinish[n]
  /\ proposing[n] = 0 /\ clearing[n] = 0
  /\ \/ /\ idx \in {Before(n), Before(n) + BlockSize}
        /\ ~UnderWay(n) /\ receiving[n] = 0
     \/ /\ idx = Before(n) + 1 /\ finishing[n] = 0
        /\ \/ UnderWay(n) /\ Len(pendingCommands[n]) >= BlockSize - 1
           \/ ~UnderWay(n) /\ receiving[n] = 1

Stage(n) == Unstarted(n) \/ InRound(n) \/ BetweenRounds(n)

\* The last command of the last block, and the last one in a replica's pool.
LastOrdered == BlockSize * (Len(chain) - 1)
LastAdded(n) == IF UnderWay(n) THEN idx - 2 ELSE idx - 1

\* The newest commands of a pool are those after the last block, in order.
PoolInOrder(n) ==
  LET p == pendingCommands[n]
      k == LastAdded(n)
  IN /\ Len(p) >= k - LastOrdered
     /\ \A x \in (LastOrdered + 1)..k : p[Len(p) - (k - x)] = IF x < 0 THEN nil ELSE x

Paced(n) == OneUnderWay(n) /\ Stage(n) /\ PoolInOrder(n)

PaceInv ==
  paced => /\ idx > LastOrdered
           /\ \A n \in Replica : Paced(n)
           /\ LedgerInOrder

\* The numbers of the invariant.
LEMMA PaceTypes ==
  ASSUME LoopInv
  PROVE  /\ BlockSize \in Nat \ {0} /\ idx \in Nat /\ Len(chain) \in Nat /\ LastOrdered \in Int
         /\ toSend \in Nat
         /\ \A n \in Replica :
              /\ Before(n) \in Nat
              /\ view[n] \in Nat /\ view[n] >= 1 /\ firstStarts[n] \in Nat
              /\ armed[n] \in Nat /\ finishing[n] \in Nat /\ SyncChannel[n] \in Nat
              /\ proposing[n] \in Nat /\ clearing[n] \in Nat /\ receiving[n] \in Nat
              /\ gcallFuncFinish[n] \in BOOLEAN
              /\ pendingCommands[n] \in Seq(Int) /\ Len(pendingCommands[n]) \in Nat
              /\ LastAdded(n) \in Int
              /\ armed[n] + finishing[n] + SyncChannel[n] = firstStarts[n]
              /\ firstStarts[n] <= 1
<1>1. BlockSize \in Nat \ {0} /\ idx \in Nat /\ Len(chain) \in Nat /\ toSend \in Nat
  BY BlockSizeAssumption DEF LoopInv, DataTypes
<1>2. LastOrdered \in Int
  BY <1>1 DEF LastOrdered
<1> SUFFICES ASSUME NEW n \in Replica
             PROVE  /\ Before(n) \in Nat
              /\ view[n] \in Nat /\ view[n] >= 1 /\ firstStarts[n] \in Nat
              /\ armed[n] \in Nat /\ finishing[n] \in Nat /\ SyncChannel[n] \in Nat
              /\ proposing[n] \in Nat /\ clearing[n] \in Nat /\ receiving[n] \in Nat
              /\ gcallFuncFinish[n] \in BOOLEAN
              /\ pendingCommands[n] \in Seq(Int) /\ Len(pendingCommands[n]) \in Nat
              /\ LastAdded(n) \in Int
              /\ armed[n] + finishing[n] + SyncChannel[n] = firstStarts[n]
              /\ firstStarts[n] <= 1
  BY <1>1, <1>2
<1>3. view[n] \in Nat /\ view[n] >= 1
  BY DEF LoopInv, RoundTypes, Views, ViewOf
<1>4. Before(n) \in Nat
  <2>1. view[n] - 1 \in Nat
    BY <1>3
  <2> QED BY <1>1, <2>1 DEF Before
<1>5. LastAdded(n) \in Int
  BY <1>1 DEF LastAdded
<1>6. pendingCommands[n] \in Seq(Int) /\ Len(pendingCommands[n]) \in Nat
  BY DEF LoopInv, DataTypes
<1>7. /\ firstStarts[n] \in Nat /\ armed[n] \in Nat /\ finishing[n] \in Nat /\ SyncChannel[n] \in Nat
      /\ proposing[n] \in Nat /\ clearing[n] \in Nat /\ receiving[n] \in Nat
      /\ gcallFuncFinish[n] \in BOOLEAN
  BY DEF LoopInv, RoundTypes
<1>8. armed[n] + finishing[n] + SyncChannel[n] = firstStarts[n] /\ firstStarts[n] <= 1
  BY OneToken, Zenon DEF LoopInv, OneStart
<1> QED BY <1>3, <1>4, <1>5, <1>6, <1>7, <1>8, Zenon

\* A block is ordered in the view of its leader: the first command of the
\* view's batch is the next one after those of the blocks.
LEMMA NextOrdered ==
  ASSUME LoopInv, NEW n \in Replica
  PROVE  /\ view[n] = Len(chain) + 1 => Before(n) = LastOrdered + BlockSize
         /\ view[n] = Len(chain) => Before(n) = LastOrdered
         /\ view[n] = Len(chain) \/ view[n] = Len(chain) + 1
         /\ BlockSize * view[n] = Before(n) + BlockSize
<1>1. view[n] \in Nat /\ Len(chain) \in Nat /\ BlockSize \in Nat
  BY PaceTypes
<1>2. view[n] = Len(chain) \/ view[n] = Len(chain) + 1
  BY DEF LoopInv, Views, ViewOf
<1>3. BlockSize * view[n] = BlockSize * (view[n] - 1) + BlockSize
  BY <1>1
<1>4. BlockSize * ((Len(chain) + 1) - 1) = BlockSize * (Len(chain) - 1) + BlockSize
  BY <1>1
<1> QED BY <1>2, <1>3, <1>4 DEF Before, LastOrdered


\* What a step of the program leaves to a replica that it does not concern.
SameAt(m) ==
  /\ inbox'[m] = inbox[m] /\ adding'[m] = adding[m]
  /\ pendingCommands'[m] = pendingCommands[m]
  /\ proposing'[m] = proposing[m] /\ clearing'[m] = clearing[m]
  /\ receiving'[m] = receiving[m] /\ view'[m] = view[m]
  /\ firstStarts'[m] = firstStarts[m] /\ gcallFuncFinish'[m] = gcallFuncFinish[m]
  /\ armed'[m] = armed[m] /\ finishing'[m] = finishing[m]

\* It keeps its place in the batch.
LEMMA PaceFrame ==
  ASSUME NEW m \in Replica, Paced(m), SameAt(m), UNCHANGED <<idx, sending, chain>>
  PROVE  Paced(m)'
<1> USE DEF SameAt
<1>1. UnderWay(m)' = UnderWay(m) /\ Before(m)' = Before(m)
  BY Zenon DEF UnderWay, Before
<1>2. OneUnderWay(m)'
  BY <1>1, Zenon DEF Paced, OneUnderWay
<1>3. Stage(m)'
  BY <1>1, Zenon DEF Paced, Stage, Unstarted, InRound, BetweenRounds
<1>4. LastAdded(m)' = LastAdded(m) /\ LastOrdered' = LastOrdered
  BY <1>1 DEF LastAdded, LastOrdered
<1>5. PoolInOrder(m)'
  BY <1>4, Zenon DEF Paced, PoolInOrder
<1> QED BY <1>2, <1>3, <1>5, Zenon DEF Paced

\* A step of one replica that orders no block.
LEMMA PaceLocal ==
  ASSUME PaceInv, NEW n \in Replica, UNCHANGED <<paced, idx, sending, chain>>,
         \A m \in Replica \ {n} : SameAt(m),
         paced /\ Paced(n) => Paced(n)'
  PROVE  PaceInv'
<1> SUFFICES ASSUME paced PROVE PaceInv'
  BY Zenon DEF PaceInv
<1>1. LastOrdered' = LastOrdered /\ LedgerInOrder'
  BY DEF LastOrdered, PaceInv, LedgerInOrder
<1>2. \A m \in Replica : Paced(m)'
  BY PaceFrame DEF PaceInv
<1> QED BY <1>1, <1>2, Zenon DEF PaceInv

\* The client sends within the batch of every replica's view.
LEMMA SentWithinBatch ==
  ASSUME LoopInv, OneBatchPerBlock, Cardinality(commitMap) \in Nat, paced,
         sendFirst \/ sendNew, NEW n \in Replica
  PROVE  /\ idx < Before(n) + BlockSize
         /\ ~UnderWay(n) /\ finishing[n] = 0
         /\ proposing[n] = 0 /\ clearing[n] = 0 /\ receiving[n] = 0
         /\ sending' = {idx} /\ idx' = idx + 1
         /\ UNCHANGED <<paced, roundVars, chain, inbox>>
<1>1. MaySend /\ (idx < BlockSize \/ (idx >= BlockSize /\ toSend > 0))
  BY Zenon DEF sendFirst, sendNew
<1>2. Quiet /\ view[n] = Cardinality(commitMap) + 1 /\ finishing[n] = 0
  BY <1>1, Zenon DEF MaySend
<1>3. /\ ~UnderWay(n) /\ proposing[n] = 0 /\ clearing[n] = 0 /\ receiving[n] = 0
      /\ sending = {}
  <2>1. clearing[n] + receiving[n] = 0 /\ clearing[n] \in Nat /\ receiving[n] \in Nat
    BY <1>2, PaceTypes, Zenon DEF Quiet
  <2> QED BY <1>2, <2>1 DEF Quiet, UnderWay
<1>4. /\ sending' = {idx} /\ idx' = idx + 1 /\ UNCHANGED <<paced, roundVars, chain, inbox>>
  BY <1>3, Zenon DEF sendFirst, sendNew, blockVars, streamVars
<1>5. Before(n) \in Nat /\ BlockSize \in Nat \ {0} /\ idx \in Nat /\ toSend \in Nat
  BY PaceTypes, Zenon
<1>6. CASE idx < BlockSize
  BY <1>2, <1>3, <1>4, <1>5, <1>6
<1>7. CASE idx >= BlockSize /\ toSend > 0
  <2>2. idx + toSend = BlockSize * view[n]
    <3>1. 1 + Cardinality(commitMap) = view[n]
      BY <1>2
    <3> QED BY <1>5, <1>7, <3>1 DEF OneBatchPerBlock
  <2>3. BlockSize * view[n] = Before(n) + BlockSize
    BY NextOrdered, Zenon
  <2> QED BY <1>2, <1>3, <1>4, <1>5, <1>7, <2>2, <2>3
<1> QED BY <1>1, <1>6, <1>7, Zenon

\* The client makes a command: the first of the batch for replicas between two
\* rounds, another one for replicas in a round.
LEMMA PaceSend ==
  ASSUME LoopInv, OneBatchPerBlock, Cardinality(commitMap) \in Nat, PaceInv,
         sendFirst \/ sendNew
  PROVE  PaceInv'
<1> SUFFICES ASSUME paced' PROVE PaceInv'
  BY DEF PaceInv
<1>1. paced
  BY Zenon DEF sendFirst, sendNew
<1>2. /\ idx' = idx + 1 /\ UNCHANGED chain /\ idx \in Nat /\ LastOrdered \in Int
  BY PaceTypes, Zenon DEF sendFirst, sendNew, blockVars
<1>3. LedgerInOrder' /\ LastOrdered' = LastOrdered
  BY <1>1, <1>2 DEF PaceInv, LedgerInOrder, LastOrdered
<1>4. idx > LastOrdered
  BY <1>1, Zenon DEF PaceInv
<1>5. ASSUME NEW n \in Replica PROVE Paced(n)'
  <2>1. /\ idx < Before(n) + BlockSize
        /\ ~UnderWay(n) /\ finishing[n] = 0
        /\ proposing[n] = 0 /\ clearing[n] = 0 /\ receiving[n] = 0
        /\ sending' = {idx}
        /\ UNCHANGED <<roundVars, inbox>>
    BY <1>1, SentWithinBatch, Zenon
  <2>2. UNCHANGED <<view, pendingCommands, gcallFuncFinish, SyncChannel, armed, finishing, adding,
                    clearing, receiving, proposing, firstStarts>>
    BY <2>1, Zenon DEF roundVars, goVars, timerVars
  <2>3. UnderWay(n)' /\ Before(n)' = Before(n) /\ idx' - 1 = idx
    BY <1>2, <2>1, <2>2 DEF UnderWay, Before
  <2>4. Paced(n)
    BY <1>1, Zenon DEF PaceInv
  <2>5. OneUnderWay(n)'
    BY <2>1, <2>2, <2>3, Zenon DEF OneUnderWay, UnderWay
  <2>6. LastAdded(n)' = LastAdded(n) /\ LastAdded(n) = idx - 1
    BY <1>2, <2>1, <2>3 DEF LastAdded
  <2>7. PoolInOrder(n)'
    BY <1>3, <2>2, <2>4, <2>6, Zenon DEF Paced, PoolInOrder
  <2>8. Len(pendingCommands[n]) >= idx - 1 - LastOrdered
    BY <2>4, <2>6, Zenon DEF Paced, PoolInOrder
  <2>9. /\ Before(n) \in Nat /\ BlockSize \in Nat \ {0} /\ Len(pendingCommands[n]) \in Nat
        /\ view[n] \in Nat
    BY PaceTypes, Zenon
  <2>10. /\ view[n] = Len(chain) + 1 => Before(n) = LastOrdered + BlockSize
         /\ view[n] = Len(chain) => Before(n) = LastOrdered
         /\ view[n] = Len(chain) \/ view[n] = Len(chain) + 1
    BY NextOrdered, Zenon
  <2>11. CASE Unstarted(n)
    <3>1. idx = 0 /\ Before(n) = 0
      BY <2>1, <2>9, <2>11 DEF Unstarted, Before
    <3>2. LastOrdered = 0 - BlockSize
      BY <1>2, <1>4, <2>9, <2>10, <3>1
    <3>3. Len(pendingCommands[n]) >= 0 - 1 - (0 - BlockSize)
      BY <2>8, <3>1, <3>2
    <3>4. 0 - 1 - (0 - BlockSize) = BlockSize - 1
      BY <2>9
    <3>5. Len(pendingCommands[n]) >= BlockSize - 1
      BY <3>3, <3>4
    <3> QED BY <1>2, <2>2, <2>3, <2>5, <2>7, <2>11, <3>1, <3>5 DEF Paced, Stage, Unstarted
  <2>12. CASE InRound(n)
    <3>1. armed[n] = 1 /\ idx \in (Before(n) + 1)..(Before(n) + BlockSize)
      BY <2>12, Zenon DEF InRound
    <3>2. idx' \in (Before(n)' + 1)..(Before(n)' + BlockSize)
      BY <1>2, <2>1, <2>3, <2>9, <3>1
    <3>3. ~(clearing[n] + proposing[n] > 0)
      BY <2>1
    <3>4. InRound(n)'
      BY <2>1, <2>2, <2>12, <3>1, <3>2, <3>3, Zenon DEF InRound
    <3> QED BY <2>5, <2>7, <3>4, Zenon DEF Paced, Stage
  <2>13. CASE BetweenRounds(n)
    <3>1. idx = Before(n)
      <4>1. receiving[n] # 1
        BY <2>1
      <4>2. idx \in {Before(n), Before(n) + BlockSize}
        BY <2>1, <2>13, <4>1, Zenon DEF BetweenRounds
      <4> QED BY <1>2, <2>1, <2>9, <4>2
    <3>2. Before(n) = LastOrdered + BlockSize
      BY <1>2, <1>4, <2>9, <2>10, <3>1
    <3>3. Len(pendingCommands[n]) >= BlockSize - 1
      BY <1>2, <2>8, <2>9, <3>1, <3>2
    <3> QED BY <1>2, <2>1, <2>2, <2>3, <2>5, <2>7, <2>13, <3>1, <3>3, Zenon
            DEF Paced, Stage, BetweenRounds
  <2> QED BY <2>4, <2>11, <2>12, <2>13, Zenon DEF Paced, Stage
<1> QED BY <1>2, <1>3, <1>4, <1>5 DEF PaceInv

\* The last command goes to the replicas.
LEMMA PaceDeliver ==
  ASSUME LoopInv, PaceInv, NEW cmd \in sending, sendCommandToServer(cmd)
  PROVE  PaceInv'
<1> SUFFICES ASSUME paced PROVE PaceInv'
  BY Zenon DEF PaceInv, sendCommandToServer, roundVars, goVars, timerVars, blockVars
<1>1. /\ sending' = sending \ {cmd} /\ inbox' = [n \in Replica |-> Append(inbox[n], cmd)]
      /\ UNCHANGED <<view, pendingCommands, gcallFuncFinish, SyncChannel, armed, finishing, adding,
                     clearing, receiving, proposing, firstStarts, paced, chain, idx>>
  BY Zenon DEF sendCommandToServer, roundVars, goVars, timerVars, blockVars
<1>2. LedgerInOrder' /\ LastOrdered' = LastOrdered /\ idx' > LastOrdered'
  BY <1>1, Zenon DEF PaceInv, LedgerInOrder, LastOrdered
<1>3. ASSUME NEW n \in Replica PROVE Paced(n)'
  <2>1. Paced(n)
    BY Zenon DEF PaceInv
  <2>2. sending = {idx - 1} /\ cmd = idx - 1 /\ inbox[n] = <<>> /\ adding[n] = {} /\ UnderWay(n)
    BY <2>1, Zenon DEF Paced, OneUnderWay, UnderWay
  <2>3. inbox'[n] = <<idx - 1>> /\ sending' = {} /\ inbox'[n] # <<>>
    <3>1. inbox'[n] = Append(<<>>, idx - 1)
      BY <1>1, <2>2, Zenon
    <3>2. idx - 1 \in Int
      BY PaceTypes
    <3>3. Append(<<>>, idx - 1) = <<idx - 1>> /\ <<idx - 1>> # <<>>
      BY <3>2
    <3> QED BY <1>1, <2>2, <3>1, <3>3, Zenon
  <2>4. UnderWay(n)' /\ Before(n)' = Before(n) /\ LastAdded(n)' = LastAdded(n)
    BY <1>1, <2>2, <2>3, Zenon DEF UnderWay, Before, LastAdded
  <2>5. OneUnderWay(n)'
    BY <1>1, <2>1, <2>2, <2>3, <2>4 DEF Paced, OneUnderWay
  <2>6. Stage(n)'
    BY <1>1, <2>1, <2>2, <2>4, Zenon DEF Paced, Stage, Unstarted, InRound, BetweenRounds
  <2>7. PoolInOrder(n)'
    BY <1>1, <1>2, <2>1, <2>4, Zenon DEF Paced, PoolInOrder
  <2> QED BY <2>5, <2>6, <2>7 DEF Paced
<1> QED BY <1>2, <1>3, Zenon DEF PaceInv

\* A replica reads it.
LEMMA PaceRead ==
  ASSUME LoopInv, PaceInv, NEW n \in Replica, ClientMsgHandler(n)
  PROVE  PaceInv'
<1>1. PICK k \in 1..Len(inbox[n]) :
        /\ receiveCommand(n, inbox[n][k])
        /\ inbox' = [inbox EXCEPT ![n] = SubSeq(@, k + 1, Len(@))]
  BY Zenon DEF ClientMsgHandler, goVars, timerVars, blockVars, clientVars
<1>2. /\ inbox \in [Replica -> Seq(Int)] /\ adding \in [Replica -> SUBSET Int] /\ idx \in Nat
  BY Zenon DEF LoopInv, DataTypes
<1>3. /\ UNCHANGED <<view, pendingCommands, gcallFuncFinish, SyncChannel, armed, finishing,
                     clearing, receiving, proposing, firstStarts, paced, chain, idx, sending>>
      /\ adding' = [adding EXCEPT ![n] = @ \cup {inbox[n][k]}]
  BY <1>1, Zenon DEF ClientMsgHandler, receiveCommand, goVars, timerVars, blockVars, clientVars
<1>4. \A m \in Replica \ {n} : SameAt(m)
  BY <1>1, <1>2, <1>3, Zenon DEF SameAt
<1>5. ASSUME paced, Paced(n) PROVE Paced(n)'
  <2>1. inbox[n] = <<idx - 1>> /\ adding[n] = {} /\ sending = {} /\ UnderWay(n) /\ k = 1
    <3>1. inbox[n] # <<>>
      BY <1>1, <1>2
    <3>2. inbox[n] = <<idx - 1>> /\ adding[n] = {} /\ sending = {} /\ UnderWay(n)
      BY <1>5, <3>1, Zenon DEF Paced, OneUnderWay, UnderWay
    <3>3. Len(<<idx - 1>>) = 1
      OBVIOUS
    <3> QED BY <3>2, <3>3
  <2>2. adding'[n] = {idx - 1}
    BY <1>2, <1>3, <2>1
  <2>3. inbox'[n] = <<>>
    <3>1. inbox'[n] = SubSeq(<<idx - 1>>, 1 + 1, Len(<<idx - 1>>))
      BY <1>1, <1>2, <2>1, Zenon
    <3>2. SubSeq(<<idx - 1>>, 1 + 1, Len(<<idx - 1>>)) = <<>>
      <4>1. 1 + 1 \in Int /\ Len(<<idx - 1>>) = 1 /\ 1 \in Int /\ 1 < 1 + 1
        OBVIOUS
      <4> QED BY <4>1, PartOf
    <3> QED BY <3>1, <3>2
  <2>4. UnderWay(n)' /\ Before(n)' = Before(n) /\ LastAdded(n)' = LastAdded(n)
    BY <1>3, <2>1, <2>2, Zenon DEF UnderWay, Before, LastAdded
  <2>5. OneUnderWay(n)'
    BY <1>3, <1>5, <2>1, <2>2, <2>3, <2>4, Zenon DEF Paced, OneUnderWay
  <2>6. Stage(n)'
    BY <1>3, <1>5, <2>1, <2>4, Zenon DEF Paced, Stage, Unstarted, InRound, BetweenRounds
  <2>7. PoolInOrder(n)'
    BY <1>3, <1>5, <2>4, Zenon DEF Paced, PoolInOrder, LastOrdered
  <2> QED BY <2>5, <2>6, <2>7, Zenon DEF Paced
<1> QED BY <1>3, <1>4, <1>5, PaceLocal, Zenon

\* The goroutine of the last command adds it to the pool, in order.
LEMMA PoolGrows ==
  ASSUME LoopInv, NEW n \in Replica, Paced(n), NEW cmd, addCmds(n, cmd),
         UNCHANGED <<idx, sending, chain, inbox>>
  PROVE  /\ PoolInOrder(n)' /\ UnderWay(n) /\ ~UnderWay(n)' /\ OneUnderWay(n)'
         /\ Len(pendingCommands'[n]) = Len(pendingCommands[n]) + 1
<1>1. /\ idx \in Nat /\ LastOrdered \in Int /\ pendingCommands[n] \in Seq(Int)
      /\ Len(pendingCommands[n]) \in Nat
  BY PaceTypes, Zenon
<1>2. /\ cmd \in adding[n] /\ pendingCommands'[n] = Append(pendingCommands[n], cmd)
      /\ adding'[n] = adding[n] \ {cmd}
  BY Zenon DEF addCmds, LoopInv, DataTypes
<1>3. /\ cmd = idx - 1 /\ UnderWay(n) /\ sending = {} /\ inbox[n] = <<>> /\ adding[n] = {idx - 1}
      /\ idx - 1 \in Nat
  <2>1. cmd = idx - 1 /\ UnderWay(n) /\ sending = {} /\ inbox[n] = <<>> /\ adding[n] = {idx - 1}
    BY <1>2, SMTT(30) DEF Paced, OneUnderWay, UnderWay
  <2>2. idx # 0
    <3>1. Before(n) \in Nat /\ BlockSize \in Nat
      BY PaceTypes
    <3>2. Stage(n)
      BY Zenon DEF Paced
    <3> QED BY <2>1, <3>1, <3>2 DEF Stage, Unstarted, InRound, BetweenRounds
  <2> QED BY <1>1, <2>1, <2>2
<1>4. ~UnderWay(n)'
  BY <1>2, <1>3, Zenon DEF UnderWay
<1>5. OneUnderWay(n)'
  BY <1>2, <1>3, <1>4, Zenon DEF OneUnderWay
<1> DEFINE p == pendingCommands[n]
           q == pendingCommands'[n]
<1>6. /\ Len(q) = Len(p) + 1 /\ \A i \in 1..Len(p) : q[i] = p[i]
      /\ q[Len(p) + 1] = idx - 1
  BY <1>1, <1>2, <1>3, Appending
<1>7. LastAdded(n) = idx - 2 /\ LastAdded(n)' = idx - 1 /\ LastOrdered' = LastOrdered
  BY <1>3, <1>4, Zenon DEF LastAdded, LastOrdered
<1>8. Len(p) >= idx - 2 - LastOrdered
  BY <1>7, Zenon DEF Paced, PoolInOrder
<1> HIDE DEF p, q
<1>9. ASSUME NEW x \in (LastOrdered + 1)..(idx - 1)
      PROVE  q[Len(q) - ((idx - 1) - x)] = IF x < 0 THEN nil ELSE x
  <2>1. CASE x = idx - 1
    BY <1>1, <1>3, <1>6, <2>1 DEF p
  <2>2. CASE x # idx - 1
    <3>1. x \in (LastOrdered + 1)..(idx - 2)
      BY <1>1, <2>2
    <3>2. p[Len(p) - ((idx - 2) - x)] = IF x < 0 THEN nil ELSE x
      BY <1>7, <3>1, Zenon DEF Paced, PoolInOrder, p
    <3>3. Len(p) - ((idx - 2) - x) \in 1..Len(p) /\ Len(q) - ((idx - 1) - x) = Len(p) - ((idx - 2) - x)
      <4>1. Len(p) \in Nat /\ idx \in Nat /\ LastOrdered \in Int
        BY <1>1 DEF p
      <4>2. Len(q) = Len(p) + 1
        BY <1>6, Zenon
      <4> HIDE DEF LastOrdered
      <4> QED BY <1>8, <3>1, <4>1, <4>2
    <3> QED BY <1>6, <3>2, <3>3, Zenon
  <2> QED BY <2>1, <2>2, Zenon
<1>10. Len(q) >= (idx - 1) - LastOrdered
  BY <1>1, <1>6, <1>8 DEF p
<1>11. PoolInOrder(n)'
  BY <1>7, <1>9, <1>10, Zenon DEF PoolInOrder, q
<1> QED BY <1>3, <1>4, <1>5, <1>6, <1>11, Zenon DEF p, q

\* The goroutines of the last command: they start a round if it is the batch's
\* first one, and not otherwise.
LEMMA PaceAdd ==
  ASSUME LoopInv, PaceInv, NEW n \in Replica, handleCommand(n)
  PROVE  PaceInv'
<1>1. UNCHANGED <<view, paced, chain, idx, sending, inbox, finishing>>
  BY Zenon DEF handleCommand, addCmdsAndStartTimerIfSufficientCommands, insufficientCommands,
     firstStart, laterCommand, clearFirst, receiveSync,
     goVars, timerVars, blockVars, clientVars, streamVars
<1>2. /\ adding \in [Replica -> SUBSET Int] /\ pendingCommands \in [Replica -> Seq(Int)]
      /\ clearing \in [Replica -> Nat] /\ receiving \in [Replica -> Nat]
      /\ proposing \in [Replica -> Nat] /\ armed \in [Replica -> Nat]
      /\ firstStarts \in [Replica -> Nat] /\ gcallFuncFinish \in [Replica -> BOOLEAN]
  BY Zenon DEF LoopInv, DataTypes, RoundTypes
<1>3. Before(n)' = Before(n) /\ LastOrdered' = LastOrdered
  BY <1>1, Zenon DEF Before, LastOrdered
<1>4. /\ Before(n) \in Nat /\ BlockSize \in Nat \ {0} /\ idx \in Nat
      /\ armed[n] \in Nat /\ finishing[n] \in Nat /\ SyncChannel[n] \in Nat
      /\ firstStarts[n] \in Nat /\ clearing[n] \in Nat /\ proposing[n] \in Nat
      /\ armed[n] + finishing[n] + SyncChannel[n] = firstStarts[n]
      /\ firstStarts[n] <= 1 /\ Len(pendingCommands[n]) \in Nat
  BY PaceTypes, Zenon
<1>5. ASSUME NEW cmd, insufficientCommands(n, cmd) PROVE PaceInv'
  <2>1. /\ addCmds(n, cmd) /\ Len(pendingCommands'[n]) < BlockSize
        /\ UNCHANGED <<gcallFuncFinish, SyncChannel, armed, clearing, receiving, proposing,
                       firstStarts>>
    BY <1>5, Zenon DEF insufficientCommands, goVars, timerVars, blockVars, clientVars, streamVars
  <2>2. \A m \in Replica \ {n} : SameAt(m)
    BY <1>1, <1>2, <2>1, Zenon DEF SameAt, addCmds
  <2>3. ASSUME paced, Paced(n) PROVE Paced(n)'
    <3>1. /\ PoolInOrder(n)' /\ UnderWay(n) /\ ~UnderWay(n)' /\ OneUnderWay(n)'
          /\ Len(pendingCommands'[n]) = Len(pendingCommands[n]) + 1
      BY <1>1, <2>1, <2>3, PoolGrows, Zenon
    <3>2. Len(pendingCommands[n]) < BlockSize - 1
      BY <1>4, <2>1, <3>1
    <3>3. InRound(n)
      BY <1>4, <2>3, <3>1, <3>2 DEF Paced, Stage, Unstarted, BetweenRounds
    <3>4. InRound(n)'
      BY <1>1, <1>3, <2>1, <3>3, Zenon DEF InRound
    <3> QED BY <3>1, <3>4, Zenon DEF Paced, Stage
  <2> QED BY <1>1, <2>2, <2>3, PaceLocal, Zenon
<1>6. ASSUME NEW cmd, firstStart(n, cmd) PROVE PaceInv'
  <2>1. /\ addCmds(n, cmd) /\ gcallFuncFinish[n]
        /\ startConsensusTimer(n) /\ clearing' = Inc(clearing, n)
        /\ firstStarts' = Inc(firstStarts, n)
        /\ UNCHANGED <<gcallFuncFinish, SyncChannel, receiving>>
    BY <1>6, Zenon DEF firstStart, goVars, timerVars, blockVars, clientVars, streamVars
  <2>2. \A m \in Replica \ {n} : SameAt(m)
    BY <1>1, <1>2, <2>1, Zenon DEF SameAt, addCmds, startConsensusTimer, Inc
  <2>3. ASSUME paced, Paced(n) PROVE Paced(n)'
    <3>1. PoolInOrder(n)' /\ UnderWay(n) /\ ~UnderWay(n)' /\ OneUnderWay(n)'
      BY <1>1, <2>1, <2>3, PoolGrows, Zenon
    <3>2. Unstarted(n)
      <4>1. clearing[n] = 0
        BY <2>3, <3>1, Zenon DEF Paced, OneUnderWay
      <4>2. clearing[n] # 1
        BY <4>1, SMTT(30)
      <4> QED BY <2>1, <2>3, <4>2, Zenon DEF Paced, Stage, InRound, BetweenRounds
    <3>3. armed[n] = 0 /\ Before(n) = 0 /\ idx = 1 /\ receiving[n] = 0 /\ clearing[n] = 0
      <4>1. view[n] = 1
        BY <3>2, Zenon DEF Unstarted
      <4>2. BlockSize * (1 - 1) = 0
        BY <1>4
      <4>3. firstStarts[n] = 0 /\ idx = 1 /\ receiving[n] = 0 /\ clearing[n] = 0
        BY <3>1, <3>2, Zenon DEF Unstarted
      <4> QED BY <1>4, <4>1, <4>2, <4>3, SMTT(30) DEF Before
    <3>4. armed'[n] = 1 /\ clearing'[n] = 1 /\ receiving'[n] = 0
      <4>1. unread[n] = 0
        BY <3>3, OneToken, Zenon
      <4> QED BY <1>2, <2>1, <3>3, <4>1 DEF startConsensusTimer, Inc
    <3>5. InRound(n)'
      BY <1>1, <1>3, <1>4, <3>3, <3>4 DEF InRound
    <3> QED BY <3>1, <3>5, Zenon DEF Paced, Stage
  <2> QED BY <1>1, <2>2, <2>3, PaceLocal
<1>7. ASSUME NEW cmd, laterCommand(n, cmd) PROVE PaceInv'
  <2>1. /\ addCmds(n, cmd) /\ ~gcallFuncFinish[n]
        /\ receiving' = IF SyncChannel[n] = 1 THEN Inc(receiving, n) ELSE receiving
        /\ UNCHANGED <<gcallFuncFinish, SyncChannel, armed, clearing, proposing, firstStarts>>
    BY <1>7, Zenon DEF laterCommand, checkSync, goVars, timerVars, blockVars, clientVars, streamVars
  <2>2. \A m \in Replica \ {n} : SameAt(m)
    BY <1>1, <1>2, <2>1, Zenon DEF SameAt, addCmds, Inc
  <2>3. ASSUME paced, Paced(n) PROVE Paced(n)'
    <3>1. PoolInOrder(n)' /\ UnderWay(n) /\ ~UnderWay(n)' /\ OneUnderWay(n)'
      BY <1>1, <2>1, <2>3, PoolGrows, ZenonT(30)
    <3>2. receiving[n] = 0
      BY <2>3, <3>1 DEF Paced, OneUnderWay
    <3>3. CASE InRound(n)
      <4>0. SyncChannel[n] # 1
        BY <1>4, <3>3, SMTT(30) DEF InRound
      <4>1. receiving' = receiving
        BY <2>1, <4>0, Zenon
      <4>2. InRound(n)'
        BY <1>1, <1>3, <2>1, <3>3, <4>1, Zenon DEF InRound
      <4> QED BY <3>1, <4>2, SMTT(30) DEF Paced, Stage
    <3>4. CASE BetweenRounds(n)
      <4>0. finishing[n] = 0 /\ armed[n] = 0 /\ firstStarts[n] = 1
        BY <3>1, <3>4, Zenon DEF BetweenRounds
      <4>1. SyncChannel[n] = 1
        BY <1>4, <4>0
      <4>2. receiving'[n] = 1
        BY <1>2, <2>1, <3>2, <4>1 DEF Inc
      <4>3. BetweenRounds(n)'
        BY <1>1, <1>3, <2>1, <3>1, <3>4, <4>2, Zenon DEF BetweenRounds
      <4> QED BY <3>1, <4>3 DEF Paced, Stage
    <3> QED BY <2>1, <2>3, <3>3, <3>4, Zenon DEF Paced, Stage, Unstarted
  <2> QED BY <1>1, <2>2, <2>3, PaceLocal
<1>8. CASE clearFirst(n)
  <2>1. /\ clearing[n] > 0 /\ clearing' = Dec(clearing, n)
        /\ gcallFuncFinish' = [gcallFuncFinish EXCEPT ![n] = FALSE]
        /\ receiving' = IF SyncChannel[n] = 1 THEN Inc(receiving, n) ELSE receiving
        /\ UNCHANGED <<pendingCommands, SyncChannel, armed, adding, proposing, firstStarts>>
    BY <1>8, Zenon DEF clearFirst, checkSync, goVars, timerVars, blockVars, clientVars, streamVars
  <2>2. \A m \in Replica \ {n} : SameAt(m)
    BY <1>1, <1>2, <2>1, Zenon DEF SameAt, Inc, Dec
  <2>3. ASSUME paced, Paced(n) PROVE Paced(n)'
    <3>1. UnderWay(n)' = UnderWay(n) /\ ~UnderWay(n) /\ LastAdded(n)' = LastAdded(n)
      <4>1. clearing[n] > 0 /\ clearing[n] # 0
        BY <1>4, <2>1
      <4> QED BY <1>1, <2>1, <2>3, <4>1, Zenon DEF UnderWay, Paced, OneUnderWay, LastAdded
    <3>2. InRound(n) /\ armed[n] = 1 /\ idx = Before(n) + 1
      <4>0. clearing[n] > 0 /\ clearing[n] \in Nat /\ proposing[n] \in Nat
        BY <1>4, <2>1, Zenon
      <4>1. clearing[n] # 0 /\ clearing[n] + proposing[n] > 0
        BY <4>0
      <4> QED BY <2>3, <4>1, Zenon DEF Paced, Stage, Unstarted, InRound, BetweenRounds
    <3>3. receiving' = receiving /\ ~gcallFuncFinish'[n]
      <4>1. armed[n] + finishing[n] + SyncChannel[n] <= 1 /\ armed[n] = 1
        BY <1>4, <3>2, Zenon
      <4>2. finishing[n] \in Nat /\ SyncChannel[n] \in Nat
        BY <1>4, Zenon
      <4>3. SyncChannel[n] # 1
        BY <4>1, <4>2
      <4> QED BY <1>2, <2>1, <4>3, Zenon
    <3>4. InRound(n)'
      BY <1>1, <1>3, <2>1, <3>2, <3>3, Zenon DEF InRound
    <3>5. OneUnderWay(n)'
      BY <1>1, <2>1, <2>3, <3>1, Zenon DEF Paced, OneUnderWay
    <3>6. PoolInOrder(n)'
      BY <1>3, <2>1, <2>3, <3>1, Zenon DEF Paced, PoolInOrder
    <3> QED BY <3>4, <3>5, <3>6, Zenon DEF Paced, Stage
  <2> QED BY <1>1, <2>2, <2>3, PaceLocal
<1>9. CASE receiveSync(n)
  <2>1. /\ receiving[n] > 0 /\ SyncChannel[n] = 1 /\ receiving' = Dec(receiving, n)
        /\ startConsensusTimer(n)
        /\ UNCHANGED <<pendingCommands, gcallFuncFinish, adding, clearing, firstStarts>>
    BY <1>9, Zenon DEF receiveSync, goVars, timerVars, blockVars, clientVars, streamVars
  <2>2. \A m \in Replica \ {n} : SameAt(m)
    BY <1>1, <1>2, <2>1, Zenon DEF SameAt, startConsensusTimer, Inc, Dec
  <2>3. ASSUME paced, Paced(n) PROVE Paced(n)'
    <3>1. UnderWay(n)' = UnderWay(n) /\ ~UnderWay(n) /\ LastAdded(n)' = LastAdded(n)
      BY <1>1, <1>2, <2>1, <2>3 DEF UnderWay, Paced, OneUnderWay, LastAdded
    <3>2. BetweenRounds(n) /\ idx = Before(n) + 1 /\ receiving[n] = 1
      <4>1. receiving[n] # 0
        BY <1>2, <2>1
      <4>2. BetweenRounds(n)
        BY <2>3, <4>1, Zenon DEF Paced, Stage, Unstarted, InRound
      <4> QED BY <3>1, <4>1, <4>2, Zenon DEF BetweenRounds
    <3>3. armed'[n] = 1 /\ receiving'[n] = 0
      <4>1. armed[n] = 0 /\ unread[n] = 0
        BY <3>2, OneToken, Zenon DEF BetweenRounds
      <4> QED BY <1>2, <2>1, <3>2, <4>1 DEF startConsensusTimer, Inc, Dec
    <3>4. InRound(n)'
      <4>1. ~gcallFuncFinish'[n]
        BY <2>1, <3>2, Zenon DEF BetweenRounds
      <4>2. idx' = Before(n)' + 1 /\ idx' \in (Before(n)' + 1)..(Before(n)' + BlockSize)
        BY <1>1, <1>3, <1>4, <3>2
      <4> QED BY <3>3, <4>1, <4>2, Zenon DEF InRound
    <3>5. OneUnderWay(n)'
      BY <1>1, <2>1, <2>3, <3>1, Zenon DEF Paced, OneUnderWay
    <3>6. PoolInOrder(n)'
      BY <1>3, <2>1, <2>3, <3>1, Zenon DEF Paced, PoolInOrder
    <3> QED BY <3>4, <3>5, <3>6, SMTT(30) DEF Paced, Stage
  <2> QED BY <1>1, <2>2, <2>3, PaceLocal
<1> QED BY <1>5, <1>6, <1>7, <1>8, <1>9, Zenon DEF handleCommand, addCmdsAndStartTimerIfSufficientCommands,
   goVars, timerVars, blockVars, clientVars, streamVars

\* At the right pace all replicas are in the leader's view when it proposes,
\* with the first command of the view's batch in its pool.
LEMMA PaceProposal ==
  ASSUME LoopInv, PaceInv, paced, NEW n \in Replica, Propose(n)
  PROVE  /\ InRound(n) /\ ~UnderWay(n) /\ idx = Before(n) + 1
         /\ Before(n) = LastOrdered + BlockSize
         /\ \A m \in Replica : view[m] = view[n]
<1>1. proposing[n] # 0 /\ view[n] = Len(chain) + 1
  BY ProposeOnTop
<1>2. Paced(n)
  BY DEF PaceInv
<1>3. InRound(n) /\ ~UnderWay(n)
  BY <1>1, <1>2, Zenon DEF Paced, OneUnderWay, Stage, Unstarted, BetweenRounds
<1>4. /\ proposing[n] \in Nat /\ clearing[n] \in Nat /\ idx \in Nat /\ Before(n) \in Nat
      /\ BlockSize \in Nat \ {0} /\ Len(chain) \in Nat
  BY PaceTypes, Zenon
<1>5. idx = Before(n) + 1
  <2>1. clearing[n] + proposing[n] > 0
    BY <1>1, <1>4
  <2> QED BY <1>3, <2>1, Zenon DEF InRound
<1>6. Before(n) = LastOrdered + BlockSize
  BY <1>1, NextOrdered, Zenon
<1>7. ASSUME NEW m \in Replica PROVE view[m] = view[n]
  <2> SUFFICES ASSUME view[m] # view[n] PROVE FALSE
    OBVIOUS
  <2>1. view[m] = Len(chain) /\ Before(m) = LastOrdered
    BY <1>1, NextOrdered, Zenon
  <2>2. idx = Before(m) + BlockSize + 1 /\ Before(m) \in Nat /\ LastOrdered \in Int
    BY <1>4, <1>5, <1>6, <2>1, PaceTypes, Zenon
  <2>3. Stage(m)
    BY Zenon DEF PaceInv, Paced
  <2>4. CASE Unstarted(m)
    BY <1>4, <2>2, <2>4 DEF Unstarted
  <2>5. CASE InRound(m)
    BY <1>4, <2>2, <2>5 DEF InRound
  <2>6. CASE BetweenRounds(m)
    <3>1. idx \in {Before(m), Before(m) + BlockSize, Before(m) + 1}
      BY <2>6, Zenon DEF BetweenRounds
    <3> QED BY <1>4, <2>2, <3>1
  <2> QED BY <2>3, <2>4, <2>5, <2>6, Zenon DEF Stage
<1> QED BY <1>3, <1>5, <1>6, <1>7, Zenon

\* So the block holds the next commands, in order.
LEMMA PacePropose ==
  ASSUME LoopInv, PaceInv, NEW n \in Replica, Propose(n)
  PROVE  PaceInv'
<1> SUFFICES ASSUME paced PROVE PaceInv'
  BY DEF PaceInv, Propose, goVars, timerVars, clientVars, streamVars
<1> DEFINE p == pendingCommands[n]
           batch == Newest(p, BlockSize)
           left == Older(p, BlockSize)
<1>1. /\ InRound(n) /\ ~UnderWay(n) /\ idx = Before(n) + 1
      /\ Before(n) = LastOrdered + BlockSize
      /\ \A m \in Replica : view[m] = view[n]
  BY PaceProposal
<1>2. /\ chain' = Append(chain, batch)
      /\ pendingCommands' = [pendingCommands EXCEPT ![n] = left]
      /\ proposing' = Dec(proposing, n) /\ Len(p) >= BlockSize /\ proposing[n] > 0
      /\ UNCHANGED <<paced, view, gcallFuncFinish, SyncChannel, armed, finishing, adding,
                     clearing, receiving, firstStarts, idx, sending, inbox>>
  BY <1>1, Zenon DEF Propose, takeBatch, getCmdsIfSufficient,
     goVars, timerVars, clientVars, streamVars
<1>3. /\ p \in Seq(Int) /\ pendingCommands \in [Replica -> Seq(Int)] /\ chain \in Seq(Seq(Int))
      /\ proposing \in [Replica -> Nat]
      /\ Len(p) \in Nat /\ BlockSize \in Nat \ {0} /\ idx \in Nat /\ Len(chain) \in Nat
      /\ LastOrdered \in Int /\ Before(n) \in Nat /\ clearing[n] \in Nat
  BY PaceTypes, Zenon DEF LoopInv, DataTypes, RoundTypes
<1>4. /\ batch \in Seq(Int) /\ \A j \in 1..BlockSize : batch[j] = p[Len(p) - BlockSize + j]
  <2> DEFINE a == Len(p) - BlockSize + 1
             b == Len(p)
  <2>1. a \in Int /\ b \in Int /\ (\A i \in a..b : p[i] \in Int) /\ b - a + 1 = BlockSize
    BY <1>2, <1>3
  <2>2. \A j \in 1..(b - a + 1) : SubSeq(p, a, b)[j] = p[a + j - 1]
    <3> HIDE DEF a, b, p
    <3> QED BY <2>1, PartOf
  <2>3. \A j \in 1..BlockSize : a + j - 1 = Len(p) - BlockSize + j
    BY <1>3
  <2> QED BY <1>2, <1>3, <2>1, <2>2, <2>3, BatchIsFull, Zenon DEF Newest
<1>5. left \in Seq(Int) /\ Len(left) = Len(p) - BlockSize
  BY <1>2, <1>3, BatchIsFull DEF Older
<1> HIDE DEF batch, left
<1>6. /\ Len(chain') = Len(chain) + 1
      /\ \A i \in 1..(Len(chain) + 1) : chain'[i] = IF i <= Len(chain) THEN chain[i] ELSE batch
  <2>1. chain' = Append(chain, batch) /\ chain \in Seq(Seq(Int)) /\ batch \in Seq(Int)
    BY <1>2, <1>3, <1>4, Zenon
  <2> QED BY <2>1, Appending
<1>7. LastOrdered' = LastOrdered + BlockSize
  <2>1. BlockSize * ((Len(chain) + 1) - 1) = BlockSize * (Len(chain) - 1) + BlockSize
    BY <1>3, SMTT(30)
  <2> QED BY <1>6, <2>1, Zenon DEF LastOrdered
<1>8. idx' > LastOrdered'
  BY <1>1, <1>2, <1>3, <1>7
<1>9. LedgerInOrder'
  <2>1. \A j \in 1..BlockSize : batch[j] = IF LastOrdered + j < 0 THEN nil ELSE LastOrdered + j
    <3> TAKE j \in 1..BlockSize
    <3>1. LastAdded(n) = LastOrdered + BlockSize
      BY <1>1, <1>3 DEF LastAdded
    <3>2. LastOrdered + j \in (LastOrdered + 1)..LastAdded(n)
      BY <1>3, <3>1
    <3>3. p[Len(p) - (LastAdded(n) - (LastOrdered + j))]
            = IF LastOrdered + j < 0 THEN nil ELSE LastOrdered + j
      BY <3>2, Zenon DEF PaceInv, Paced, PoolInOrder
    <3>4. Len(p) - (LastAdded(n) - (LastOrdered + j)) = Len(p) - BlockSize + j
      BY <1>3, <3>1
    <3> QED BY <1>4, <3>3, <3>4
  <2>2. ASSUME NEW i \in 1..Len(chain'), NEW j \in 1..BlockSize
        PROVE  chain'[i][j] = IF (i - 2) * BlockSize + j < 0 THEN nil ELSE (i - 2) * BlockSize + j
    <3>1. CASE i \in 1..Len(chain)
      <4>1. chain'[i] = chain[i]
        BY <1>3, <1>6, <3>1
      <4>2. LedgerInOrder
        BY Zenon DEF PaceInv
      <4> QED BY <3>1, <4>1, <4>2, Zenon DEF LedgerInOrder
    <3>2. CASE i = Len(chain) + 1
      <4>1. chain'[i] = batch
        <5>1. i \in 1..(Len(chain) + 1) /\ ~(i <= Len(chain))
          BY <1>3, <3>2
        <5> QED BY <1>6, <5>1
      <4>2. (i - 2) * BlockSize = LastOrdered
        <5>1. \A k \in Int : k * BlockSize = BlockSize * k
          BY <1>3
        <5>2. i - 2 = Len(chain) - 1 /\ Len(chain) - 1 \in Int
          BY <1>3, <3>2
        <5> QED BY <5>1, <5>2, Zenon DEF LastOrdered
      <4> QED BY <2>1, <4>1, <4>2, Zenon
    <3> QED BY <1>3, <1>6, <3>1, <3>2
  <2> QED BY <2>2, Zenon DEF LedgerInOrder
<1>10. ASSUME NEW m \in Replica PROVE Paced(m)'
  <2>1. Paced(m)
    BY Zenon DEF PaceInv
  <2>2. UnderWay(m)' = UnderWay(m) /\ Before(m)' = Before(m) /\ LastAdded(m)' = LastAdded(m)
    BY <1>2, Zenon DEF UnderWay, Before, LastAdded
  <2>3. /\ LastAdded(m) \in Int /\ Len(pendingCommands[m]) \in Nat
    BY PaceTypes, Zenon
  <2>4. CASE m # n
    <3>1. proposing'[m] = proposing[m] /\ pendingCommands'[m] = pendingCommands[m]
      BY <1>2, <1>3, <2>4 DEF Dec
    <3>2. OneUnderWay(m)'
      BY <1>2, <2>1, <2>2, <3>1, Zenon DEF Paced, OneUnderWay
    <3>3. Stage(m)'
      BY <1>2, <2>1, <2>2, <3>1, Zenon DEF Paced, Stage, Unstarted, InRound, BetweenRounds
    <3>4. (LastOrdered' + 1)..LastAdded(m) \subseteq (LastOrdered + 1)..LastAdded(m)
      BY <1>3, <1>7, <2>3
    <3>5. Len(pendingCommands[m]) >= LastAdded(m) - LastOrdered'
      BY <1>3, <1>7, <2>1, <2>3 DEF Paced, PoolInOrder
    <3>6. PoolInOrder(m)'
      BY <2>1, <2>2, <3>1, <3>4, <3>5, Zenon DEF Paced, PoolInOrder
    <3> QED BY <3>2, <3>3, <3>6, Zenon DEF Paced
  <2>5. CASE m = n
    <3>1. proposing'[n] = proposing[n] - 1 /\ pendingCommands'[n] = left /\ proposing[n] \in Nat
      BY <1>2, <1>3, Zenon DEF Dec
    <3>2. OneUnderWay(n)'
      BY <1>1, <1>2, <2>1, <2>2, <2>5, Zenon DEF Paced, OneUnderWay
    <3>3. InRound(n)'
      BY <1>1, <1>2, <1>3, <2>2, <2>5, <3>1, Zenon DEF InRound
    <3>4. LastAdded(n) = LastOrdered'
      <4>1. LastAdded(n) = idx - 1
        BY <1>1, Zenon DEF LastAdded
      <4> QED BY <1>1, <1>3, <1>7, <4>1, SMTT(30)
    <3>5. Len(left) >= LastAdded(n) - LastOrdered' /\ (LastOrdered' + 1)..LastAdded(n) = {}
      BY <1>2, <1>3, <1>5, <1>7, <3>4
    <3>6. PoolInOrder(n)'
      BY <2>2, <2>5, <3>1, <3>5, Zenon DEF PoolInOrder
    <3> QED BY <2>5, <3>2, <3>3, <3>6, Zenon DEF Paced, Stage
  <2> QED BY <2>4, <2>5, Zenon
<1> QED BY <1>8, <1>9, <1>10, Zenon DEF PaceInv

\* A leader that has nothing to propose, and the end of a round.
LEMMA PaceTimer ==
  ASSUME LoopInv, PaceInv, NEW n \in Replica,
         startWithoutProposal(n) \/ timerFires(n) \/ callbackEnds(n)
  PROVE  PaceInv'
<1>1. UNCHANGED <<paced, idx, sending, chain, inbox, adding, pendingCommands, gcallFuncFinish,
                  clearing, receiving, firstStarts>>
  BY Zenon DEF startWithoutProposal, noBatch, timerFires, callback, callbackEnds, notify,
     goVars, timerVars, blockVars, clientVars, streamVars
<1>2. /\ proposing \in [Replica -> Nat] /\ armed \in [Replica -> Nat]
      /\ finishing \in [Replica -> Nat] /\ view \in [Replica -> Nat]
  BY DEF LoopInv, RoundTypes
<1>3. /\ Before(n) \in Nat /\ BlockSize \in Nat \ {0} /\ idx \in Nat /\ view[n] \in Nat
      /\ armed[n] \in Nat /\ finishing[n] \in Nat /\ SyncChannel[n] \in Nat
      /\ firstStarts[n] \in Nat /\ clearing[n] \in Nat /\ proposing[n] \in Nat
      /\ receiving[n] \in Nat
      /\ armed[n] + finishing[n] + SyncChannel[n] = firstStarts[n]
      /\ firstStarts[n] <= 1
  BY PaceTypes, Zenon
<1>4. UnderWay(n)' = UnderWay(n) /\ LastAdded(n)' = LastAdded(n) /\ LastOrdered' = LastOrdered
  BY <1>1, Zenon DEF UnderWay, LastAdded, LastOrdered
<1>5. PoolInOrder(n) => PoolInOrder(n)'
  BY <1>1, <1>4, Zenon DEF PoolInOrder
<1>6. CASE startWithoutProposal(n)
  <2>1. /\ proposing[n] > 0 /\ proposing' = Dec(proposing, n)
        /\ UNCHANGED <<view, armed, finishing>>
    BY <1>6, Zenon DEF startWithoutProposal, noBatch,
       goVars, timerVars, blockVars, clientVars, streamVars
  <2>2. \A m \in Replica \ {n} : SameAt(m)
    BY <1>1, <1>2, <2>1, Zenon DEF SameAt, Dec
  <2>3. ASSUME paced, Paced(n) PROVE Paced(n)'
    <3>1. proposing[n] # 0 /\ proposing'[n] = proposing[n] - 1 /\ Before(n)' = Before(n)
      BY <1>2, <2>1 DEF Dec, Before
    <3>2. InRound(n) /\ ~UnderWay(n)
      BY <2>3, <3>1, Zenon DEF Paced, OneUnderWay, Stage, Unstarted, BetweenRounds
    <3>3. InRound(n)'
      <4>0. clearing[n] \in Nat /\ proposing[n] \in Nat /\ proposing[n] > 0
        BY <1>3, <2>1, Zenon
      <4>1. clearing[n] + proposing[n] > 0
        BY <4>0
      <4>2. idx = Before(n) + 1
        BY <3>2, <4>1, Zenon DEF InRound
      <4> QED BY <1>1, <2>1, <3>1, <3>2, <4>2, Zenon DEF InRound
    <3>4. OneUnderWay(n)'
      BY <1>1, <1>4, <2>3, <3>2, Zenon DEF Paced, OneUnderWay
    <3> QED BY <1>5, <2>3, <3>3, <3>4, Zenon DEF Paced, Stage
  <2> QED BY <1>1, <2>2, <2>3, PaceLocal
<1>7. CASE timerFires(n)
  <2>0. armed[n] > 0
    <3>1. armed[n] > unread[n]
      BY <1>7, Zenon DEF timerFires, callback
    <3>2. unread[n] \in 0..1
      BY DEF LoopInv, RoundTypes
    <3> QED BY <1>3, <3>1, <3>2
  <2>1. /\ proposing[n] = 0 /\ MayFire(n) /\ armed[n] > 0
        /\ armed' = Dec(armed, n) /\ finishing' = Inc(finishing, n)
        /\ view' = Inc(view, n) \/ view' = view
        /\ UNCHANGED proposing
    BY <1>7, <2>0, Zenon DEF timerFires, callback, goVars, timerVars, blockVars, clientVars,
       streamVars
  <2>2. \A m \in Replica \ {n} : SameAt(m)
    BY <1>1, <1>2, <2>1, Zenon DEF SameAt, Inc, Dec
  <2>3. ASSUME paced, Paced(n) PROVE Paced(n)'
    <3>1. Quiet /\ idx = BlockSize * view[n]
      BY <2>1, <2>3, Zenon DEF MayFire
    <3>2. idx = Before(n) + BlockSize
      BY <3>1, NextOrdered, Zenon
    <3>3. ~UnderWay(n) /\ clearing[n] = 0 /\ receiving[n] = 0
      <4>1. clearing[n] + receiving[n] = 0 /\ ~UnderWay(n)
        BY <3>1, Zenon DEF Quiet, UnderWay
      <4>2. clearing[n] \in Nat /\ receiving[n] \in Nat
        BY <1>3, Zenon
      <4> QED BY <4>1, <4>2
    <3>4. armed[n] = 1 /\ armed'[n] = 0 /\ firstStarts[n] = 1
      BY <1>2, <1>3, <2>1 DEF Dec
    <3>5. InRound(n) /\ ~gcallFuncFinish[n]
      <4>0. armed[n] # 0 /\ firstStarts[n] # 0
        BY <3>4
      <4>1. InRound(n)
        BY <2>3, <4>0, Zenon DEF Paced, Stage, Unstarted, BetweenRounds
      <4>2. clearing[n] # 1
        BY <3>3
      <4> QED BY <4>1, <4>2, Zenon DEF InRound
    <3>6. idx' \in {Before(n)', Before(n)' + BlockSize}
      <4>1. CASE view' = view
        BY <1>1, <3>2, <4>1, Zenon DEF Before
      <4>2. CASE view' = Inc(view, n)
        <5>1. view'[n] = view[n] + 1
          BY <1>2, <4>2, ZenonT(30) DEF Inc
        <5>2. BlockSize * ((view[n] + 1) - 1) = BlockSize * view[n]
          BY <1>3
        <5> QED BY <1>1, <3>1, <5>1, <5>2, Zenon DEF Before
      <4> QED BY <2>1, <4>1, <4>2, Zenon
    <3>7. BetweenRounds(n)'
      BY <1>1, <1>4, <2>1, <3>3, <3>4, <3>5, <3>6, Zenon DEF BetweenRounds
    <3>8. OneUnderWay(n)'
      BY <1>1, <1>4, <2>3, <3>3, Zenon DEF Paced, OneUnderWay
    <3> QED BY <1>5, <2>3, <3>7, <3>8, Zenon DEF Paced, Stage
  <2> QED BY <1>1, <2>2, <2>3, PaceLocal
<1>8. CASE callbackEnds(n)
  <2>1. /\ finishing[n] > 0 /\ finishing' = Dec(finishing, n)
        /\ UNCHANGED <<view, armed, proposing>>
    BY <1>8, Zenon DEF callbackEnds, notify, goVars, timerVars, blockVars, clientVars, streamVars
  <2>2. \A m \in Replica \ {n} : SameAt(m)
    BY <1>1, <1>2, <2>1, Zenon DEF SameAt, Dec
  <2>3. ASSUME paced, Paced(n) PROVE Paced(n)'
    <3>1. finishing[n] # 0 /\ firstStarts[n] # 0 /\ armed[n] # 1 /\ Before(n)' = Before(n)
      <4>1. finishing[n] > 0 /\ Before(n)' = Before(n)
        BY <2>1, Zenon DEF Before
      <4>2. /\ armed[n] \in Nat /\ finishing[n] \in Nat /\ SyncChannel[n] \in Nat
            /\ armed[n] + finishing[n] + SyncChannel[n] = firstStarts[n] /\ firstStarts[n] <= 1
        BY <1>3, Zenon
      <4> QED BY <4>1, <4>2
    <3>2. BetweenRounds(n)
      BY <2>3, <3>1, Zenon DEF Paced, Stage, Unstarted, InRound
    <3>3. BetweenRounds(n)'
      BY <1>1, <1>4, <2>1, <3>1, <3>2, Zenon DEF BetweenRounds
    <3>4. OneUnderWay(n)'
      BY <1>1, <1>4, <2>1, <2>3, Zenon DEF Paced, OneUnderWay
    <3> QED BY <1>5, <2>3, <3>3, <3>4, SMTT(30) DEF Paced, Stage
  <2> QED BY <1>1, <2>2, <2>3, PaceLocal
<1> QED BY <1>6, <1>7, <1>8
===============================================================================
