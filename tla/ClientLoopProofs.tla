--------------------------- MODULE ClientLoopProofs ---------------------------
(***************************************************************************)
(* Round starts and the client's loop, for any number of replicas, any     *)
(* size of blocks and any pool: module RoundStart conserves its tokens,    *)
(* module ClientLoop implements it, and a replica has one round at a time. *)
(***************************************************************************)
EXTENDS ClientLoop, TLAPS

-------------------------------------------------------------------------------
\* Tokens.

\* The counters are natural numbers, and a timer that nobody waits for yet is
\* one that will call back.
RoundTypes ==
  /\ view \in [Replica -> Nat]
  /\ gcallFuncFinish \in [Replica -> BOOLEAN]
  /\ SyncChannel \in [Replica -> Nat]
  /\ clearing \in [Replica -> Nat]
  /\ receiving \in [Replica -> Nat]
  /\ proposing \in [Replica -> Nat]
  /\ armed \in [Replica -> Nat]
  /\ unread \in [Replica -> 0..1]
  /\ spawned \in [Replica -> Nat]
  /\ finishing \in [Replica -> Nat]
  /\ firstStarts \in [Replica -> Nat]
  /\ \A n \in Replica : unread[n] <= armed[n]

\* A counter stays one when it is counted up, and down if it is not zero.
LEMMA Counting ==
  ASSUME NEW f \in [Replica -> Nat], NEW n \in Replica
  PROVE  /\ Inc(f, n) \in [Replica -> Nat]
         /\ f[n] > 0 => Dec(f, n) \in [Replica -> Nat]
BY DEF Inc, Dec

\* What Timer.Start does to the timers and the goroutines that wait for them.
LEMMA StartTypes ==
  ASSUME RoundTypes, NEW n \in Replica, startConsensusTimer(n)
  PROVE  /\ armed' \in [Replica -> Nat] /\ unread' \in [Replica -> 0..1]
         /\ spawned' \in [Replica -> Nat] /\ proposing' \in [Replica -> Nat]
         /\ \A m \in Replica : unread'[m] <= armed'[m]
<1>1. /\ armed[n] \in Nat /\ unread[n] \in 0..1 /\ armed[n] + 1 - unread[n] \in Nat
      /\ armed[n] + 1 - unread[n] >= 1
  BY DEF RoundTypes
<1>2. /\ armed' \in [Replica -> Nat] /\ unread' \in [Replica -> 0..1]
      /\ \A m \in Replica : unread'[m] <= armed'[m]
  BY <1>1, SMTT(30) DEF RoundTypes, startConsensusTimer
<1> QED
  BY <1>2, Counting, SMTT(30) DEF RoundTypes, startConsensusTimer

\* No step of a round takes a counter below zero.
LEMMA RoundTypesStep ==
  ASSUME RoundTypes, NEW n \in Replica, RoundStep(n)
  PROVE  RoundTypes'
<1> USE DEF RoundTypes, timerVars, goVars
<1>0. /\ \A f \in [Replica -> Nat] : Inc(f, n) \in [Replica -> Nat]
      /\ \A f \in [Replica -> Nat] : f[n] > 0 => Dec(f, n) \in [Replica -> Nat]
  BY Counting, Zenon
<1>1. ASSUME NEW cmd, receiveCommand(n, cmd) PROVE RoundTypes'
  BY <1>1 DEF receiveCommand
<1>2. ASSUME NEW cmd, insufficientCommands(n, cmd) PROVE RoundTypes'
  BY <1>2, Zenon DEF insufficientCommands
<1>3. ASSUME NEW cmd, firstStart(n, cmd) PROVE RoundTypes'
  BY <1>0, <1>3, StartTypes, Zenon DEF firstStart
<1>4. ASSUME NEW cmd, laterCommand(n, cmd) PROVE RoundTypes'
  BY <1>0, <1>4, Zenon DEF laterCommand, checkSync
<1>5. CASE clearFirst(n)
  BY <1>0, <1>5 DEF clearFirst, checkSync
<1>6. CASE receiveSync(n)
  <2>1. SyncChannel[n] > 0
    BY <1>6 DEF receiveSync
  <2> QED
    BY <1>0, <1>6, <2>1, StartTypes, Zenon DEF receiveSync
<1>7. CASE takeBatch(n) \/ noBatch(n)
  BY <1>0, <1>7, Zenon DEF takeBatch, noBatch
<1>8. ASSUME NEW c \in BOOLEAN, callback(n, c) PROVE RoundTypes'
  <2>1. armed' \in [Replica -> Nat] /\ \A m \in Replica : unread'[m] <= armed'[m]
    BY <1>8 DEF callback, Dec
  <2> QED
    BY <1>0, <1>8, <2>1 DEF callback
<1>9. CASE notify(n)
  BY <1>0, <1>9 DEF notify
<1>10. CASE readTimer(n)
  <2>1. unread' \in [Replica -> 0..1] /\ \A m \in Replica : unread'[m] <= armed'[m]
    BY <1>10 DEF readTimer
  <2> QED
    BY <1>0, <1>10, <2>1 DEF readTimer
<1> QED
  BY <1>1, <1>2, <1>3, <1>4, <1>5, <1>6, <1>7, <1>8, <1>9, <1>10
  DEF RoundStep, addCmdsAndStartTimerIfSufficientCommands

\* Every step that arms a timer takes a token or is a first start, and leaves at
\* least one timer that calls back; every timer becomes a callback and then a
\* token again.
LEMMA TokensStep ==
  ASSUME RoundTypes, TokenConservation, NEW n \in Replica, RoundStep(n)
  PROVE  TokenConservation'
<1> USE DEF RoundTypes, TokenConservation, timerVars, goVars
<1>0. ASSUME startConsensusTimer(n)
      PROVE  /\ \A m \in Replica \ {n} : armed'[m] = armed[m]
             /\ armed'[n] \in 1..(armed[n] + 1)
  BY <1>0 DEF startConsensusTimer
<1>1. ASSUME UNCHANGED <<SyncChannel, armed, finishing, firstStarts>>
      PROVE  TokenConservation'
  BY <1>1
<1>2. ASSUME NEW cmd, receiveCommand(n, cmd) \/ insufficientCommands(n, cmd)
                      \/ laterCommand(n, cmd)
      PROVE  TokenConservation'
  BY <1>1, <1>2, Zenon DEF receiveCommand, insufficientCommands, laterCommand
<1>3. ASSUME NEW cmd, firstStart(n, cmd) PROVE TokenConservation'
  <2>1. UNCHANGED <<SyncChannel, finishing>> /\ firstStarts' = Inc(firstStarts, n)
    BY <1>3 DEF firstStart
  <2>2. startConsensusTimer(n)
    BY <1>3 DEF firstStart
  <2> QED
    BY <1>0, <2>1, <2>2 DEF Inc
<1>4. CASE clearFirst(n) \/ takeBatch(n) \/ noBatch(n) \/ readTimer(n)
  BY <1>1, <1>4, Zenon DEF clearFirst, takeBatch, noBatch, readTimer
<1>5. CASE receiveSync(n)
  <2>1. /\ UNCHANGED <<firstStarts, finishing>> /\ SyncChannel' = Dec(SyncChannel, n)
        /\ SyncChannel[n] = 1 /\ startConsensusTimer(n)
    BY <1>5 DEF receiveSync
  <2> QED
    BY <1>0, <2>1 DEF Dec
<1>6. ASSUME NEW c \in BOOLEAN, callback(n, c) PROVE TokenConservation'
  BY <1>6 DEF Inc, Dec, callback
<1>7. CASE notify(n)
  BY <1>7 DEF Inc, Dec, notify
<1> QED
  BY <1>2, <1>3, <1>4, <1>5, <1>6, <1>7
  DEF RoundStep, addCmdsAndStartTimerIfSufficientCommands

\* In the beginning there are no timers and no tokens.
LEMMA RoundsInit == RoundInit => RoundTypes /\ TokenConservation
BY DEF RoundInit, RoundTypes, TokenConservation

\* For any number of replicas, any pool and any interleaving of the commands'
\* and the timers' goroutines, raced first starts included, a replica that has
\* started keeps a timer, a callback or a token, and has no more of them than
\* first starts (command.go, addCmdsAndStartTimerIfSufficientCommands; timer.go,
\* Start; client.go, callback).
THEOREM RoundsConserveTokens == RoundSpec => []TokenConservation
<1> DEFINE Inv == RoundTypes /\ TokenConservation
<1>1. Inv /\ [\E n \in Replica : RoundStep(n)]_roundVars => Inv'
  <2>1. ASSUME Inv, UNCHANGED roundVars PROVE Inv'
    BY <2>1 DEF roundVars, timerVars, goVars, RoundTypes, TokenConservation
  <2> QED
    BY <2>1, RoundTypesStep, TokensStep
<1> QED
  BY RoundsInit, <1>1, PTL DEF RoundSpec

-------------------------------------------------------------------------------
\* The loop.

\* The types of commands and blocks.
DataTypes ==
  /\ pendingCommands \in [Replica -> Seq(Int)]
  /\ adding \in [Replica -> SUBSET Int]
  /\ head \in [Replica -> Nat]
  /\ chain \in Seq(Seq(Int))
  /\ idx \in Nat
  /\ sending \in SUBSET Int
  /\ inbox \in [Replica -> Seq(Int)]
  /\ ackStream \in [Replica -> Seq(Nat)]
  /\ toSend \in Nat

\* Blocks are full, and the client hears of and commits only certified ones.
Blocks ==
  /\ \A i \in 1..Len(chain) : Len(chain[i]) = BlockSize
  /\ \A n \in Replica : \A i \in 1..Len(ackStream[n]) : ackStream[n][i] \in 1..Len(chain)
  /\ commitMap \subseteq 1..Len(chain)

\* A replica is in the view of the last certified block or in the next one; its
\* head is the last certified block, or an uncertified one of its own in that
\* next view; the leader of the last certified block waits for its timer.
ViewOf(n) ==
  /\ view[n] >= 1
  /\ view[n] = Len(chain) \/ view[n] = Len(chain) + 1
  /\ head[n] = Len(chain) \/ (head[n] = Len(chain) + 1 /\ view[n] = Len(chain) + 1)
  /\ proposing[n] > 0 => leader(n) = n
  /\ view[n] = Len(chain) /\ leader(n) = n => armed[n] = 1 /\ proposing[n] = 0

Views == \A n \in Replica : ViewOf(n)

\* There is at most one first start.
OneStart ==
  \A n \in Replica :
    /\ firstStarts[n] <= 1
    /\ clearing[n] = IF gcallFuncFinish[n] THEN firstStarts[n] ELSE 0
    /\ proposing[n] <= armed[n]

LoopInv ==
  RoundTypes /\ TokenConservation /\ DataTypes /\ Blocks /\ Views /\ OneStart

\* The program starts in the invariant.
LEMMA LoopInvInit == ClientInit => LoopInv
<1> SUFFICES ASSUME ClientInit PROVE LoopInv
  OBVIOUS
<1>1. RoundTypes /\ TokenConservation
  BY RoundsInit DEF ClientInit
<1>2. DataTypes
  BY InitialPoolAssumption DEF ClientInit, RoundInit, DataTypes, nil
<1>3. Blocks
  BY DEF ClientInit, Blocks
<1>4. Views /\ OneStart
  BY DEF ClientInit, RoundInit, Views, ViewOf, OneStart
<1> QED
  BY <1>1, <1>2, <1>3, <1>4 DEF LoopInv

\* A step of the program is a step of RoundStep, or none, for the rounds.
LEMMA StepIsRoundStep ==
  ASSUME DataTypes, ClientNext
  PROVE  (\E n \in Replica : RoundStep(n)) \/ UNCHANGED roundVars
<1>1. CASE clientStep
  BY <1>1 DEF clientStep, sendFirst, sendCommandToServer, handleVotes, sendNew
<1>2. ASSUME NEW n \in Replica, replicaStep(n) PROVE RoundStep(n)
  <2>1. CASE ClientMsgHandler(n)
    <3>1. PICK k \in 1..Len(inbox[n]) : receiveCommand(n, inbox[n][k])
      BY <2>1, Zenon DEF ClientMsgHandler
    <3>2. inbox[n][k] \in adding'[n]
      BY <3>1 DEF receiveCommand, DataTypes
    <3> QED
      BY <3>1, <3>2 DEF RoundStep
  <2>2. CASE handleCommand(n) \/ Propose(n) \/ startWithoutProposal(n)
             \/ timerGoroutine(n) \/ callbackEnds(n)
    BY <2>2 DEF handleCommand, Propose, startWithoutProposal, timerGoroutine, callbackEnds,
      RoundStep
  <2>3. CASE timerFires(n)
    <3>1. Certified(view[n]) \in BOOLEAN
      BY DEF Certified
    <3>2. callback(n, Certified(view[n]))
      BY <2>3 DEF timerFires
    <3> HIDE DEF Certified
    <3> QED
      BY <3>1, <3>2 DEF RoundStep
  <2> QED
    BY <1>2, <2>1, <2>2, <2>3 DEF replicaStep
<1> QED
  BY <1>1, <1>2 DEF ClientNext

\* The rounds' own invariants hold in the loop.
LEMMA LoopTokensStep ==
  ASSUME LoopInv, [ClientNext]_loopVars
  PROVE  RoundTypes' /\ TokenConservation'
<1>1. (\E n \in Replica : RoundStep(n)) \/ UNCHANGED roundVars
  BY StepIsRoundStep DEF LoopInv, loopVars
<1>2. CASE UNCHANGED roundVars
  BY <1>2 DEF LoopInv, roundVars, timerVars, goVars, RoundTypes, TokenConservation
<1> QED
  BY <1>1, <1>2, RoundTypesStep, TokensStep DEF LoopInv

\* While there is one first start, there is one timer, callback or token.
LEMMA OneToken ==
  ASSUME LoopInv, NEW n \in Replica
  PROVE  /\ armed[n] + finishing[n] + SyncChannel[n] = firstStarts[n]
         /\ armed[n] = 0 => unread[n] = 0
<1>1. /\ armed[n] \in Nat /\ finishing[n] \in Nat /\ SyncChannel[n] \in Nat
      /\ firstStarts[n] \in Nat /\ unread[n] \in 0..1 /\ unread[n] <= armed[n]
  BY DEF LoopInv, RoundTypes
<1>2. /\ armed[n] + finishing[n] + SyncChannel[n] <= firstStarts[n]
      /\ firstStarts[n] > 0 => armed[n] + finishing[n] + SyncChannel[n] > 0
      /\ firstStarts[n] <= 1
  BY Zenon DEF LoopInv, TokenConservation, OneStart
<1> QED
  BY <1>1, <1>2

\* A round starts when the replica's last one is over.
LEMMA StartsIdle ==
  ASSUME LoopInv, NEW n \in Replica, handleCommand(n),
         (\E cmd : firstStart(n, cmd)) \/ receiveSync(n)
  PROVE  /\ armed[n] = 0 /\ unread[n] = 0
         /\ \A cmd : firstStart(n, cmd) => clearing[n] = 0 /\ firstStarts[n] = 0
<1>1. /\ armed[n] + finishing[n] + SyncChannel[n] = firstStarts[n]
      /\ armed[n] = 0 => unread[n] = 0
  BY OneToken
<1>2. /\ firstStarts[n] <= 1
      /\ gcallFuncFinish[n] => clearing[n] = firstStarts[n]
      /\ armed[n] \in Nat /\ finishing[n] \in Nat /\ SyncChannel[n] \in Nat
      /\ firstStarts[n] \in Nat
  BY Zenon DEF LoopInv, OneStart, RoundTypes
<1>3. ASSUME NEW cmd, firstStart(n, cmd) PROVE clearing[n] = 0 /\ firstStarts[n] = 0
  <2>1. clearing' = [clearing EXCEPT ![n] = clearing[n] + 1] /\ gcallFuncFinish[n]
    BY <1>3 DEF firstStart, Inc
  <2>2. clearing[n] > 0 => clearing'[n] < clearing[n]
    BY Zenon DEF handleCommand
  <2>3. clearing \in [Replica -> Nat]
    BY DEF LoopInv, RoundTypes
  <2> QED
    BY <1>2, <2>1, <2>2, <2>3
<1>4. ASSUME receiveSync(n) PROVE SyncChannel[n] = 1
  BY <1>4, Zenon DEF receiveSync
<1>5. armed[n] = 0
  BY <1>1, <1>2, <1>3, <1>4
<1> QED
  BY <1>1, <1>3, <1>5

\* What the leader proposes is BlockSize commands, and what is left of its pool
\* is a pool.
LEMMA BatchIsFull ==
  ASSUME NEW s \in Seq(Int), Len(s) >= BlockSize
  PROVE  /\ Newest(s, BlockSize) \in Seq(Int) /\ Len(Newest(s, BlockSize)) = BlockSize
         /\ Older(s, BlockSize) \in Seq(Int)
BY BlockSizeAssumption DEF Newest, Older

\* What Append does to a sequence.
LEMMA Appending ==
  ASSUME NEW S, NEW s \in Seq(S), NEW e \in S
  PROVE  /\ Append(s, e) \in Seq(S) /\ Len(Append(s, e)) = Len(s) + 1
         /\ \A i \in 1..(Len(s) + 1) : Append(s, e)[i] = IF i <= Len(s) THEN s[i] ELSE e
OBVIOUS

\* A sequence of numbers up to k stays one when such a number is appended.
LEMMA AppendingBelow ==
  ASSUME NEW k \in Nat, NEW s \in Seq(Nat), NEW e \in 1..k,
         \A i \in 1..Len(s) : s[i] \in 1..k
  PROVE  /\ Append(s, e) \in Seq(Nat)
         /\ \A i \in 1..Len(Append(s, e)) : Append(s, e)[i] \in 1..k
BY Appending

\* A block is proposed by a replica in the first view without a certificate,
\* on the last certified block.
LEMMA ProposeOnTop ==
  ASSUME LoopInv, NEW n \in Replica, Propose(n)
  PROVE  /\ leader(n) = n /\ armed[n] = 1 /\ proposing[n] = 1
         /\ view[n] = Len(chain) + 1 /\ head[n] = Len(chain)
<1>1. /\ proposing[n] > 0 /\ head[n] <= Len(chain)
      /\ proposing[n] \in Nat /\ armed[n] \in Nat /\ finishing[n] \in Nat
      /\ SyncChannel[n] \in Nat /\ Len(chain) \in Nat
  BY DEF Propose, takeBatch, Certified, LoopInv, RoundTypes, DataTypes
<1>2. armed[n] <= 1 /\ proposing[n] <= armed[n]
  <2>1. /\ armed[n] + finishing[n] + SyncChannel[n] = firstStarts[n]
        /\ firstStarts[n] <= 1 /\ proposing[n] <= armed[n]
    BY OneToken, Zenon DEF LoopInv, OneStart
  <2> QED
    BY <1>1, <2>1
<1>3. leader(n) = n /\ view[n] = Len(chain) + 1 /\ head[n] = Len(chain)
  BY <1>1 DEF LoopInv, Views, ViewOf
<1> QED
  BY <1>1, <1>2, <1>3

\* A replica that acknowledges a block acknowledges the last certified one.
LEMMA AckIsCertified ==
  ASSUME LoopInv, NEW n \in Replica, Certified(view[n])
  PROVE  view[n] = Len(chain) /\ head[n] \in 1..Len(chain)
<1>1. view[n] <= Len(chain) /\ view[n] \in Nat /\ head[n] \in Nat /\ Len(chain) \in Nat
  BY DEF LoopInv, Certified, DataTypes, RoundTypes
<1>2. ViewOf(n)
  BY Zenon DEF LoopInv, Views
<1> QED
  BY <1>1, <1>2 DEF ViewOf

\* Types and blocks are preserved by the client's steps.
LEMMA ClientDataStep ==
  ASSUME LoopInv, clientStep
  PROVE  DataTypes' /\ Blocks'
<1> USE DEF LoopInv, DataTypes, Blocks, roundVars, goVars, blockVars, streamVars
<1>1. CASE sendFirst
  BY <1>1 DEF sendFirst
<1>2. ASSUME NEW cmd \in sending, sendCommandToServer(cmd) PROVE DataTypes' /\ Blocks'
  BY <1>2 DEF sendCommandToServer
<1>3. ASSUME NEW n \in Replica, handleVotes(n) PROVE DataTypes' /\ Blocks'
  <2> DEFINE h == Head(ackStream[n])
  <2>1. h \in 1..Len(chain) /\ ackStream[n] \in Seq(Nat) /\ ackStream[n] # <<>>
    BY <1>3 DEF handleVotes
  <2>2. ackStream' = [ackStream EXCEPT ![n] = Tail(@)]
    BY <1>3 DEF handleVotes
  <2>3. /\ ackStream' \in [Replica -> Seq(Nat)]
        /\ \A m \in Replica : \A i \in 1..Len(ackStream'[m]) : ackStream'[m][i] \in 1..Len(chain)
    <3>1. /\ ackStream \in [Replica -> Seq(Nat)]
          /\ \A m \in Replica : \A i \in 1..Len(ackStream[m]) : ackStream[m][i] \in 1..Len(chain)
      BY Zenon
    <3> HIDE DEF LoopInv, DataTypes, Blocks
    <3>2. /\ ackStream' \in [Replica -> Seq(Nat)] /\ ackStream'[n] = Tail(ackStream[n])
          /\ \A m \in Replica \ {n} : ackStream'[m] = ackStream[m]
      BY <2>1, <2>2, <3>1
    <3>3. \A i \in 1..Len(Tail(ackStream[n])) :
            i + 1 \in 1..Len(ackStream[n]) /\ Tail(ackStream[n])[i] = ackStream[n][i + 1]
      BY <2>1
    <3>4. ASSUME NEW m \in Replica, NEW i \in 1..Len(ackStream'[m])
          PROVE  ackStream'[m][i] \in 1..Len(chain)
      <4>1. CASE m = n
        BY <3>1, <3>2, <3>3, <4>1, Zenon
      <4>2. CASE m # n
        BY <3>1, <3>2, <4>2, Zenon
      <4> QED
        BY <4>1, <4>2
    <3> QED
      BY <3>2, <3>4, Zenon
  <2>4. toSend' \in Nat /\ commitMap' \subseteq 1..Len(chain)
    <3>1. Shipped(chain[h]) \in Nat
      BY <2>1, BlockSizeAssumption, SMTT(30) DEF Shipped
    <3> QED
      BY <1>3, <2>1, <3>1, Zenon DEF handleVotes
  <2> QED
    BY <1>3, <2>3, <2>4, Zenon DEF handleVotes
<1>4. CASE sendNew
  BY <1>4 DEF sendNew
<1> QED
  BY <1>1, <1>2, <1>3, <1>4, Zenon DEF clientStep

\* Types and blocks are preserved by the replicas' steps.
LEMMA ReplicaDataStep ==
  ASSUME LoopInv, NEW n \in Replica, replicaStep(n)
  PROVE  DataTypes' /\ Blocks'
<1> USE DEF LoopInv, DataTypes, Blocks, blockVars, clientVars, streamVars
<1>1. CASE ClientMsgHandler(n)
  <2>1. PICK k \in 1..Len(inbox[n]) :
          /\ receiveCommand(n, inbox[n][k])
          /\ inbox' = [inbox EXCEPT ![n] = SubSeq(@, k + 1, Len(@))]
    BY <1>1, Zenon DEF ClientMsgHandler
  <2>2. SubSeq(inbox[n], k + 1, Len(inbox[n])) \in Seq(Int)
    OBVIOUS
  <2>3. inbox' \in [Replica -> Seq(Int)]
    <3>1. inbox \in [Replica -> Seq(Int)]
      BY Zenon
    <3> HIDE DEF LoopInv, DataTypes, Blocks
    <3> QED
      BY <2>1, <2>2, <3>1, Zenon
  <2>4. adding' \in [Replica -> SUBSET Int] /\ UNCHANGED pendingCommands
    BY <2>1, SMTT(30) DEF receiveCommand
  <2> QED
    BY <1>1, <2>3, <2>4, Zenon DEF ClientMsgHandler
<1>2. CASE handleCommand(n)
  <2>1. \/ \E cmd \in adding[n] : addCmds(n, cmd)
        \/ UNCHANGED <<adding, pendingCommands>>
    BY <1>2 DEF handleCommand, addCmdsAndStartTimerIfSufficientCommands, clearFirst,
      receiveSync, insufficientCommands, firstStart, laterCommand
  <2>2. pendingCommands' \in [Replica -> Seq(Int)] /\ adding' \in [Replica -> SUBSET Int]
    <3>1. CASE UNCHANGED <<adding, pendingCommands>>
      BY <3>1
    <3>2. ASSUME NEW cmd \in adding[n], addCmds(n, cmd)
          PROVE  pendingCommands' \in [Replica -> Seq(Int)] /\ adding' \in [Replica -> SUBSET Int]
      <4>1. Append(pendingCommands[n], cmd) \in Seq(Int)
        BY Appending
      <4> QED
        BY <3>2, <4>1, Zenon DEF addCmds
    <3> QED
      BY <2>1, <3>1, <3>2
  <2> QED
    BY <1>2, <2>2 DEF handleCommand
<1>3. CASE Propose(n)
  <2>1. pendingCommands[n] \in Seq(Int) /\ Len(pendingCommands[n]) >= BlockSize
    BY <1>3, Zenon DEF Propose, takeBatch
  <2>2. pendingCommands' \in [Replica -> Seq(Int)] /\ UNCHANGED adding
    <3>1. Older(pendingCommands[n], BlockSize) \in Seq(Int)
      BY <2>1, BatchIsFull
    <3> QED
      BY <1>3, <3>1, Zenon DEF Propose, takeBatch, getCmdsIfSufficient
  <2>3. head' \in [Replica -> Nat]
    <3>1. \/ head' = [m \in Replica |-> head[n] + 1]
          \/ head' = [head EXCEPT ![n] = head[n] + 1]
      BY <1>3 DEF Propose
    <3>2. head[n] + 1 \in Nat
      OBVIOUS
    <3> QED
      BY <3>1, <3>2
  <2>4. /\ chain' \in Seq(Seq(Int)) /\ Len(chain') >= Len(chain)
        /\ \A i \in 1..Len(chain') : Len(chain'[i]) = BlockSize
    <3>1. CASE UNCHANGED chain
      BY <3>1
    <3>2. CASE chain' = Append(chain, Newest(pendingCommands[n], BlockSize))
      <4> DEFINE b == Newest(pendingCommands[n], BlockSize)
      <4>1. b \in Seq(Int) /\ Len(b) = BlockSize
        BY <2>1, BatchIsFull, Zenon
      <4> HIDE DEF b
      <4>2. /\ chain' \in Seq(Seq(Int)) /\ Len(chain') = Len(chain) + 1
            /\ \A i \in 1..(Len(chain) + 1) :
                 chain'[i] = IF i <= Len(chain) THEN chain[i] ELSE b
        BY <3>2, <4>1, Appending, SMTT(30) DEF b
      <4>3. ASSUME NEW i \in 1..Len(chain') PROVE Len(chain'[i]) = BlockSize
        <5>1. i \in 1..(Len(chain) + 1) /\ Len(chain) \in Nat
          BY <4>2
        <5>2. CASE i <= Len(chain)
          <6>1. i \in 1..Len(chain) /\ chain'[i] = chain[i]
            BY <4>2, <5>1, <5>2
          <6> QED
            BY <6>1, Zenon
        <5>3. CASE ~(i <= Len(chain))
          BY <4>1, <4>2, <5>1, <5>3
        <5> QED
          BY <5>2, <5>3
      <4> QED
        BY <4>2, <4>3
    <3> QED
      BY <1>3, <3>1, <3>2 DEF Propose
  <2>5. /\ \A m \in Replica : \A i \in 1..Len(ackStream[m]) : ackStream[m][i] \in 1..Len(chain')
        /\ commitMap \subseteq 1..Len(chain')
    <3>1. 1..Len(chain) \subseteq 1..Len(chain')
      BY <2>4
    <3> QED
      BY <3>1, Zenon
  <2> QED
    BY <1>3, <2>2, <2>3, <2>4, <2>5, Zenon DEF Propose
<1>4. CASE startWithoutProposal(n)
  BY <1>4, Zenon DEF startWithoutProposal, noBatch
<1>5. CASE timerFires(n)
  <2>1. UNCHANGED <<pendingCommands, adding>>
    BY <1>5 DEF timerFires, callback, goVars
  <2>2. /\ ackStream' \in [Replica -> Seq(Nat)]
        /\ \A m \in Replica : \A i \in 1..Len(ackStream'[m]) : ackStream'[m][i] \in 1..Len(chain)
    <3>1. CASE UNCHANGED ackStream
      BY <3>1
    <3>2. CASE Certified(view[n]) /\ ackStream' = [ackStream EXCEPT ![n] = Append(@, head[n])]
      <4>1. head[n] \in 1..Len(chain) /\ head[n] \in Nat
        BY <3>2, AckIsCertified, Zenon
      <4>2. /\ Append(ackStream[n], head[n]) \in Seq(Nat)
            /\ \A i \in 1..Len(Append(ackStream[n], head[n])) :
                 Append(ackStream[n], head[n])[i] \in 1..Len(chain)
        <5>1. /\ Len(chain) \in Nat /\ ackStream[n] \in Seq(Nat)
              /\ \A i \in 1..Len(ackStream[n]) : ackStream[n][i] \in 1..Len(chain)
          OBVIOUS
        <5> QED
          BY <4>1, <5>1, AppendingBelow, Zenon
      <4>3. \A m \in Replica : ackStream'[m] = IF m = n THEN Append(ackStream[n], head[n])
                                                      ELSE ackStream[m]
        BY <3>2
      <4>4. ackStream' \in [Replica -> Seq(Nat)]
        BY <3>2, <4>2
      <4> QED
        BY <4>2, <4>3, <4>4, Zenon
    <3> QED
      BY <1>5, <3>1, <3>2, Zenon DEF timerFires
  <2> QED
    BY <1>5, <2>1, <2>2, Zenon DEF timerFires
<1>6. CASE timerGoroutine(n) \/ callbackEnds(n)
  BY <1>6, Zenon DEF timerGoroutine, readTimer, callbackEnds, notify, goVars
<1> QED
  BY <1>1, <1>2, <1>3, <1>4, <1>5, <1>6, Zenon DEF replicaStep

\* There is no second first start: the goroutine of the first one clears the
\* flag before another command's goroutine reads it.
LEMMA OneStartStep ==
  ASSUME LoopInv, NEW n \in Replica, replicaStep(n)
  PROVE  OneStart'
<1> USE DEF LoopInv, RoundTypes, OneStart, timerVars, goVars
<1>1. CASE ClientMsgHandler(n)
  BY <1>1, Zenon DEF ClientMsgHandler, receiveCommand
<1>2. CASE handleCommand(n)
  <2>0. ASSUME startConsensusTimer(n), (\E cmd : firstStart(n, cmd)) \/ receiveSync(n)
        PROVE  \A m \in Replica : proposing'[m] <= armed'[m]
    <3>1. unread[n] = 0
      BY <1>2, <2>0, StartsIdle, Zenon
    <3> QED
      BY <2>0, <3>1 DEF startConsensusTimer, Inc
  <2>1. ASSUME NEW cmd, insufficientCommands(n, cmd) \/ laterCommand(n, cmd) PROVE OneStart'
    BY <2>1, Zenon DEF insufficientCommands, laterCommand
  <2>2. ASSUME NEW cmd, firstStart(n, cmd) PROVE OneStart'
    <3>1. clearing[n] = 0 /\ firstStarts[n] = 0
      BY <1>2, <2>2, StartsIdle, Zenon
    <3> QED
      <4>1. \A m \in Replica :
              /\ firstStarts'[m] = IF m = n THEN 1 ELSE firstStarts[m]
              /\ clearing'[m] = IF m = n THEN 1 ELSE clearing[m]
        BY <2>2, <3>1 DEF firstStart, Inc
      <4>2. gcallFuncFinish' = gcallFuncFinish /\ gcallFuncFinish[n]
        BY <2>2 DEF firstStart
      <4>3. \A m \in Replica : proposing'[m] <= armed'[m]
        <5>1. startConsensusTimer(n)
          BY <2>2 DEF firstStart
        <5> QED
          BY <2>0, <2>2, <5>1, Zenon
      <4> QED
        BY <4>1, <4>2, <4>3
  <2>3. CASE clearFirst(n)
    BY <2>3 DEF clearFirst, Dec
  <2>4. CASE receiveSync(n)
    BY <2>0, <2>4, Zenon DEF receiveSync
  <2> QED
    BY <1>2, <2>1, <2>2, <2>3, <2>4, Zenon DEF handleCommand, addCmdsAndStartTimerIfSufficientCommands
<1>3. CASE takeBatch(n) \/ noBatch(n)
  <2>1. proposing' = Dec(proposing, n)
    BY <1>3, Zenon DEF takeBatch, noBatch
  <2>2. UNCHANGED <<armed, firstStarts, clearing, gcallFuncFinish>>
    BY <1>3 DEF takeBatch, noBatch
  <2>3. \A m \in Replica : proposing'[m] <= armed'[m]
    BY <2>1, <2>2 DEF Dec
  <2> QED
    BY <2>2, <2>3
<1>4. CASE timerFires(n)
  <2>1. UNCHANGED <<proposing, firstStarts, clearing, gcallFuncFinish>> /\ proposing[n] = 0
    BY <1>4, Zenon DEF timerFires, callback
  <2>2. armed' = Dec(armed, n) /\ armed[n] > unread[n]
    BY <1>4, Zenon DEF timerFires, callback
  <2>3. \A m \in Replica : proposing'[m] <= armed'[m]
    BY <2>1, <2>2 DEF Dec
  <2> QED
    BY <2>1, <2>3, Zenon
<1>5. CASE notify(n) \/ readTimer(n)
  BY <1>5, Zenon DEF notify, readTimer
<1> QED
  BY <1>1, <1>2, <1>3, <1>4, <1>5, Zenon
  DEF replicaStep, Propose, startWithoutProposal, timerGoroutine, callbackEnds

\* A round that starts, starts in a view without a certificate if its replica
\* is the leader; a block is certified by its leader's own view; and a timer
\* moves a replica only to the view after the last certified block.
LEMMA ViewsStep ==
  ASSUME LoopInv, NEW n \in Replica, replicaStep(n)
  PROVE  Views'
<1> SUFFICES ASSUME NEW m \in Replica PROVE ViewOf(m)'
  BY DEF Views
<1> USE DEF timerVars, goVars, blockVars
<1>0. ViewOf(m) /\ ViewOf(n)
  BY DEF LoopInv, Views
<1>8. RoundTypes /\ head \in [Replica -> Nat]
  BY DEF LoopInv, DataTypes
<1>9. chain \in Seq(Seq(Int)) /\ Len(chain) \in Nat
  BY DEF LoopInv, DataTypes
<1>1. /\ view[m] \in Nat /\ head[m] \in Nat /\ armed[m] \in Nat /\ proposing[m] \in Nat
      /\ view[n] \in Nat /\ Len(chain) \in Nat
  BY <1>8, <1>9, Zenon DEF RoundTypes
<1>2. ASSUME view'[m] = view[m], proposing'[m] = proposing[m], armed'[m] = armed[m],
             head'[m] = head[m], chain' = chain
      PROVE  ViewOf(m)'
  BY <1>0, <1>2, Zenon DEF ViewOf, leader
<1>3. CASE ClientMsgHandler(n) \/ timerGoroutine(n) \/ callbackEnds(n)
  BY <1>2, <1>3, Zenon
  DEF ClientMsgHandler, receiveCommand, timerGoroutine, readTimer, callbackEnds, notify
<1>4. CASE handleCommand(n)
  <2>1. UNCHANGED <<view, head, chain>>
    BY <1>4, Zenon DEF handleCommand, addCmdsAndStartTimerIfSufficientCommands, insufficientCommands,
      laterCommand, firstStart, clearFirst, receiveSync
  <2>2. CASE UNCHANGED <<proposing, armed>>
    BY <1>2, <2>1, <2>2
  <2>3. CASE armed[n] = 0 /\ startConsensusTimer(n)
    <3>1. CASE m = n
      <4>1. proposing'[m] > 0 => leader(m) = m \/ proposing[m] > 0
        BY <2>3, <3>1, Zenon DEF startConsensusTimer
      <4>2. leader(m)' = leader(m)
        BY <2>1, Zenon DEF leader
      <4>3. /\ ~(view[m] = Len(chain) /\ leader(m) = m)
            /\ proposing[m] > 0 => leader(m) = m
        BY <1>0, <2>3, <3>1 DEF ViewOf
      <4>4. /\ view[m] >= 1 /\ (view[m] = Len(chain) \/ view[m] = Len(chain) + 1)
            /\ head[m] = Len(chain) \/ (head[m] = Len(chain) + 1 /\ view[m] = Len(chain) + 1)
        BY <1>0 DEF ViewOf
      <4> QED
        BY <2>1, <4>1, <4>2, <4>3, <4>4 DEF ViewOf
    <3>2. CASE m # n
      <4>1. proposing'[m] = proposing[m] /\ armed'[m] = armed[m]
        BY <1>8, <2>3, <3>2, Zenon DEF startConsensusTimer, Inc, RoundTypes
      <4> QED
        BY <1>2, <2>1, <4>1, Zenon
    <3> QED
      BY <3>1, <3>2, Zenon
  <2>4. (\E cmd : firstStart(n, cmd)) \/ receiveSync(n) => armed[n] = 0
    BY <1>4, StartsIdle, Zenon
  <2>7. \/ UNCHANGED <<proposing, armed>>
        \/ (\E cmd : firstStart(n, cmd)) /\ startConsensusTimer(n)
        \/ receiveSync(n) /\ startConsensusTimer(n)
    BY <1>4, Zenon DEF handleCommand, addCmdsAndStartTimerIfSufficientCommands, insufficientCommands,
      laterCommand, firstStart, clearFirst, receiveSync
  <2> QED
    BY <2>2, <2>3, <2>4, <2>7, Zenon
<1>5. CASE Propose(n)
  <2>1. /\ leader(n) = n /\ armed[n] = 1 /\ proposing[n] = 1
        /\ view[n] = Len(chain) + 1 /\ head[n] = Len(chain)
    BY <1>5, ProposeOnTop, Zenon
  <2>2. UNCHANGED <<view, armed>> /\ proposing' = Dec(proposing, n)
    BY <1>5 DEF Propose, takeBatch
  <2>3. proposing'[m] = IF m = n THEN 0 ELSE proposing[m]
    BY <1>8, <2>1, <2>2 DEF Dec, RoundTypes
  <2>4. leader(m)' = leader(m)
    BY <2>2, Zenon DEF leader
  <2>5. CASE \A k \in Replica : view[k] = view[n]
    <3>1. Newest(pendingCommands[n], BlockSize) \in Seq(Int)
      BY <1>5, BatchIsFull, Zenon DEF Propose, takeBatch, LoopInv, DataTypes
    <3>2. chain' = Append(chain, Newest(pendingCommands[n], BlockSize))
      BY <1>5, <2>5 DEF Propose
    <3>3. Len(chain') = Len(chain) + 1
      BY <1>9, <3>1, <3>2, Appending, Zenon
    <3>4. head'[m] = Len(chain) + 1
      BY <1>5, <2>1, <2>5 DEF Propose
    <3>5. leader(m) = n /\ view[m] = Len(chain) + 1
      BY <2>1, <2>5, Zenon DEF leader
    <3> QED
      BY <1>0, <1>1, <2>1, <2>2, <2>3, <2>4, <3>3, <3>4, <3>5, Zenon DEF ViewOf
  <2>6. CASE ~(\A k \in Replica : view[k] = view[n])
    <3>1. chain' = chain /\ head' = [head EXCEPT ![n] = head[n] + 1]
      BY <1>5, <2>6 DEF Propose
    <3>2. head'[m] = IF m = n THEN Len(chain) + 1 ELSE head[m]
      BY <1>8, <2>1, <3>1, Zenon
    <3>3. CASE m = n
      BY <1>1, <2>1, <2>2, <2>3, <2>4, <3>1, <3>2, <3>3 DEF ViewOf
    <3>4. CASE m # n
      BY <1>2, <2>2, <2>3, <3>1, <3>2, <3>4, Zenon
    <3> QED
      BY <3>3, <3>4
  <2> QED
    BY <2>5, <2>6
<1>6. CASE startWithoutProposal(n)
  <2>1. /\ UNCHANGED <<view, armed, head, chain>> /\ proposing' = Dec(proposing, n)
        /\ proposing[n] > 0
    BY <1>6 DEF startWithoutProposal, noBatch
  <2>2. proposing'[m] = IF m = n THEN proposing[m] - 1 ELSE proposing[m]
    BY <1>8, <2>1, Zenon DEF Dec, RoundTypes
  <2>3. leader(m)' = leader(m)
    BY <2>1, Zenon DEF leader
  <2>4. CASE m = n
    <3>2. proposing[m] > 0
      BY <2>1, <2>4, Zenon
    <3>3. leader(m) = m /\ view[m] # Len(chain)
      BY <1>0, <1>1, <3>2 DEF ViewOf
    <3> QED
      BY <1>0, <2>1, <2>3, <3>3, Zenon DEF ViewOf
  <2>5. CASE m # n
    BY <1>2, <2>1, <2>2, <2>5
  <2> QED
    BY <2>4, <2>5
<1>7. CASE timerFires(n)
  <2>1. /\ UNCHANGED <<proposing, head, chain>> /\ armed' = Dec(armed, n)
        /\ proposing[n] = 0
        /\ view' = IF Certified(view[n]) THEN Inc(view, n) ELSE view
    BY <1>7, Zenon DEF timerFires, callback
  <2>2. CASE m # n
    <3>1. view'[m] = view[m] /\ armed'[m] = armed[m]
      BY <1>8, <2>1, <2>2, Zenon DEF Inc, Dec, RoundTypes
    <3> QED
      BY <1>2, <2>1, <3>1, Zenon
  <2>3. CASE m = n
    <3>1. view[n] = Len(chain) \/ view[n] = Len(chain) + 1
      BY <1>0 DEF ViewOf
    <3>2. ASSUME view[n] = Len(chain) PROVE view'[n] = Len(chain) + 1
      <4>1. Certified(view[n])
        BY <1>1, <3>2 DEF Certified
      <4>2. view' = [view EXCEPT ![n] = view[n] + 1]
        BY <2>1, <4>1, Zenon DEF Inc
      <4> QED
        BY <1>8, <3>2, <4>2, Zenon DEF RoundTypes
    <3>3. ASSUME view[n] = Len(chain) + 1 PROVE view'[n] = Len(chain) + 1
      <4>1. ~Certified(view[n])
        BY <1>1, <3>3 DEF Certified
      <4> QED
        BY <2>1, <3>3, <4>1, Zenon
    <3>4. /\ view'[m] = Len(chain) + 1 /\ chain' = chain /\ head' = head
          /\ proposing'[m] = 0
      BY <2>1, <2>3, <3>1, <3>2, <3>3
    <3> QED
      BY <1>0, <1>1, <3>4 DEF ViewOf
  <2> QED
    BY <2>2, <2>3, Zenon
<1> QED
  BY <1>3, <1>4, <1>5, <1>6, <1>7 DEF replicaStep

\* The invariant holds in every behaviour of the loop.
LEMMA LoopInvariant == ClientSpec => []LoopInv
<1>1. ASSUME LoopInv, [ClientNext]_loopVars PROVE LoopInv'
  <2>1. RoundTypes' /\ TokenConservation'
    BY <1>1, LoopTokensStep, Zenon
  <2>2. CASE UNCHANGED loopVars
    BY <1>1, <2>1, <2>2 DEF LoopInv, loopVars, roundVars, timerVars, goVars, blockVars,
      clientVars, streamVars, DataTypes, Blocks, Views, ViewOf, OneStart, leader
  <2>3. CASE clientStep
    <3>1. UNCHANGED <<roundVars, blockVars>>
      BY <2>3, Zenon DEF clientStep, sendFirst, sendCommandToServer, handleVotes, sendNew
    <3>2. Views' /\ OneStart'
      BY <1>1, <3>1, Zenon DEF LoopInv, roundVars, timerVars, goVars, blockVars, Views, ViewOf, OneStart, leader
    <3> QED
      BY <1>1, <2>1, <2>3, <3>2, ClientDataStep, Zenon DEF LoopInv
  <2>4. ASSUME NEW n \in Replica, replicaStep(n) PROVE LoopInv'
    <3>1. DataTypes' /\ Blocks'
      BY <1>1, <2>4, ReplicaDataStep
    <3>2. Views' /\ OneStart'
      BY <1>1, <2>4, ViewsStep, OneStartStep
    <3> QED
      BY <2>1, <3>1, <3>2 DEF LoopInv
  <2> QED
    BY <1>1, <2>2, <2>3, <2>4 DEF ClientNext
<1> QED
  BY LoopInvInit, <1>1, PTL DEF ClientSpec

\* For any number of replicas, block size and pool: whatever the client sends
\* and when, the replicas' rounds are those of RoundStart (command.go;
\* client.go, callback).
THEOREM LoopImplementsRounds == ClientSpec => RoundSpec
<1>1. ClientInit => RoundInit
  BY DEF ClientInit
<1>2. LoopInv /\ [ClientNext]_loopVars => [\E n \in Replica : RoundStep(n)]_roundVars
  BY StepIsRoundStep, Zenon DEF LoopInv, loopVars
<1> QED
  BY LoopInvariant, <1>1, <1>2, PTL DEF ClientSpec, RoundSpec

\* For any number of replicas, block size and pool: unless two goroutines race
\* for the first start, a replica has one timer, callback or token at a time,
\* and a leader one proposal for each timer (command.go, SyncChannel).
THEOREM OneRoundAtATime == ClientSpec => []OneRound
<1>1. LoopInv => OneRound
  BY OneToken, Zenon DEF LoopInv, TokenConservation, OneStart, OneRound
<1> QED
  BY LoopInvariant, <1>1, PTL
===============================================================================
