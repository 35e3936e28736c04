------------------------------ MODULE ClientLoop ------------------------------
(***************************************************************************)
(* The client program (client/client.go) with the replicas' round starts.  *)
(* The client sends BlockSize commands, one every TxInterval, and as many  *)
(* again whenever it learns of a new block.  The acknowledgements cause    *)
(* the commands and the commands cause the rounds, so the loop runs only   *)
(* as long as no replica misses its next round's first command.            *)
(*                                                                         *)
(* A round is taken as a whole: SyncHS shows that a proposal is certified  *)
(* iff all the replicas are in the leader's view when they receive it.     *)
(***************************************************************************)
EXTENDS RoundStart, FiniteSets

CONSTANTS
  MaxBatch,      \* bound: batches of BlockSize commands the client sends
  MaxLateBatch,  \* bound: the same, when replicas are late
  Late,          \* bound: replicas that have several commands at a time
  MaxBacklog     \* bound: commands under way to or in a replica

VARIABLES
  paced,       \* the pace of the client fits that of the replicas
  head,        \* bc.Head of each replica
  chain,       \* the commands of the certified blocks
  idx,         \* commands built so far, not counting those in cmdChannel
  sending,     \* goroutines of sendCommandToServer
  timeMap,     \* commands whose time of sending is known
  inbox,       \* each replica's stream of commands
  ackStream,   \* each replica's stream of acknowledgements, by height
  voteMap,     \* votes of each height, a partial function
  commitMap,   \* heights the client has committed
  toSend,      \* commands that handleVotes has still to send for a block
  commitTimeMetric   \* commands that have a latency

blockVars == <<head, chain>>
clientVars == <<idx, sending, timeMap, voteMap, commitMap, toSend,
                commitTimeMetric>>
streamVars == <<inbox, ackStream>>
loopVars == <<roundVars, paced, blockVars, clientVars, streamVars>>

\* The number of acknowledgements below which a block is not committed.
faultNum == 0

ClientInit ==
  /\ RoundInit
  /\ paced \in BOOLEAN
  /\ head = [n \in Replica |-> 0]
  /\ chain = <<>>
  /\ idx = 0
  /\ sending = {}
  /\ timeMap = {}
  /\ inbox = [n \in Replica |-> <<>>]
  /\ ackStream = [n \in Replica |-> <<>>]
  /\ voteMap = <<>>
  /\ commitMap = {}
  /\ toSend = 0
  /\ commitTimeMetric = {}

-------------------------------------------------------------------------------
\* Pace.

\* All the replicas are done with all the commands sent so far.
Quiet ==
  /\ sending = {}
  /\ \A n \in Replica : /\ inbox[n] = <<>>
                        /\ adding[n] = {}
                        /\ proposing[n] = 0
                        /\ clearing[n] + receiving[n] = 0

Backlog(n) == Cardinality(sending) + Len(inbox[n]) + Cardinality(adding[n])

\* TxInterval is longer than the way of a command, and the callbacks of a
\* view are closer together than the way of an acknowledgement.
MaySend ==
  IF paced \/ idx < BlockSize
  THEN /\ Quiet
       /\ \A n \in Replica : /\ view[n] = Cardinality(commitMap) + 1
                             /\ finishing[n] = 0
  ELSE \A n \in Replica : Backlog(n) < IF n \in Late THEN MaxBacklog ELSE 1

\* A timer runs longer than the client takes to send a batch.
MayFire(n) == IF paced THEN Quiet /\ idx = BlockSize * view[n]
                       ELSE idx >= BlockSize

-------------------------------------------------------------------------------
\* The client.

\* main sends the first BlockSize commands.
sendFirst ==
  /\ idx < BlockSize
  /\ MaySend
  /\ sending' = sending \cup {idx}
  /\ idx' = idx + 1
  /\ UNCHANGED <<roundVars, paced, blockVars, streamVars, timeMap, voteMap,
                 commitMap, toSend, commitTimeMetric>>

sendCommandToServer(cmd) ==
  /\ cmd \in sending
  /\ sending' = sending \ {cmd}
  /\ timeMap' = timeMap \cup {cmd}
  /\ inbox' = [n \in Replica |-> Append(inbox[n], cmd)]
  /\ UNCHANGED <<roundVars, paced, blockVars, ackStream, idx, voteMap,
                 commitMap, toSend, commitTimeMetric>>

Votes(h) == IF h \in DOMAIN voteMap THEN voteMap[h] ELSE 0

CountVote(h) ==
  voteMap' = [i \in DOMAIN voteMap \cup {h} |->
                IF i = h THEN Votes(h) + 1 ELSE voteMap[i]]

\* The commands that are sent for a new block: as many as it holds, and one for
\* an empty block.
Shipped(b) == IF Len(b) = 0 THEN 1 ELSE Len(b)

\* Mutant: every acknowledgement has its commands sent.
ShipForEveryAck(n) ==
  /\ toSend = 0
  /\ ackStream[n] # <<>>
  /\ LET h == Head(ackStream[n])
     IN /\ ackStream' = [ackStream EXCEPT ![n] = Tail(@)]
        /\ CountVote(h)
        /\ commitMap' = commitMap \cup {h}
        /\ toSend' = Shipped(chain[h])
        /\ commitTimeMetric' =
             commitTimeMetric \cup {chain[h][i] : i \in 1..Len(chain[h])}
  /\ UNCHANGED <<roundVars, paced, blockVars, inbox, idx, sending, timeMap>>

\* An acknowledgement comes through ackMsgHandler and voteChannel to
\* handleVotes, which is not at the commands for another block.
handleVotes(n) ==
  /\ toSend = 0
  /\ ackStream[n] # <<>>
  /\ LET h == Head(ackStream[n])
         enough == Votes(h) + 1 > faultNum
         txs == {chain[h][i] : i \in 1..Len(chain[h])}
     IN /\ ackStream' = [ackStream EXCEPT ![n] = Tail(@)]
        /\ CountVote(h)
        /\ commitMap' = IF enough THEN commitMap \cup {h} ELSE commitMap
        /\ toSend' = IF enough /\ h \notin commitMap THEN Shipped(chain[h]) ELSE 0
        /\ commitTimeMetric' = IF enough THEN commitTimeMetric \cup txs
                                         ELSE commitTimeMetric
  /\ UNCHANGED <<roundVars, paced, blockVars, inbox, idx, sending, timeMap>>

\* One of the commands for the new block.  main keeps cmdChannel
\* full once it has sent the first ones.
sendNew ==
  /\ toSend > 0
  /\ idx >= BlockSize
  /\ idx < BlockSize * (IF paced THEN MaxBatch ELSE MaxLateBatch)
  /\ MaySend
  /\ toSend' = toSend - 1
  /\ sending' = sending \cup {idx}
  /\ idx' = idx + 1
  /\ UNCHANGED <<roundVars, paced, blockVars, streamVars, timeMap, voteMap,
                 commitMap, commitTimeMetric>>

-------------------------------------------------------------------------------
\* The replicas.

\* One Read returns all that has arrived.  Several messages in a row decode
\* as one message, with the command of the last.
ClientMsgHandler(n) ==
  /\ \E k \in 1..Len(inbox[n]) :
       /\ receiveCommand(n, inbox[n][k])
       /\ inbox' = [inbox EXCEPT ![n] = SubSeq(@, k + 1, Len(@))]
  /\ UNCHANGED <<paced, blockVars, clientVars, ackStream>>

\* The goroutine of a command; the first start is not raced.
handleCommand(n) ==
  /\ addCmdsAndStartTimerIfSufficientCommands(n)
  /\ clearing[n] > 0 => clearing'[n] < clearing[n]
  /\ UNCHANGED <<paced, blockVars, clientVars, streamVars>>

Certified(h) == h <= Len(chain)

\* Propose, and the round up to its certificate.  A replica that is not in
\* the leader's view drops the proposal, and then nobody certifies it.
Propose(n) ==
  /\ takeBatch(n)
  /\ Certified(head[n])
  /\ IF \A m \in Replica : view[m] = view[n]
     THEN /\ chain' = Append(chain, Newest(pendingCommands[n], BlockSize))
          /\ head' = [m \in Replica |-> head[n] + 1]
     ELSE /\ head' = [head EXCEPT ![n] = @ + 1]
          /\ UNCHANGED chain
  /\ UNCHANGED <<paced, clientVars, streamVars>>

startWithoutProposal(n) ==
  /\ noBatch(n)
  /\ ~Certified(head[n]) \/ Len(pendingCommands[n]) < BlockSize
  /\ UNCHANGED <<paced, blockVars, clientVars, streamVars>>

\* callback, and ClientBroadcast in it.  The goroutine of the round's start
\* does not take as long as the timer.
timerFires(n) ==
  /\ proposing[n] = 0
  /\ MayFire(n)
  /\ callback(n, Certified(view[n]))
  /\ ackStream' = IF Certified(view[n])
                  THEN [ackStream EXCEPT ![n] = Append(@, head[n])]
                  ELSE ackStream
  /\ UNCHANGED <<paced, blockVars, clientVars, inbox>>

timerGoroutine(n) ==
  /\ readTimer(n)
  /\ UNCHANGED <<paced, blockVars, clientVars, streamVars>>

callbackEnds(n) ==
  /\ notify(n)
  /\ UNCHANGED <<paced, blockVars, clientVars, streamVars>>

replicaStep(n) ==
  \/ ClientMsgHandler(n)
  \/ handleCommand(n)
  \/ Propose(n)
  \/ startWithoutProposal(n)
  \/ timerGoroutine(n)
  \/ timerFires(n)
  \/ callbackEnds(n)

clientStep ==
  \/ sendFirst
  \/ \E cmd \in sending : sendCommandToServer(cmd)
  \/ \E n \in Replica : handleVotes(n)
  \/ sendNew

ClientNext == clientStep \/ \E n \in Replica : replicaStep(n)

ClientSpec == ClientInit /\ [][ClientNext]_loopVars

\* Goroutines run, timers fire and streams deliver.
FairClientSpec ==
  /\ ClientSpec
  /\ WF_loopVars(clientStep)
  /\ \A n \in Replica : WF_loopVars(replicaStep(n))

-------------------------------------------------------------------------------
\* Properties.

\* A replica has one round at a time: its timer, its callback or the token
\* for the next one.  So callback never blocks at SyncChannel, and the
\* leader proposes once for each token (command.go, SyncChannel).
OneRound ==
  \A n \in Replica : /\ armed[n] + finishing[n] + SyncChannel[n] <= 1
                     /\ proposing[n] <= armed[n]

\* The client sends one batch for each block it commits, and its first one:
\* neither the acknowledgements of the other replicas nor those that come
\* while it is still sending add or lose a command (client.go, handleVotes).
OneBatchPerBlock ==
  (IF idx < BlockSize THEN BlockSize ELSE idx) + toSend
    = BlockSize * (1 + Cardinality(commitMap))

\* At the right pace the blocks hold the client's commands, each once and in
\* order, although every replica keeps what others have proposed: the newest
\* BlockSize commands of each new leader begin after those of the last block
\* (command.go, getCmdsIfSufficient: "TODO all pengdingCommands should be
\* change not only leader?").
LedgerInOrder ==
  paced => \A i \in 1..Len(chain) : \A j \in 1..BlockSize :
             LET cmd == (i - 2) * BlockSize + j
             IN chain[i][j] = IF cmd < 0 THEN nil ELSE cmd

\* At the right pace the loop never stops: every batch leads to a block that
\* the client commits (client.go, "This will block until some of the
\* commands are committed").
EveryBatchCommits == paced ~> commitMap = 1..MaxBatch

\* A latency is the time from sending a command to its block (client.go,
\* "Time from sending to getting back in some block").
LatencyOfSent == commitTimeMetric \subseteq timeMap
===============================================================================
