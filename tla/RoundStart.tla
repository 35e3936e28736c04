------------------------------ MODULE RoundStart ------------------------------
(***************************************************************************)
(* How a replica's rounds begin and end.  Every command of the client is   *)
(* added to the pool by a goroutine of its own, which starts the round's   *)
(* timer if the pool is full and it finds either gcallFuncFinish set (the  *)
(* first round) or a token in SyncChannel (any other round).  The timer's  *)
(* callback puts the token there.  Nothing but a new command starts a      *)
(* round, and of the pool only the leader takes anything away.             *)
(*                                                                         *)
(* What happens inside a round is the subject of module SyncHS.            *)
(***************************************************************************)
EXTENDS Integers, Sequences

CONSTANTS
  N,             \* number of replicas
  BlockSize,     \* commands per block
  InitialPool    \* nil commands in a fresh pool, 1000 in protocol.go

ASSUME NAssumption == N \in Nat \ {0}
ASSUME BlockSizeAssumption == BlockSize \in Nat \ {0}
ASSUME InitialPoolAssumption == InitialPool \in Nat

VARIABLES
  view,              \* n.view
  pendingCommands,   \* the pool, oldest first
  gcallFuncFinish,
  SyncChannel,       \* tokens in the channel of capacity 1
  adding,            \* commands whose goroutine has not begun
  clearing,          \* goroutines between the first start and its flag
  receiving,         \* goroutines that have seen a token and wait for it
  proposing,         \* goroutines of startConsensusTimer at the leader
  armed,             \* timers that will call back
  unread,            \* 1 while no goroutine waits for the newest of them
  spawned,           \* goroutines of Timer.Start that wait for none yet
  finishing,         \* callbacks at their send to SyncChannel
  firstStarts        \* goroutines that have seen gcallFuncFinish set

goVars == <<adding, clearing, receiving, proposing>>
timerVars == <<SyncChannel, armed, unread, spawned, finishing>>
roundVars == <<view, pendingCommands, gcallFuncFinish, timerVars, goVars,
               firstStarts>>

Replica == 0..(N - 1)

\* A command is its number; the pool is made with InitialPool nil commands.
nil == -1

\* changeLeader at every view change.
leader(n) == (view[n] - 1) % N

RoundInit ==
  /\ view = [n \in Replica |-> 1]
  /\ pendingCommands = [n \in Replica |-> [i \in 1..InitialPool |-> nil]]
  /\ gcallFuncFinish = [n \in Replica |-> TRUE]
  /\ SyncChannel = [n \in Replica |-> 0]
  /\ adding = [n \in Replica |-> {}]
  /\ clearing = [n \in Replica |-> 0]
  /\ receiving = [n \in Replica |-> 0]
  /\ proposing = [n \in Replica |-> 0]
  /\ armed = [n \in Replica |-> 0]
  /\ unread = [n \in Replica |-> 0]
  /\ spawned = [n \in Replica |-> 0]
  /\ finishing = [n \in Replica |-> 0]
  /\ firstStarts = [n \in Replica |-> 0]

Inc(f, n) == [f EXCEPT ![n] = @ + 1]
Dec(f, n) == [f EXCEPT ![n] = @ - 1]

-------------------------------------------------------------------------------
\* ClientMsgHandler has read a command from the client.
receiveCommand(n, cmd) ==
  /\ adding' = [adding EXCEPT ![n] = @ \cup {cmd}]
  /\ UNCHANGED <<view, pendingCommands, gcallFuncFinish, timerVars, clearing,
                 receiving, proposing, firstStarts>>

\* Timer.Start, and at the leader the goroutine that proposes.  Start
\* overwrites t.internalTimer, and its goroutine reads the field when it runs:
\* a timer that nobody waits for yet is replaced, and never calls back.
startConsensusTimer(n) ==
  /\ armed' = [armed EXCEPT ![n] = @ + 1 - unread[n]]
  /\ unread' = [unread EXCEPT ![n] = 1]
  /\ spawned' = Inc(spawned, n)
  /\ proposing' = IF leader(n) = n THEN Inc(proposing, n) ELSE proposing

\* The append under cmdMutex and the reads after it, which nothing separates
\* but the scheduler.
addCmds(n, cmd) ==
  /\ cmd \in adding[n]
  /\ adding' = [adding EXCEPT ![n] = @ \ {cmd}]
  /\ pendingCommands' = [pendingCommands EXCEPT ![n] = Append(@, cmd)]

insufficientCommands(n, cmd) ==
  /\ addCmds(n, cmd)
  /\ Len(pendingCommands'[n]) < BlockSize
  /\ UNCHANGED <<view, gcallFuncFinish, timerVars, clearing, receiving,
                 proposing, firstStarts>>

firstStart(n, cmd) ==
  /\ addCmds(n, cmd)
  /\ Len(pendingCommands'[n]) >= BlockSize
  /\ gcallFuncFinish[n]
  /\ startConsensusTimer(n)
  /\ clearing' = Inc(clearing, n)
  /\ firstStarts' = Inc(firstStarts, n)
  /\ UNCHANGED <<view, gcallFuncFinish, SyncChannel, finishing, receiving>>

\* Mutant: the channel is expected to hold more than its capacity.
CheckSyncAbove(n) ==
  receiving' = IF SyncChannel[n] > 1 THEN Inc(receiving, n) ELSE receiving

\* len(SyncChannel) is read before the receive, which then may block.
checkSync(n) ==
  receiving' = IF SyncChannel[n] = 1 THEN Inc(receiving, n) ELSE receiving

\* Mutant: the flag stays set.
KeepFirst(n) ==
  /\ clearing[n] > 0
  /\ clearing' = Dec(clearing, n)
  /\ checkSync(n)
  /\ UNCHANGED <<view, pendingCommands, gcallFuncFinish, timerVars, adding,
                 proposing, firstStarts>>

clearFirst(n) ==
  /\ clearing[n] > 0
  /\ gcallFuncFinish' = [gcallFuncFinish EXCEPT ![n] = FALSE]
  /\ clearing' = Dec(clearing, n)
  /\ checkSync(n)
  /\ UNCHANGED <<view, pendingCommands, timerVars, adding, proposing,
                 firstStarts>>

laterCommand(n, cmd) ==
  /\ addCmds(n, cmd)
  /\ Len(pendingCommands'[n]) >= BlockSize
  /\ ~gcallFuncFinish[n]
  /\ checkSync(n)
  /\ UNCHANGED <<view, gcallFuncFinish, timerVars, clearing, proposing,
                 firstStarts>>

\* Mutant: a receive that does not take the token.
PeekSync(n) ==
  /\ receiving[n] > 0
  /\ SyncChannel[n] = 1
  /\ receiving' = Dec(receiving, n)
  /\ startConsensusTimer(n)
  /\ UNCHANGED <<view, pendingCommands, gcallFuncFinish, SyncChannel, finishing,
                 adding, clearing, firstStarts>>

receiveSync(n) ==
  /\ receiving[n] > 0
  /\ SyncChannel[n] = 1
  /\ SyncChannel' = Dec(SyncChannel, n)
  /\ receiving' = Dec(receiving, n)
  /\ startConsensusTimer(n)
  /\ UNCHANGED <<view, pendingCommands, gcallFuncFinish, finishing, adding,
                 clearing, firstStarts>>

addCmdsAndStartTimerIfSufficientCommands(n) ==
  \/ \E cmd \in adding[n] : \/ insufficientCommands(n, cmd)
                            \/ firstStart(n, cmd)
                            \/ laterCommand(n, cmd)
  \/ clearFirst(n)
  \/ receiveSync(n)

-------------------------------------------------------------------------------
\* Proposals take the newest commands of the pool.

\* Mutant: the oldest commands are taken.
Oldest(s, k) == SubSeq(s, 1, k)

Newest(s, k) == SubSeq(s, Len(s) - k + 1, Len(s))
Older(s, k) == SubSeq(s, 1, Len(s) - k)

getCmdsIfSufficient(n) ==
  pendingCommands' = [pendingCommands EXCEPT ![n] = Older(@, BlockSize)]

\* Propose with the commands of Newest.
takeBatch(n) ==
  /\ proposing[n] > 0
  /\ Len(pendingCommands[n]) >= BlockSize
  /\ proposing' = Dec(proposing, n)
  /\ getCmdsIfSufficient(n)
  /\ UNCHANGED <<view, gcallFuncFinish, timerVars, adding, clearing, receiving,
                 firstStarts>>

\* The early returns of Propose.
noBatch(n) ==
  /\ proposing[n] > 0
  /\ proposing' = Dec(proposing, n)
  /\ UNCHANGED <<view, pendingCommands, gcallFuncFinish, timerVars, adding,
                 clearing, receiving, firstStarts>>

-------------------------------------------------------------------------------
\* The goroutine of Timer.Start waits for the timer it finds, the newest; of
\* two that wait for the same one, one is called back.
readTimer(n) ==
  /\ spawned[n] > 0
  /\ spawned' = Dec(spawned, n)
  /\ unread' = [unread EXCEPT ![n] = 0]
  /\ UNCHANGED <<view, pendingCommands, gcallFuncFinish, SyncChannel, armed,
                 finishing, goVars, firstStarts>>

\* callback, which commits the view if the node has its certificate.
callback(n, committed) ==
  /\ armed[n] > unread[n]
  /\ armed' = Dec(armed, n)
  /\ finishing' = Inc(finishing, n)
  /\ view' = IF committed THEN Inc(view, n) ELSE view
  /\ UNCHANGED <<pendingCommands, gcallFuncFinish, SyncChannel, unread, spawned,
                 goVars, firstStarts>>

\* n.SyncChannel <- true; blocks while the channel is full.
notify(n) ==
  /\ finishing[n] > 0
  /\ SyncChannel[n] = 0
  /\ finishing' = Dec(finishing, n)
  /\ SyncChannel' = Inc(SyncChannel, n)
  /\ UNCHANGED <<view, pendingCommands, gcallFuncFinish, armed, unread, spawned,
                 goVars, firstStarts>>

-------------------------------------------------------------------------------
\* A replica whose client and whose rounds may do anything.
RoundStep(n) ==
  \/ \E cmd \in adding'[n] : receiveCommand(n, cmd)
  \/ addCmdsAndStartTimerIfSufficientCommands(n)
  \/ takeBatch(n)
  \/ noBatch(n)
  \/ readTimer(n)
  \/ \E committed \in BOOLEAN : callback(n, committed)
  \/ notify(n)

RoundSpec == RoundInit /\ [][\E n \in Replica : RoundStep(n)]_roundVars

\* Rounds are neither lost nor multiplied, however the goroutines of the
\* commands and of the timers interleave: once a round was started there is
\* always a timer that will call back, a callback or the token of SyncChannel,
\* and they are never more than the goroutines that found gcallFuncFinish set.
\* So a replica can always get its next round, and has several at once only if
\* two goroutines pass line 11 of command.go before one is at line 17, and
\* their timers do not replace each other.
TokenConservation ==
  \A n \in Replica :
    LET rounds == armed[n] + finishing[n] + SyncChannel[n]
    IN rounds <= firstStarts[n] /\ (firstStarts[n] > 0 => rounds > 0)
===============================================================================
