# Reputation-based state machine replication: a TLA+ model

The repository is a Go implementation of Sync-HotStuff in which a node's voting
power is its reputation. This directory holds a TLA+ model of the replicas
(`consensus/`, `chain/`, `msg/`, `util/`), of the client that drives them
(`client/`) and of their start-up (`node/`, `config/`, `tools/`), TLC runs on small
instances, and TLAPS proofs for any number of replicas.

## The system

| Part | Source | Module | Status |
|---|---|---|---|
| Rounds: propose, forward, vote, certify, callback | `consensus/{protocol,reactor,leader,proposalAndForward,vote,cert,client,sendall}.go` | `SyncHS`, `Synchrony` | modelled |
| Start of rounds, command pool | `consensus/{command,client}.go` | `RoundStart`, `ClientLoop` | modelled |
| Reputation scores and the weighted majority | `consensus/Reputation.go`, `vote.go` | `Reputation` | in integers |
| Client connections at a replica | `consensus/client.go` | `Reconnect`, `ClientLoop` | partly |
| Misbehaviour builds and evidence | `consensus/{attackInjection,evidence}.go` | `Misbehaviour` | modelled |
| Promise to the clients | `src/README.md:1-3` | `Ledger` | abstract specification |
| Client | `client/client.go` | `ClientLoop`, `Startup` | partly: no statistics |
| Start-up of replicas and client | `node/node.go`, `Setup` in `consensus/protocol.go` | `Startup` | partly: no flags, profiling |
| Configuration and its generator | `config/`, `tools/genConfig.go` | `Codec`, `Startup` | partly |
| Block store, messages, certificates | `chain/`, `msg/` | types of `SyncHS`; `Codec` | partly |
| Timer | `util/timer.go` | `Synchrony`, `RoundStart` | partly |
| Ethereum adapter, stubs, generated code | `ethereum/`, `p2p/`, `state/`, `mempool/`, `*.pb.go` | | not modelled |

A replica is a handful of goroutines around shared maps:

* `ClientMsgHandler` takes commands; with a full pool, and once the previous
  callback has signalled on `SyncChannel`, it starts the timer of the round, and
  the leader proposes a block on top of the block of `certMap[bc.Head]`.
* `protocol()` receives messages. A proposal from the leader is checked, signed and
  **forwarded** to everybody; a forward goes to `proposeChannel`; a vote goes to
  `voteChannel`.
* `forwardProposalHandler` collects the forwards of the view. With those of all N-1
  non-leaders a node adds the block to its chain and votes. Two different blocks in
  one view are an equivocation.
* `voteHandler` sums the reputation of the voters. Above half of the total it builds
  the view's certificate, which a goroutine stores (`addCert`).
* The timer's `callback` computes everybody's reputation for the next view from the
  recorded behaviour. With a certificate for the view it acknowledges the block at
  `bc.Head` to the clients, increments the view and rotates the leader; without
  one the same view starts again. After an equivocation it does so without a
  certificate.

What makes this hard: none of the handlers holds a lock across its reads of
`n.view` and `n.leader`; the callback changes the two in separate steps; votes,
certificates and proposals may arrive on either side of it; a node may know a
certificate and not its block; every panic takes all the other replicas down.

## Modules

**`Reputation`** is `Reputation.go`. A *transcript* holds the six behaviour maps as
sets of pairs `<<view, id>>`. `ExceedsBenchMark` is the comparison with
`GetCertBenchMark`.

**`SyncHS`** is the replicas of the default build on an asynchronous network.

| Action | Code |
|---|---|
| `Propose`, `StartWithoutProposal` | `addCmdsAndStartTimerIfSufficientCommands`, `startConsensusTimer`, `Propose` |
| `Dispatch` (`Enqueue`, `Forward`, `ForwardFails`) | the proposal case of `protocol()`, `forward` |
| `RejectForward`, `DetectEquivocation`, `AwaitForwards`, `AcceptBlock`, `LeaderVotes` | one iteration of `forwardProposalHandler`, by its exits |
| `CastVote` | the vote goroutine of a non-leader |
| `AccuseVoter`, `DropDuplicateVote`, `CountVote` | one iteration of `voteHandler`, by its exits |
| `addCert` | the goroutine that stores the certificate |
| `TimerFires`; `RetryView`, `Commit`; `Rotate` | the callback: up to the new reputations; its decision and `n.view++`; `changeLeader` |
| `PeerLost` | `panic(err)` in `ProtoMsgHandler` |

The state is the fields of the `SyncHS` struct, the two local maps of
`voteHandler` (`tally`, `isCertified`) and the one of `forwardProposalHandler`
(`fpropMap`), the goroutines that wait to run (`voteTasks`, `certTasks`), the
messages in flight, and two records of outputs (`acks`, `evidence`). A Go map is a
function whose domain is its keys. `phase` says where the timer and the callback
are: `ready` (the round may start), `armed`, `decide` or `empty` (the callback,
after the reputations), `rotate` (after `n.view++`).

Abstractions. A block hash is the path of heights and `Extra` fields from the genesis
block, because the header holds only these and the parent hash (`TxHash` is nil, and
`Extra` too but in the misbehaviour builds); the
transactions are the pair of miner and view that made the batch. All nodes run this
code, so a signature verifies when the right node made it; the signatures in a
certificate are never judged (`IsCertValid` drops the result of `Verify`). The
forward goroutine is merged with the arrival of the proposal, since a rotation in
between has the same effect as a later arrival. Reads of `n.view` within one
iteration of a handler are one step. The evidence handlers are not started
(`protocol.go:143-149`), so evidence is only recorded.

**`Synchrony`** restricts `SyncHS` to the network the 4.5 s timer is made for: a
timer fires when its round is *settled*, that is, all nodes have started the view
and none of its messages or goroutines is pending. The departures are counted:
`MaxEarly` timers of the nodes in `Hasty` fire in the middle of a round, `MaxLost`
messages to the nodes in `Deaf` are lost, and with `Skew` a leader may propose before
the others are in its view. `LossySpec` begins after an undisturbed first view
(`AfterFirstView`) and fixes at the start which message of the second will be lost
(`SecondView`), so that the third view, which the deaf node leads, is within reach.

**`Reconnect`** adds `ClientConnects`: every connection runs `initialReputationMap`.

**`Ledger`** is the promise to the clients: every node acknowledges one chain, and
no two nodes acknowledge different blocks at one position. `Synchrony` implements it
under the mapping that takes a node's acknowledged blocks for its log.

**`Misbehaviour`** is the four builds in which `command.go` calls another variant of
`startConsensusTimer` (`src/README.md:31`) and the evidence handlers run. Nodes with
odd ids misbehave.

| Action | Code |
|---|---|
| `StartWithWithhold`, `StartWithEquivocation`, `StartWithMaliciousPropsoal`, `StartWithMaliciousVote` | the variants, with their `...propose` |
| `ReceiveMaliProposal`, `MaliciousPropsoalHandler` | the proposal of a non-leader in `protocol()`, and its handler |
| `voteForNonLeaderBlk` | the vote goroutine when `maliciousVoteInject` is set |
| `EquivocationEvidenceHandler`, `MaliciousProposalEvidenceHandler`, `MaliciousVoteEvidenceHandler` | one iteration of each |
| `WithholdingTimer` | the withholding branch of `callback` |

All other actions are those of `SyncHS`. In a view with a withholding or an
equivocating leader each node makes an empty block and a certificate without votes
for itself (`StoreEmptyBlock`). `maliPropseChannel` and `handled` are what waits for,
and has passed, the new handlers.

**`RoundStart`** is how a replica's rounds begin and end, which `SyncHS` takes as one
step: the goroutine of each command (`adding`; `clearing` between the first start and
`gcallFuncFinish = false`; `receiving` between `len(SyncChannel) == 1` and the
receive), `SyncChannel`, the timers (`armed`), the callbacks at their send
(`finishing`), and the pool, from whose end only the leader takes. `Timer.Start` stores
its timer in a field that its goroutine reads when it runs (`readTimer`), so a second
start in between replaces the first timer (`unread`, `spawned`). `RoundSpec` lets client
and rounds do anything.

**`ClientLoop`** composes `RoundStart` with the client: `sendFirst`,
`sendCommandToServer`, `handleVotes` and `sendNew` are its goroutines, `inbox` and
`ackStream` the streams. A `Read` may return several commands, of which the last
survives (`ClientMsgHandler`). A first commit ships a command for each one in the block,
or one if the block is empty (`Shipped`). A round is one step, `Propose`: it succeeds if all
replicas are in the leader's view, which is what the runs of `Synchrony` show. In
`paced` behaviours the client's pace fits the timers (below); in the others it does
not.

**`Startup`** goes from the programs' start to the first command. `Enter` is the
progress of `main` in `node.go`; `SetStreamHandler`, `NewStream`, `NewStreamFails`
and `Start` are `Setup` with its goroutines and their attempts; `Dial`,
`OpenClientStream` and `FinishConnecting` the client's connections. `net.Setup` and
`netw.Connect` are library calls, modelled by when they return.

**`Codec`** is objects that cache: `BlockCertificate` (the message and whether it is
valid), `ExtBlock` (message and hash) and the configurations (the message; only a
replica's `FromProto` renews it). Two objects and one message on the wire go through any
sequence of setters, `ToProto`, `FromProto` and marshalling. A proposed block is sent
with the digest of its header; an empty one with the zero hash, for which `GetBlockHash`
takes the first bytes of the header, that is, of the parent's hash.

The proofs are in **`SyncHSProofs`** (any timing); **`LockstepProofs`** (the invariant
of rounds in lockstep; timers, callbacks and proposals), **`LockstepVoteProofs`**
(forwards, votes and certificates; acknowledged logs) and **`SynchronyProofs`** (the
theorems about `Synchrony` and `Reconnect`); **`ClientLoopProofs`**, **`CommandProofs`**
and **`BatchProofs`** (`ClientLoop`); and **`PartsProofs`** (`Ledger`, `Startup` and
`Codec`). They are cut so that each is checked in minutes: tlapm slows down with the
length of a module and with `FiniteSetTheorems` in its context.

## Runs

| Run | Instance | Shows |
|---|---|---|
| `rounds3` | N=3 (as in `quicktest.sh`), 2 views, lockstep | `ImplementsLedger`, `ReputationConsistency`, `CertifiedAck`, `OneBlockCerts`, `NoFalseEvidence`, `NoPanic` in every interleaving of two rounds |
| `early2` | N=2, 3 views, skew, one early timer, one message lost | `TypeOK`, `LeaderOfView`, `CertWeight`, `DeliveredParents`, `SignersHoldBlock`, `CertsWriteOnce`, which need no timing |
| `lossy3` | N=3, views 2 and 3, any one message of view 2 to node 2 lost | the nodes that missed nothing keep one ledger (`HearingLedger`), and nobody is accused (`NoFalseEvidence`) |
| `live2` | N=2, 4 views, lockstep | `Progress` |
| `reconnect2` | N=2, 4 views, skew, one connection | equal reputations until the connection (`ConsistentUntilReconnect`) |
| `misbehaviour3` | N=3, each build | exactly the offenders are penalised, at all nodes (`PenaltiesExact`, `OnlyGuiltyAccused`, `ReputationConsistency`); acknowledgements are certified and form one ledger with empty blocks (`CertifiedAck`, `MisExtendsLedger`); `NoPanic` |
| `commands2` | N=2, blocks of 2, up to 4 batches | `TokenConservation`, `OneRound`, `OneBatchPerBlock`, `LedgerInOrder`, `EveryBatchCommits` |
| `startup3` | 3 replicas, 2 attempts, a client | `RunsWithStreams`, `NoFailureOnceServing`, `SetupEnds` |
| `codec` | 2 objects of each kind, 2 values, 2 votes | `CacheCoherent`, `SignaturesFound`, `HashIdentifiesHeader` |
| `skew_stall` | N=2, 2 views, skew | **violates** `Progress` |
| `lost_panic` | N=3, 1 view, one message lost | **violates** `NoPanic` |
| `lost_fork` | as `lossy3` | **violates** `NoFork` |

Every passing run's properties have a mutant: a definition such as `OwnParent` or
`NeverCertified`, placed before the one it replaces, that makes the property fail.

### Bounds

With two views the second certificate is weighed by reputations that the first
view changed, and `IsCertValid` meets a real certificate. Two replicas and three or
four views let the leadership wrap. One early timer is enough for every race of the
callback with a handler; one lost message for every way in which one node misses
what the others have. In a first view such a node panics (`lost_panic`) and takes the
others down, so `lossy3` loses a message of the second and goes on to the third. Three replicas are the smallest system in which a majority
need not be everybody, so a certificate can exist before the last vote.

`Misbehaviour`: `FirstView` and `LastView` give each build the views in which its
offender acts and one after it. Builds whose first offender leads view 2 begin after
an undisturbed view 1 (`AfterFirstView`), since nobody misbehaves in it.
`MaliciousFirst` handles malicious proposals and the evidence of them, or of malicious
votes, before other messages; the two kinds of steps commute. `MisMayStart` is the
lockstep of `Synchrony`.

`ClientLoop`: `MaxBatch` batches let the leadership wrap twice. `paced` is the
parameters the client is used with: `TxInterval` is longer than the way of a command,
a timer longer than a batch, and a view's callbacks closer together than the way
of an acknowledgement. In the other behaviours the replicas in `Late` have up to
`MaxBacklog` commands under way, and `MaxLateBatch` batches are sent. The pool begins
with `InitialPool` nil commands: 1 (less than a block) or 2 (a block) for the 1000 of
the code. `ClientLoop` does not race the first start (two goroutines between lines 11 and
17 of `command.go`); `RoundSpec` does, and the proof covers it.

`Startup`: two attempts for the code's 300 are enough to fail, then succeed, or give up.
`Codec`: `MaxVotes` of 2, as the third vote is like the second.

### Fairness

`FairSpec` assumes weak fairness of what each process does by itself: it starts its
round when it may (clients keep sending commands), its goroutines keep
running and messages that are not lost arrive, and an armed timer fires once the
round is settled. `FairClientSpec` assumes it of the client and of each replica:
goroutines run, timers fire, streams deliver. `FairStartSpec` assumes it of the
replicas' goroutines, and of nobody who has to start a program.

Deadlock is checked, `Finished` and `MisFinished` allowing stuttering only when every
view within the bound is done or every process has ended. It is not checked in
`startup3`, as start-up ends, nor in `commands2`, where the client stops after its last
batch and a loop that is not paced can really stop.

### Numbers

Scores are integers in units of 1e-6: the initial score 1, `tanh(0.0001 k)` as
`100 k`. The error of the linear form stays below half a unit for `k <= 114`
(`k` is at most twice the number of views). What `big.Float` rounds is
not modelled: with equal scores the code can find exactly half above
half for some N (6, 34, 36, 38) where the integers find it equal. None of the
instances here has such an N.

## What the violations show

* `skew_stall`: a proposal that reaches a node before it has rotated is taken for
  a forward (`reactor.go:37`), fails the checks and is dropped. The leader's
  `bc.Head` is now ahead of its certificates, so it cancels all further proposals
  and the view never ends.
* `lost_panic`: a node that misses one forward does not vote, but gets the
  certificate from the votes of the others; its callback dereferences a block it
  does not have. All peers then panic as well. From the second view on, the node
  acknowledges the previous block again instead.
* `lost_fork`: node 2 misses one forward of view 2, gets the certificate of the view
  without its block, and acknowledges block 1 again. Its `bc.Head` is still 1, so as the
  leader of view 3 it proposes another block of height 2, with other commands and the same
  header, hence the same hash. The others vote for it and put it in the place of the one
  they have acknowledged; node 2 acknowledges it, and the heads of the others point above
  their chains. `HearingLedger` says what remains: nodes 0 and 1 agree with each other.

Further statements fail; the runs are had by changing a cfg:

* `OneBlockCerts` under an early timer (`early2.cfg`): between `n.view++` and
  `changeLeader` a vote of the old view passes the owner check and is counted for the
  new view.
* `CertifiedAck` under an early timer (`early2.cfg`): a callback without certificate
  retries the view; a certificate that arrives in between makes the leader propose a
  second block in it, and the next callback acknowledges this block under the
  certificate of the first.
* `CertifiedAck` with skew and three replicas (`rounds3.cfg`): a forward that reaches a
  node before it has rotated is dropped; the node then misses the block, but gets the
  certificate from the votes of the other two, and acknowledges the previous block.
* `ReputationConsistency` with a connection (`reconnect2.cfg`): a client that connects
  later resets the reputations of the current view at this node only (`Reconnect`). A
  certificate of that view may then not weigh enough at this node, with two replicas;
  with three, any two are a majority before and after.
* `ReputationConsistency` with a lost vote (`lossy3.cfg`): a vote counts for the
  reputation of the voter only where it has arrived.
* `LatencyOfSent` in `commands2.cfg`: the pool is made with 1000 nil commands, so the
  first command already starts a round, and the leader's block is filled up with nil
  commands. `handleVotes` records a latency for them, from a sending time of zero.
* `CacheCoherent` for a client's configuration: `ToProto`, `FromProto` of another one and
  `ToProto` give the first one again (`client-conf.go:33`). Nothing calls them so.

## Proofs

Those about `SyncHS` are for every `N >= 2`, every number of views and every delay,
loss or reordering, from `NAssumption` and `MaxViewAssumption`.

* `TypeCorrect` (`SyncHSProofs`): `TypeOK`. The inductive invariant `TInv` adds that
  transcripts are finite, without which the cardinalities in a score are not
  known to be numbers.
* `CertificatesAreBacked`, `CertificatesAreFinal` (`SyncHSProofs`): `CertWeight`,
  `CertsWriteOnce`. The invariant `CertInv` says that every stored or waiting certificate has an index in
  `isCertified`, that no two of them share one, and that the reputations of the
  current view (and in the callback of the next) exist; so a view starts one
  `addCert`, and the reputations it was weighed by are no longer written.
* `SignersHaveTheBlock` (`SyncHSProofs`): `SignersHoldBlock`. The invariant `HoldInv`
  follows a vote from the block that `AcceptBlock` stores, or the leader has made, through
  `voteTasks`, the network and `tally` to the certificate; blocks are never removed.
* `LeadersAgree` (`SyncHSProofs`): `LeaderOfView`, with the arithmetic of `% N` in
  `ModUnique` and `NextLeader`.
* `ParentsAreDelivered` (`SyncHSProofs`): `DeliveredParents`. The invariant
  `HonestInv` says that every proposal in flight or queued builds on the block its
  certificate names. Nothing in the code checks this; it makes the dereference
  in `IsCertValid` the check that the parent is there.
* `SynchronyRefinesSyncHS` (`SynchronyProofs`): `SyncSpec => Spec`, so all of the above
  holds in every instance of `Synchrony`.
* Rounds in lockstep (`SynchronyProofs`, from the lemmas of `LockstepProofs` and
  `LockstepVoteProofs`), for every `N >= 2` and every number of views, when messages and
  timers are on time (`~Skew`, `MaxEarly = 0`, `MaxLost = 0`; the violations above show
  that each of the three is needed):
  `NoReplicaPanics` (`NoPanic`), `NobodyAccused` (`NoFalseEvidence`),
  `CertificatesOfOneBlock` (`OneBlockCerts`), `AcksAreCertified` (`CertifiedAck`),
  `ReputationsAgree` (`ReputationConsistency`), `ConsistentTillReconnect`
  (`ConsistentUntilReconnect`) and `LedgerImplemented` (`ImplementsLedger`: initial
  states map to initial states, and every step to an acknowledgement or a stutter).

  They follow from one inductive invariant, `Lock`. It gives each view `v` its block
  (`BlockOf(v)`), its messages (`Orig`, `Fwd`, `VoteOf`) and its reputations (`RepOf(v)`,
  from what everybody has recorded once the views before `v` are settled), and says:
  - the chain, the hashes, the certificates, the transcript, the reputations and the
    acknowledgements of a node are those of its view, and no two nodes are more than
    the block of a view apart (`NodeOK`);
  - proposals, forwards, votes and goroutines are under way only while all nodes are
    armed in one view, and are this view's (`PropsOK`, `ChannelsOK`, `VotesOK`);
  - no forward of a proposed block gets lost on its way from being asked for, through
    flight and queue, to being counted, and none is made twice (`Forwarded`); a node has a
    block exactly when it has counted all of its forwards (`Accepted`), and its vote has
    then reached everybody, or will (`Voted`).

  The three last conjuncts are why the invariant is needed: when a round is settled they
  make every node have the block and everybody's vote on record (`SettledRound`), so that
  all compute the same reputations, and a certificate of one node is valid for
  the others (`ValidCert`, which also takes `CertWeight`). That a node whose count is full
  has counted everybody is a fact of cardinalities, `ForwardsCount`; the lemmas take it
  as a hypothesis and `AllForwards` (`SynchronyProofs`) proves it. Retries are covered:
  that the votes of all nodes are a majority would need induction over sums, and nothing
  rests on it.
* `LedgerConsistent` (`PartsProofs`): the abstract ledger keeps all logs prefixes of
  one another.
* `RoundsConserveTokens` (`ClientLoopProofs`): `TokenConservation` for `RoundSpec`, that
  is, for any client, any pool, the raced first start and timers that replace one
  another. With natural counters, of which `unread` is at most 1 and at most `armed`
  (`RoundTypes`), it is inductive: a timer is armed by a first start or for a token,
  replaces only one that nobody waits for, and becomes a callback and then a token.
* `LoopImplementsRounds`: `ClientSpec => RoundSpec`, step by step, so the above holds
  for `ClientLoop`. `OneRoundAtATime` and `ClientSendsOneBatchPerBlock` (`BatchProofs`)
  add `OneRound` and `OneBatchPerBlock`. The invariant `LoopInv` says that there is at
  most one first start (`OneStart`), that every replica is in the view of the last
  certified block or the next, with a head to match (`Views`), so a proposal extends the
  chain by one, and that blocks are full and only certified ones are acknowledged
  (`Blocks`), so a commit owes exactly a batch. They assume `BlockSizeAssumption`,
  `NAssumption` and `InitialPoolAssumption`, and nothing of the pace.
* `BlocksInOrder` (`BatchProofs`, from the lemmas of `CommandProofs`): `LedgerInOrder`, for
  a fresh pool of at least a batch less one (`InitialPool >= BlockSize - 1`; the code has
  1000). `PaceInv` says that, at the right pace, at most one command is under way to a
  replica and the end of every pool is what comes after the last block, in order.
* `StreamsAreKept`, `ServingIsConnected` (`PartsProofs`): `RunsWithStreams` and
  `NoFailureOnceServing` for any number of replicas and attempts. `StartInv` adds that a
  goroutine ends with its stream or without attempts (`Ended`) and that who answers
  clients answers peers (`PeersFirst`).
* `CachesCoherent`, `EverySignatureFound`, `HashesIdentifyHeaders` (`PartsProofs`):
  `CacheCoherent`, `SignaturesFound`, `HashIdentifiesHeader`, for any objects, values and number of
  votes, from `NilAssumption` (nil is none of them). `CodecInv` says what a cache may hold
  in each state of its object, and that a message on the wire is one that such an
  object makes.

Only model-checked:

* liveness (`Progress`, `EveryBatchCommits`, `SetupEnds`), as TLAPS has no fairness;
* what is left of the lockstep when it is broken (`lossy3`, and `reconnect2` with skew);
* `Misbehaviour`: its offences change the messages and the blocks on which `Lock` is built,
  and the certificate of view 1 from which two of the builds begin is a majority
  only by a sum.

## Not modelled

* Rounding of `big.Float` and `math.Tanh` (see Numbers): it needs binary fractions of 53
  and 64 bits in every sum, which TLC cannot enumerate.
* Races on unlocked Go maps, and the package variables of `Reputation.go` when several
  replicas share a process, as only tests do.
* Capacities of the message channels (100), which the instances never fill.
* Messages of peers that `Read` splits or joins. Commands that are joined are modelled;
  a message that is lost is `lossy3`.
* A second client. An acknowledgement that reaches it before it has made `voteChannel`
  blocks its goroutine.
* Statistics of the client, logging, flags, profiling, keys and addresses. The
  generator writes no `Faults` for the client, so its check of "sufficient nodes"
  passes with one connection (`ClientFaults` of `Startup`), and the client commits
  after one acknowledgement (`faultNum`) where its opening comment says f+1.
* JSON conversions of the configurations and `PartialCertificate.ToProto`, which nothing
  calls; `Timer.Cancel` and `Reset`, likewise.
* `ethereum/` (an unfinished adapter; `synchs.go` does not compile), `p2p/`, `state/`,
  `mempool/`, `version/` (declarations nothing uses), and generated code.
