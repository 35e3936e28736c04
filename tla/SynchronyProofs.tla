--------------------------- MODULE SynchronyProofs ----------------------------
(***************************************************************************)
(* The timely system.  It is one of the behaviours of the asynchronous one,*)
(* so whatever is proved of SyncHS holds in every instance of Synchrony.   *)
(* With messages and timers on time its rounds are in lockstep: Lock is an *)
(* invariant, and the theorems are what follows from it.                   *)
(***************************************************************************)
EXTENDS Reconnect, LockstepVoteProofs, SyncHSProofs

-------------------------------------------------------------------------------
\* Refinement.

\* Handling a message that is not lost is handling a message.
LEMMA HandleFewer ==
  ASSUME NEW n \in Node, NEW P \in SUBSET propNet, NEW V \in SUBSET voteNet,
         HandleMessage(n, P, V)
  PROVE  HandleMessage(n, propNet, voteNet)
BY Zenon DEF HandleMessage

\* A step of the timely system is one of the asynchronous system.
LEMMA SyncStep == [SyncNext]_syncVars => [Next]_vars
<1> SUFFICES ASSUME [SyncNext]_syncVars PROVE [Next]_vars
  BY SMTT(30)
<1>1. ASSUME NEW n \in Node, SyncStart(n) PROVE Next
  BY <1>1, Zenon DEF SyncStart, Next
<1>2. ASSUME NEW n \in Node, Timely(n) PROVE Next
  <2>1. CASE HandleMessage(n, propNet \ lost, voteNet \ lost)
    <3>1. HandleMessage(n, propNet, voteNet)
      BY <2>1, HandleFewer, Zenon
    <3> QED
      BY <3>1, Zenon DEF Next
  <2>2. CASE Callback(n) \/ PeerLost(n)
    BY <2>2, Zenon DEF Next
  <2> QED
    BY <1>2, <2>1, <2>2, Zenon DEF Timely
<1>3. ASSUME NEW n \in Node, SyncTimer(n) \/ EarlyTimer(n) PROVE Next
  BY <1>3, Zenon DEF SyncTimer, EarlyTimer, Next
<1>4. CASE Lose \/ Finished \/ UNCHANGED syncVars
  BY <1>4, Zenon DEF Lose, Finished, syncVars
<1> QED
  BY <1>1, <1>2, <1>3, <1>4, Zenon DEF SyncNext

\* Timely rounds, early timers and lost messages are all behaviours of the
\* asynchronous replicas.
THEOREM SynchronyRefinesSyncHS == SyncSpec => Spec
<1>1. SyncInit => Init
  BY SMTT(30) DEF SyncInit
<1> QED
  BY <1>1, SyncStep, PTL DEF SyncSpec, Spec

-------------------------------------------------------------------------------
\* All steps.

\* N - 1 different forwards are the forwards of all non-leaders.
LEMMA AllForwards == ForwardsCount
<1> SUFFICES ASSUME NEW v, NEW l \in Node,
                    NEW F \in SUBSET {<<v, s>> : s \in Node \ {l}}
             PROVE  /\ Cardinality(F) \in Nat
                    /\ Cardinality(F) >= N - 1 <=>
                         \A s \in Node \ {l} : <<v, s>> \in F
  BY Zenon DEF ForwardsCount
<1> DEFINE S == Node \ {l}
           T == {<<v, s>> : s \in S}
<1>1. IsFiniteSet(Node) /\ Cardinality(Node) = N
  BY FS_Interval, NAssumption DEF Node
<1>2. IsFiniteSet(S) /\ Cardinality(S) = N - 1
  BY <1>1, FS_RemoveElement, Zenon
<1>3. ExistsBijection(S, T)
  <2> DEFINE f == [s \in S |-> <<v, s>>]
  <2>1. f \in [S -> T]
    OBVIOUS
  <2>2. IsInjective(f)
    BY DEF IsInjective
  <2>3. \A t \in T : \E s \in S : f[s] = t
    BY SMTT(30)
  <2> QED
    BY <2>1, <2>2, <2>3, Zenon DEF ExistsBijection, Bijection, Injection, Surjection
<1>4. IsFiniteSet(T) /\ Cardinality(T) = N - 1
  BY <1>2, <1>3, FS_Bijection, Zenon
<1>5. F \subseteq T
  BY SMTT(30)
<1>6. /\ Cardinality(F) \in Nat /\ Cardinality(F) <= N - 1
      /\ Cardinality(F) = N - 1 => F = T
  BY <1>4, <1>5, FS_Subset, FS_CardinalityType, ZenonT(30)
<1>7. (\A s \in S : <<v, s>> \in F) <=> F = T
  OBVIOUS
<1> HIDE DEF S, T
<1>8. Cardinality(F) >= N - 1 <=> F = T
  BY <1>4, <1>6, NAssumption, SMTT(30)
<1> QED
  BY <1>6, <1>7, <1>8, ZenonT(30) DEF S

\* With messages and timers on time, the steps that remain are those of a
\* round in lockstep.
LEMMA LockStep ==
  ASSUME ~Skew, MaxEarly = 0, MaxLost = 0,
         TypeOK, LeaderOfView, CertWeight, Lock, [SyncNext]_syncVars
  PROVE  Lock'
<1>1. lost = {} /\ early = 0 /\ \A n \in Node : up[n]
  BY Zenon DEF Lock, NodeOK, PhaseOK
<1>2. propNet \ lost = propNet /\ voteNet \ lost = voteNet
  BY <1>1, Zenon
<1>3. ASSUME NEW n \in Node, SyncStart(n) PROVE Lock'
  BY <1>3, LockPropose, LockQuietStart, Zenon DEF SyncStart, Start
<1>4. ASSUME NEW n \in Node, HandleMessage(n, propNet, voteNet),
             UNCHANGED <<early, lost>>
      PROVE  Lock'
  BY <1>4, AllForwards, LockDispatch, LockForward, LockCastVote, LockVote, LockAddCert,
     Zenon
     DEF HandleMessage
<1>5. ASSUME NEW n \in Node, Callback(n), UNCHANGED <<early, lost>> PROVE Lock'
  BY <1>5, LockRetry, LockCommit, LockRotate, Zenon DEF Callback
<1>6. ASSUME NEW n \in Node PROVE ~PeerLost(n)
  BY <1>1, Zenon DEF PeerLost
<1>7. ASSUME NEW n \in Node, Timely(n) PROVE Lock'
  BY <1>2, <1>4, <1>5, <1>6, <1>7, Zenon DEF Timely
<1>8. ASSUME NEW n \in Node, SyncTimer(n) PROVE Lock'
  BY <1>8, AllForwards, LockTimer, Zenon DEF SyncTimer
<1>9. ASSUME NEW n \in Node PROVE ~EarlyTimer(n)
  <2>1. ~(early < MaxEarly)
    BY <1>1, SMTT(30)
  <2> QED
    BY <2>1, Zenon DEF EarlyTimer
<1>10. ~Lose
  <2>1. Cardinality(lost) = 0
    BY <1>1, FS_EmptySet, Zenon
  <2>2. ~(Cardinality(lost) < MaxLost)
    BY <2>1
  <2> QED
    BY <2>2, Zenon DEF Lose
<1>11. CASE Finished \/ UNCHANGED syncVars
  BY <1>11, LockStutter, Zenon DEF Finished
<1> QED
  BY <1>3, <1>7, <1>8, <1>9, <1>10, <1>11, Zenon DEF SyncNext

\* The invariant is one, together with what holds without any timing.
LEMMA LockInvariant ==
  ASSUME ~Skew, MaxEarly = 0, MaxLost = 0
  PROVE  SyncSpec => [](TypeOK /\ LeaderOfView /\ CertWeight /\ Lock)
<1>1. TypeOK /\ LeaderOfView /\ CertWeight /\ Lock /\ [SyncNext]_syncVars => Lock'
  BY LockStep, Zenon
<1> QED
  BY <1>1, LockInit, SynchronyRefinesSyncHS, TypeCorrect, LeadersAgree,
     CertificatesAreBacked, PTL DEF SyncSpec

-------------------------------------------------------------------------------
\* What the replicas promise when messages and timers are on time, for any
\* number of replicas and views.

\* No replica panics: whatever IsCertValid and the callback dereference is
\* there.
THEOREM NoReplicaPanics ==
  ASSUME ~Skew, MaxEarly = 0, MaxLost = 0 PROVE SyncSpec => []NoPanic
<1>1. Lock => NoPanic
  BY Zenon DEF Lock, NodeOK, PhaseOK, NoPanic
<1> QED
  BY <1>1, LockInvariant, PTL

\* Nobody is accused of a double proposal or of a malicious vote.
THEOREM NobodyAccused ==
  ASSUME ~Skew, MaxEarly = 0, MaxLost = 0 PROVE SyncSpec => []NoFalseEvidence
<1>1. Lock => NoFalseEvidence
  BY Zenon DEF Lock, NoFalseEvidence
<1> QED
  BY <1>1, LockInvariant, PTL

\* The signatures of a certificate are on one block and one view.
THEOREM CertificatesOfOneBlock ==
  ASSUME ~Skew, MaxEarly = 0, MaxLost = 0 PROVE SyncSpec => []OneBlockCerts
<1>1. Lock => OneBlockCerts
  BY Zenon DEF Lock, NodeOK, CertOK, GoodCert, OneBlockCerts
<1> QED
  BY <1>1, LockInvariant, PTL

\* What the callback acknowledges is the certified block of the view.
THEOREM AcksAreCertified ==
  ASSUME ~Skew, MaxEarly = 0, MaxLost = 0 PROVE SyncSpec => []CertifiedAck
<1>1. TypeOK /\ Lock => CertifiedAck
  <2> SUFFICES ASSUME TypeOK, Lock, NEW n \in Node, NEW i \in DOMAIN acks[n]
               PROVE  /\ acks[n][i].view \in DOMAIN certMap[n]
                      /\ certMap[n][acks[n][i].view].hash
                           = GetBlockHash(acks[n][i].block)
    BY Zenon DEF CertifiedAck
  <2>1. view[n] \in Nat \ {0} /\ ChainOK(n) /\ CertOK(n)
    BY Zenon DEF TypeOK, Lock, NodeOK
  <2>2. /\ i \in 1..(view[n] - 1) /\ acks[n][i].view = i
        /\ acks[n][i].block = BlockOf(i)
    BY <2>1, SMTT(30) DEF ChainOK
  <2>3. i \in Nat \ {0} /\ i \in 0..(view[n] - 1)
    BY <2>1, <2>2, SMTT(30)
  <2>4. i \in DOMAIN certMap[n] /\ certMap[n][i].hash = Chain(i)
    BY <2>1, <2>3, Zenon DEF CertOK, GoodCert
  <2> QED
    BY <2>2, <2>3, <2>4, BlockFacts, Zenon
<1> QED
  BY <1>1, LockInvariant, PTL

\* Any two nodes that have entered a view judge its votes by the same
\* reputations (addNewViewReputaiontoMap).
THEOREM ReputationsAgree ==
  ASSUME ~Skew, MaxEarly = 0, MaxLost = 0
  PROVE  SyncSpec => []ReputationConsistency
<1>1. TypeOK /\ Lock => ReputationConsistency
  BY SameReputations, Zenon
<1> QED
  BY <1>1, LockInvariant, PTL

\* Until a client connects to a running node the replicas are in lockstep.
Undisturbed ==
  /\ connects \in Nat
  /\ connects = 0 => TInv /\ LeaderOfView /\ CertInv /\ CertWeight /\ Lock

\* Connections are only counted up, and the first one ends the lockstep.
LEMMA UndisturbedStep ==
  ASSUME ~Skew, MaxEarly = 0, MaxLost = 0,
         Undisturbed, [ReconNext]_reconVars
  PROVE  Undisturbed'
<1>1. ASSUME NEW n \in Node, ClientConnects(n) PROVE Undisturbed'
  <2>1. connects' = connects + 1
    BY <1>1, Zenon DEF ClientConnects
  <2>2. connects' \in Nat /\ connects' # 0
    BY <2>1 DEF Undisturbed
  <2> QED
    BY <2>2, Zenon DEF Undisturbed
<1>2. ASSUME [SyncNext]_syncVars, connects' = connects PROVE Undisturbed'
  <2> SUFFICES ASSUME connects = 0
               PROVE  TInv' /\ LeaderOfView' /\ CertInv' /\ CertWeight' /\ Lock'
    BY <1>2, Zenon DEF Undisturbed
  <2>1. TInv /\ LeaderOfView /\ CertInv /\ CertWeight /\ Lock /\ TypeOK
    BY Zenon DEF Undisturbed, TInv
  <2>2. TInv' /\ LeaderOfView' /\ CertInv' /\ CertWeight'
    BY <1>2, <2>1, SyncStep, TInvStep, LeaderStep, CertStep, Zenon
  <2>3. Lock'
    BY <1>2, <2>1, LockStep, Zenon
  <2> QED
    BY <2>2, <2>3, Zenon
<1> QED
  BY <1>1, <1>2, Zenon DEF ReconNext, reconVars

\* Until a client connects to a running node, all nodes judge a view by the
\* same reputations (ClientMsgHandler, initialReputationMap).
THEOREM ConsistentTillReconnect ==
  ASSUME ~Skew, MaxEarly = 0, MaxLost = 0
  PROVE  ReconSpec => []ConsistentUntilReconnect
<1>1. ReconInit => Undisturbed
  BY TInvInit, LeaderInit, CertInvInit, LockInit, SMTT(30)
     DEF ReconInit, SyncInit, Undisturbed
<1>2. Undisturbed /\ [ReconNext]_reconVars => Undisturbed'
  BY UndisturbedStep, Zenon
<1>3. Undisturbed => ConsistentUntilReconnect
  BY SameReputations, Zenon DEF Undisturbed, TInv, ConsistentUntilReconnect
<1> QED
  BY <1>1, <1>2, <1>3, PTL DEF ReconSpec

\* The ledger clients see is the abstract one (acks: responses of
\* handleConfirmedBlocks): one growing chain per node, each block the child of
\* the one before it, and no two nodes with different blocks at one position.
THEOREM LedgerImplemented ==
  ASSUME ~Skew, MaxEarly = 0, MaxLost = 0 PROVE SyncSpec => ImplementsLedger
<1>1. SyncInit => L!LInit
  BY SMTT(30) DEF SyncInit, Init, L!LInit
<1>2. TypeOK /\ LeaderOfView /\ CertWeight /\ Lock /\ [SyncNext]_syncVars
        => [L!LNext]_(Logs)
  BY LedgerStep
<1> QED
  BY <1>1, <1>2, LockInvariant, PTL DEF SyncSpec, ImplementsLedger, L!LSpec, Logs
===============================================================================
