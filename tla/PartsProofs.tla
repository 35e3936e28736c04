------------------------------ MODULE PartsProofs ------------------------------
(***************************************************************************)
(* The parts beside the rounds: the abstract ledger keeps its promise, the *)
(* program starts with all streams or none left to try, and the caches of  *)
(* messages are coherent.                                                  *)
(***************************************************************************)
EXTENDS Ledger, Startup, Codec, TLAPS

-------------------------------------------------------------------------------
\* The ledger.

LType == log \in [Node -> Seq(Entry)]

\* Whatever implements the ledger never shows clients two different blocks
\* at one position: the logs of any two replicas agree as far as both go.
THEOREM LedgerConsistent == LSpec => [](LType /\ Consistent)
<1>1. LInit => LType /\ Consistent
  BY DEF LInit, LType, Consistent
<1>2. LType /\ Consistent /\ [LNext]_log => LType' /\ Consistent'
  <2> SUFFICES ASSUME LType, Consistent, [LNext]_log
               PROVE  LType' /\ Consistent'
    OBVIOUS
  <2>1. CASE UNCHANGED log
    BY <2>1 DEF LType, Consistent
  <2>2. ASSUME NEW n \in Node, NEW b \in Entry, Acknowledge(n, b)
        PROVE  LType' /\ Consistent'
    <3>1. LType'
      BY <2>2 DEF LType, Acknowledge
    <3>2. /\ log'[n] = Append(log[n], b)
          /\ \A m \in Node \ {n} : log'[m] = log[m]
      BY <2>2 DEF LType, Acknowledge
    <3>3. \A m \in Node :
            Len(log[m]) > Len(log[n]) => log[m][Len(log[n]) + 1] = b
      BY <2>2 DEF Acknowledge
    <3>4. ASSUME NEW x \in Node, NEW y \in Node,
                 NEW i \in 1..Len(log'[x]), i <= Len(log'[y])
          PROVE  log'[x][i] = log'[y][i]
      <4>1. \A m \in Node : log[m] \in Seq(Entry) /\ Len(log[m]) \in Nat
        BY DEF LType
      <4>2. i \in Nat /\ i >= 1
        BY <3>1 DEF LType
      <4>3. \A m \in Node : i <= Len(log[m]) => log'[m][i] = log[m][i]
        <5>1. i <= Len(log[n]) => Append(log[n], b)[i] = log[n][i]
          BY <4>1, <4>2
        <5> QED
          BY <3>2, <5>1
      <4>4. CASE i <= Len(log[x]) /\ i <= Len(log[y])
        BY <4>1, <4>2, <4>3, <4>4 DEF Consistent
      <4>5. CASE ~(i <= Len(log[x]) /\ i <= Len(log[y]))
        <5>1. i = Len(log[n]) + 1 /\ (x = n \/ y = n) /\ log'[n][i] = b
          BY <3>2, <3>4, <4>1, <4>2, <4>5
        <5>2. \A m \in Node \ {n} : Len(log'[m]) >= i => log'[m][i] = b
          BY <3>2, <3>3, <4>1, <4>2, <5>1
        <5> QED
          BY <3>1, <3>4, <5>1, <5>2 DEF LType
      <4> QED
        BY <4>4, <4>5
    <3> QED
      BY <3>1, <3>4 DEF Consistent
  <2> QED
    BY <2>1, <2>2 DEF LNext
<1> QED
  BY <1>1, <1>2, PTL DEF LSpec

-------------------------------------------------------------------------------
\* Startup.

\* The types that the proofs use.
StartTypes ==
  /\ phase \in [Replica -> {"off", "up", "setup", "running"}]
  /\ handlers \in [Replica -> SUBSET {"ProtocolID", "ClientProtocolID"}]
  /\ tries \in [Replica -> [Replica -> Nat]]
  /\ opening \in [Replica -> SUBSET Replica]
  /\ streamMap \in [Replica -> SUBSET Replica]
  /\ conn \in [Replica -> {"none", "connected", "failed", "open"}]

\* The goroutine for a peer ends with a stream or without attempts left, and
\* Setup ends when all of them have ended.
Ended ==
  \A n \in Replica :
    /\ \A p \in Peers(n) : \/ p \in opening[n]
                           \/ p \in streamMap[n]
                           \/ tries[n][p] = 0
    /\ phase[n] = "running" => opening[n] = {}

\* Who answers clients answers peers, and the client has streams only to
\* replicas that answer clients.
PeersFirst ==
  \A n \in Replica :
    /\ "ClientProtocolID" \in handlers[n] => "ProtocolID" \in handlers[n]
    /\ conn[n] = "open" => "ClientProtocolID" \in handlers[n]

StartInv == StartTypes /\ Ended /\ PeersFirst

\* The inductive invariant holds in the beginning: no goroutine has ended, and
\* nobody answers anyone.
LEMMA StartInvInit == StartInit => StartInv
BY RetriesAssumption DEF StartInit, StartInv, StartTypes, Ended, PeersFirst, Peers

\* Every step of a replica or of the client preserves the types.
LEMMA StartTypesStep == StartTypes /\ [StartNext]_startVars => StartTypes'
<1> SUFFICES ASSUME StartTypes, [StartNext]_startVars PROVE StartTypes'
  OBVIOUS
<1> USE DEF StartTypes, setupVars, clientVars, Enter
<1>1. ASSUME NEW n \in Replica, StartReplica(n) PROVE StartTypes'
  BY <1>1 DEF StartReplica
<1>2. ASSUME NEW n \in Replica, Connect(n) PROVE StartTypes'
  BY <1>2 DEF Connect
<1>3. ASSUME NEW n \in Replica, SetStreamHandler(n) PROVE StartTypes'
  BY <1>3 DEF SetStreamHandler, NextHandler
<1>4. ASSUME NEW n \in Replica, NEW p \in Peers(n), NewStream(n, p) PROVE StartTypes'
  BY <1>4 DEF NewStream, Peers, AddStream
<1>5. ASSUME NEW n \in Replica, NEW p \in Peers(n), NewStreamFails(n, p) PROVE StartTypes'
  <2>1. tries[n][p] - 1 \in Nat
    BY <1>5 DEF NewStreamFails, Attempts, Peers
  <2>2. tries' \in [Replica -> [Replica -> Nat]]
    BY <1>5, <2>1 DEF NewStreamFails, Peers
  <2>3. opening' \in [Replica -> SUBSET Replica]
    BY <1>5 DEF NewStreamFails
  <2> QED
    BY <1>5, <2>2, <2>3 DEF NewStreamFails
<1>6. ASSUME NEW n \in Replica, Start(n) PROVE StartTypes'
  BY <1>6 DEF Start
<1>7. ASSUME NEW n \in Replica, Dial(n) PROVE StartTypes'
  BY <1>7 DEF Dial
<1>8. ASSUME NEW n \in Replica, OpenClientStream(n) PROVE StartTypes'
  BY <1>8 DEF OpenClientStream
<1>9. CASE FinishConnecting
  BY <1>9 DEF FinishConnecting
<1>10. CASE UNCHANGED startVars
  BY <1>10 DEF startVars
<1> QED
  BY <1>1, <1>2, <1>3, <1>4, <1>5, <1>6, <1>7, <1>8, <1>9, <1>10
  DEF StartNext, ReplicaStep, ClientStep

\* A goroutine leaves opening only with its stream or after its last attempt,
\* and a replica runs only when opening is empty.
LEMMA EndedStep == StartTypes /\ Ended /\ [StartNext]_startVars => Ended'
<1> SUFFICES ASSUME StartTypes, Ended, [StartNext]_startVars PROVE Ended'
  OBVIOUS
<1> USE DEF StartTypes, Ended, setupVars, clientVars, Enter
<1>1. ASSUME NEW n \in Replica, StartReplica(n) PROVE Ended'
  BY <1>1 DEF StartReplica
<1>2. ASSUME NEW n \in Replica, Connect(n) PROVE Ended'
  BY <1>2 DEF Connect
<1>3. ASSUME NEW n \in Replica, SetStreamHandler(n) PROVE Ended'
  BY <1>3 DEF SetStreamHandler
<1>4. ASSUME NEW n \in Replica, NEW p \in Peers(n), NewStream(n, p) PROVE Ended'
  BY <1>4 DEF NewStream, Peers, AddStream
<1>5. ASSUME NEW n \in Replica, NEW p \in Peers(n), NewStreamFails(n, p) PROVE Ended'
  <2>1. /\ p \in Replica /\ phase[n] = "setup" /\ tries[n][p] > 0
        /\ tries' = [tries EXCEPT ![n][p] = tries[n][p] - 1]
        /\ opening' = [opening EXCEPT ![n] = IF tries[n][p] = 1
                                             THEN opening[n] \ {p} ELSE opening[n]]
        /\ UNCHANGED <<phase, streamMap>>
        /\ p \in opening[n]
    BY <1>5 DEF NewStreamFails, Attempts, Peers
  <2>2. ASSUME NEW m \in Replica, NEW q \in Peers(m)
        PROVE q \in opening'[m] \/ q \in streamMap'[m] \/ tries'[m][q] = 0
    <3>1. q \in Replica
      BY DEF Peers
    <3>2. CASE m = n /\ q = p
      BY <2>1, <3>1, <3>2
    <3>3. CASE ~(m = n /\ q = p)
      <4>1. tries'[m][q] = tries[m][q]
        BY <2>1, <3>1, <3>3
      <4>2. q \in opening[m] => q \in opening'[m]
        BY <2>1, <3>1, <3>3
      <4> QED
        BY <2>1, <2>2, <4>1, <4>2
    <3> QED
      BY <3>2, <3>3
  <2>3. ASSUME NEW m \in Replica, phase'[m] = "running" PROVE opening'[m] = {}
    BY <2>1, <2>3
  <2> QED
    BY <2>2, <2>3 DEF Peers
<1>6. ASSUME NEW n \in Replica, Start(n) PROVE Ended'
  BY <1>6 DEF Start, SetupFinished
<1>7. ASSUME NEW n \in Replica, Dial(n) PROVE Ended'
  BY <1>7 DEF Dial
<1>8. ASSUME NEW n \in Replica, OpenClientStream(n) PROVE Ended'
  BY <1>8 DEF OpenClientStream
<1>9. CASE FinishConnecting
  BY <1>9 DEF FinishConnecting
<1>10. CASE UNCHANGED startVars
  BY <1>10 DEF startVars
<1> QED
  BY <1>1, <1>2, <1>3, <1>4, <1>5, <1>6, <1>7, <1>8, <1>9, <1>10
  DEF StartNext, ReplicaStep, ClientStep

\* Handlers are only added, the one for peers first, and the client opens
\* streams only to the handler for clients.
LEMMA PeersFirstStep == StartTypes /\ PeersFirst /\ [StartNext]_startVars => PeersFirst'
<1> SUFFICES ASSUME StartTypes, PeersFirst, [StartNext]_startVars PROVE PeersFirst'
  OBVIOUS
<1> USE DEF StartTypes, PeersFirst, setupVars, clientVars
<1>1. ASSUME NEW n \in Replica, SetStreamHandler(n) PROVE PeersFirst'
  BY <1>1 DEF SetStreamHandler, NextHandler
<1>2. ASSUME NEW n \in Replica, Dial(n) PROVE PeersFirst'
  BY <1>2 DEF Dial
<1>3. ASSUME NEW n \in Replica, OpenClientStream(n) PROVE PeersFirst'
  BY <1>3 DEF OpenClientStream
<1>4. ASSUME UNCHANGED <<handlers, conn>> PROVE PeersFirst'
  BY <1>4
<1>5. ASSUME NEW n \in Replica, StartReplica(n) \/ Connect(n) \/ Start(n)
      PROVE UNCHANGED <<handlers, conn>>
  BY <1>5 DEF StartReplica, Connect, Start
<1>6. ASSUME NEW n \in Replica, NEW p \in Peers(n), NewStream(n, p) \/ NewStreamFails(n, p)
      PROVE UNCHANGED <<handlers, conn>>
  BY <1>6 DEF NewStream, NewStreamFails
<1>7. ASSUME FinishConnecting \/ UNCHANGED startVars PROVE UNCHANGED <<handlers, conn>>
  BY <1>7 DEF FinishConnecting, startVars
<1> QED
  BY <1>1, <1>2, <1>3, <1>4, <1>5, <1>6, <1>7 DEF StartNext, ReplicaStep, ClientStep

\* The invariant holds in every behaviour of the start.
LEMMA StartInvariant == StartSpec => []StartInv
<1>1. StartInv /\ [StartNext]_startVars => StartInv'
  BY StartTypesStep, EndedStep, PeersFirstStep DEF StartInv
<1> QED
  BY StartInvInit, <1>1, PTL DEF StartSpec

\* For any number of replicas and of attempts: a replica that runs has the
\* streams to all peers but those on which it has used up its attempts
\* (protocol.go, Setup).
THEOREM StreamsAreKept == StartSpec => []RunsWithStreams
<1>1. StartInv => RunsWithStreams
  BY DEF StartInv, Ended, RunsWithStreams
<1> QED
  BY StartInvariant, <1>1, PTL

\* For any number of replicas and of attempts: once a client sends to all
\* replicas, no replica fails to open a stream (protocol.go, Setup; client.go,
\* main).
THEOREM ServingIsConnected == StartSpec => NoFailureOnceServing
<1> DEFINE Serving == client = "sending" /\ connectedNodes = Replica
<1>1. StartInv /\ [StartNext]_startVars => (Serving => tries' = tries)
  <2> SUFFICES ASSUME StartInv, [StartNext]_startVars, Serving PROVE tries' = tries
    OBVIOUS
  <2>1. \A p \in Replica : "ProtocolID" \in handlers[p]
    BY DEF StartInv, PeersFirst, connectedNodes
  <2>2. ASSUME NEW n \in Replica, NEW p \in Peers(n), NewStreamFails(n, p) PROVE FALSE
    BY <2>1, <2>2 DEF NewStreamFails, Peers
  <2> QED
    BY <2>2 DEF StartNext, ReplicaStep, ClientStep, StartReplica, Connect,
      SetStreamHandler, NewStream, Start, Dial, OpenClientStream, FinishConnecting,
      startVars, setupVars, clientVars
<1>2. StartInv /\ [StartNext]_startVars => [Serving => tries' = tries]_startVars
  BY <1>1
<1> QED
  BY StartInvariant, <1>2, PTL DEF StartSpec, NoFailureOnceServing

-------------------------------------------------------------------------------
\* Codecs.

CertMsg == [data : Info, ids : Seq(Voter), sigs : Seq(Sig)]

\* No signer twice, and a signature for each.
Signed(m) ==
  /\ Len(m.ids) = Len(m.sigs)
  /\ \A i, j \in 1..Len(m.ids) : m.ids[i] = m.ids[j] => i = j

\* What every order of calls keeps true of a certificate.  A cache marked valid
\* has the certificate's info, and its signers until more are added.
CertOK(c) ==
  /\ c \in [info : Info \cup {nil}, ids : Seq(Voter), sigs : Seq(Sig),
            voteMap : VoteMap \cup {nil}, proto : CertMsg \cup {nil},
            valid : BOOLEAN \cup {nil}]
  /\ Signed(c)
  /\ c.voteMap = nil => Len(c.ids) = 0
  /\ \A i \in 1..Len(c.ids) : /\ c.ids[i] \in DOMAIN c.voteMap
                              /\ c.voteMap[c.ids[i]] = c.sigs[i]
  /\ c.proto # nil /\ c.valid = TRUE =>
       /\ c.proto.data = c.info
       /\ Len(c.proto.ids) <= Len(c.ids)
       /\ Len(c.proto.ids) = Len(c.ids) => c.proto.ids = c.ids /\ c.proto.sigs = c.sigs

\* The messages that blocks are made of.
BlockMsg == {NewCandidateProposal(x, e) : x \in Info, e \in Proposed}
              \cup {createAnEmptyBlock(x) : x \in Info}

BlockOK(b) == b = NoBlock \/ \E m \in BlockMsg : b = BlockFromProto(NoBlock, m)

\* The cache of a replica's configuration is its content.
ConfigOK(c) ==
  \/ c = NoConfig
  \/ \E x \in Info, y \in Info \cup {nil} :
       c = [content |-> x, proto |-> y] /\ (kind = "node" => y = x)

ObjectOK(x) ==
  CASE kind = "cert" -> CertOK(x) [] kind = "block" -> BlockOK(x) [] OTHER -> ConfigOK(x)

MessageOK(m) ==
  CASE kind = "cert" -> m \in CertMsg /\ Signed(m)
    [] kind = "block" -> m \in BlockMsg
    [] OTHER -> m \in Info

\* The inductive invariant.
CodecInv ==
  /\ kind \in Kind
  /\ obj = [o \in Object |-> obj[o]]
  /\ \A o \in Object : ObjectOK(obj[o])
  /\ wire = nil \/ MessageOK(wire)

-------------------------------------------------------------------------------
\* Certificates.

\* A map from some voters to signatures is a map of votes, and there.
LEMMA VoteMapType ==
  ASSUME NEW S \in SUBSET Voter, NEW f \in [S -> Sig]
  PROVE  f \in VoteMap /\ f # nil
<1>1. f \in VoteMap
  BY Zenon DEF VoteMap
<1> QED BY <1>1, NilAssumption

\* The message that a certificate gives away is its content, cached or not.
LEMMA CertFresh ==
  ASSUME NEW c, CertOK(c)
  PROVE  CertToProto(c) = MarshalCert(c)
BY DEF CertOK, CertToProto, CertCached, MarshalCert, CertMsg

\* SetBlockInfo keeps the certificate in order.
LEMMA CertSetInfo ==
  ASSUME NEW c, CertOK(c), NEW h \in Info
  PROVE  CertOK(SetBlockInfo(c, h))
BY Zenon DEF CertOK, SetBlockInfo, Signed

\* So does Init.
LEMMA CertInitVotes ==
  ASSUME NEW c, CertOK(c), c.voteMap = nil
  PROVE  CertOK(InitVotes(c))
<1> DEFINE d == InitVotes(c)
<1>1. <<>> \in VoteMap
  <2>1. <<>> \in [{} -> Sig]
    OBVIOUS
  <2> QED BY <2>1 DEF VoteMap
<1> QED BY <1>1 DEF CertOK, InitVotes, Signed

\* AddSignature, the part that AddVote and NewCert share: the cache, if it is
\* still marked valid, is now shorter than the certificate.
LEMMA CertAddSignature ==
  ASSUME NEW c, CertOK(c), c.voteMap # nil,
         NEW v \in Voter, NEW sig \in Sig,
         \A i \in 1..Len(c.ids) : c.ids[i] # v
  PROVE  /\ CertOK(AddSignature(c, v, sig))
         /\ CertOK(AddVote(c, v, sig))
<1> DEFINE map == [i \in DOMAIN c.voteMap \cup {v} |->
                     IF i = v THEN sig ELSE c.voteMap[i]]
           ids == Append(c.ids, v)
           sigs == Append(c.sigs, sig)
           d == [c EXCEPT !.ids = ids, !.sigs = sigs, !.voteMap = map]
           e == [d EXCEPT !.valid = FALSE]
<1>1. PICK S \in SUBSET Voter : c.voteMap \in [S -> Sig]
  BY DEF CertOK, VoteMap
<1>2. map \in [S \cup {v} -> Sig]
  BY <1>1
<1>3. map \in VoteMap /\ map # nil
  <2>1. S \cup {v} \in SUBSET Voter
    OBVIOUS
  <2> HIDE DEF map
  <2> QED BY <1>2, <2>1, VoteMapType
<1>4. /\ ids \in Seq(Voter) /\ Len(ids) = Len(c.ids) + 1
      /\ ids[Len(c.ids) + 1] = v
      /\ \A i \in 1..Len(c.ids) : ids[i] = c.ids[i]
      /\ sigs \in Seq(Sig) /\ Len(sigs) = Len(c.ids) + 1
      /\ sigs[Len(c.ids) + 1] = sig
      /\ \A i \in 1..Len(c.ids) : sigs[i] = c.sigs[i]
      /\ Len(c.ids) \in Nat
  BY DEF CertOK, Signed
<1>5. /\ map[v] = sig
      /\ v \in DOMAIN map
      /\ \A i \in DOMAIN c.voteMap : i # v => i \in DOMAIN map /\ map[i] = c.voteMap[i]
  OBVIOUS
<1>6. c.proto # nil => Len(c.proto.ids) \in Nat
  BY DEF CertOK, CertMsg
<1>7. AddSignature(c, v, sig) = d /\ AddVote(c, v, sig) = e
  <2>1. AddSignature(c, v, sig) = d
    BY Zenon DEF AddSignature
  <2> QED BY <2>1, Zenon DEF AddVote
<1> HIDE DEF map, ids, sigs
<1>8. \A i \in 1..Len(ids) : ids[i] \in DOMAIN map /\ map[ids[i]] = sigs[i]
  <2> TAKE i \in 1..Len(ids)
  <2>1. CASE i = Len(c.ids) + 1
    BY <2>1, <1>4, <1>5
  <2>2. CASE i \in 1..Len(c.ids)
    <3>1. c.ids[i] \in DOMAIN c.voteMap /\ c.voteMap[c.ids[i]] = c.sigs[i] /\ c.ids[i] # v
      BY <2>2 DEF CertOK
    <3> QED BY <3>1, <2>2, <1>4, <1>5
  <2> QED BY <2>1, <2>2, <1>4
<1>9. \A i, j \in 1..Len(ids) : ids[i] = ids[j] => i = j
  <2> DEFINE k == Len(c.ids)
  <2>1. \A i, j \in 1..k : c.ids[i] = c.ids[j] => i = j
    BY Zenon DEF CertOK, Signed
  <2>2. \A i \in 1..Len(ids) : i = k + 1 \/ i \in 1..k
    BY <1>4
  <2> SUFFICES ASSUME NEW i \in 1..Len(ids), NEW j \in 1..Len(ids), ids[i] = ids[j]
               PROVE  i = j
    BY Zenon
  <2>3. CASE i \in 1..k /\ j \in 1..k
    BY <1>4, <2>1, <2>3, Zenon
  <2>4. CASE (i = k + 1 /\ j \in 1..k) \/ (i \in 1..k /\ j = k + 1)
    BY <1>4, <2>4, Zenon
  <2>5. (i = k + 1 \/ i \in 1..k) /\ (j = k + 1 \/ j \in 1..k)
    BY <2>2, Zenon
  <2> QED BY <2>3, <2>4, <2>5, Zenon
<1> DEFINE T == [info : Info \cup {nil}, ids : Seq(Voter), sigs : Seq(Sig),
                 voteMap : VoteMap \cup {nil}, proto : CertMsg \cup {nil},
                 valid : BOOLEAN \cup {nil}]
<1>10. /\ d \in T /\ d.info = c.info /\ d.ids = ids /\ d.sigs = sigs
       /\ d.voteMap = map /\ d.proto = c.proto /\ d.valid = c.valid
       /\ e \in T /\ e.info = c.info /\ e.ids = ids /\ e.sigs = sigs
       /\ e.voteMap = map /\ e.proto = c.proto /\ e.valid = FALSE
  BY <1>3, <1>4, Zenon DEF CertOK
<1> HIDE DEF d, e
<1>11. c.proto # nil /\ c.valid = TRUE =>
         c.proto.data = c.info /\ Len(c.proto.ids) < Len(ids)
  BY <1>4, <1>6 DEF CertOK
<1> HIDE DEF T
<1>12. Signed(d) /\ Signed(e)
  <2>1. Len(ids) = Len(sigs)
    BY <1>4
  <2> QED BY <2>1, <1>9, <1>10 DEF Signed
<1>13. CertOK(d)
  <2>1. d.proto # nil /\ d.valid = TRUE =>
         /\ d.proto.data = d.info
         /\ Len(d.proto.ids) <= Len(d.ids)
         /\ Len(d.proto.ids) = Len(d.ids) => d.proto.ids = d.ids /\ d.proto.sigs = d.sigs
    BY <1>4, <1>6, <1>10, <1>11
  <2> QED BY <2>1, <1>3, <1>8, <1>10, <1>12 DEF CertOK, T
<1>14. CertOK(e)
  BY <1>3, <1>8, <1>10, <1>12 DEF CertOK, T
<1> QED BY <1>7, <1>13, <1>14

\* ToProto fills the cache with the content, and sends no signer twice.
LEMMA CertWritten ==
  ASSUME NEW c, CertOK(c), c.info # nil
  PROVE  /\ CertOK(CertAfterToProto(c))
         /\ CertToProto(c) \in CertMsg /\ Signed(CertToProto(c))
<1>1. MarshalCert(c) \in CertMsg /\ Signed(MarshalCert(c))
  BY DEF CertOK, MarshalCert, Signed, CertMsg
<1>2. CASE CertCached(c)
  BY <1>1, <1>2, CertFresh DEF CertAfterToProto
<1>3. CASE ~CertCached(c)
  <2>1. CertAfterToProto(c) = [info |-> c.info, ids |-> c.ids, sigs |-> c.sigs,
          voteMap |-> c.voteMap, proto |-> MarshalCert(c), valid |-> TRUE]
    BY <1>3, Zenon DEF CertAfterToProto, CertOK
  <2>2. CertOK(CertAfterToProto(c))
    BY <1>1, <2>1 DEF CertOK, Signed, MarshalCert
  <2> QED BY <1>1, <2>2, CertFresh
<1> QED BY <1>2, <1>3

\* FromProto finds in the message the last signature of each signer.
LEMMA CertRead ==
  ASSUME NEW c, CertOK(c), NEW m \in CertMsg, Signed(m)
  PROVE  CertOK(CertFromProto(c, m))
<1> DEFINE V == {m.ids[i] : i \in 1..Len(m.ids)}
           last(v) == CHOOSE i \in 1..Len(m.ids) :
                        /\ m.ids[i] = v
                        /\ \A j \in (i + 1)..Len(m.ids) : m.ids[j] # v
           map == [v \in V |-> m.sigs[last(v)]]
<1>1. \A i \in 1..Len(m.ids) : last(m.ids[i]) = i
  <2> SUFFICES ASSUME NEW i \in 1..Len(m.ids) PROVE last(m.ids[i]) = i
    BY Zenon
  <2>1. \A j \in (i + 1)..Len(m.ids) : m.ids[j] # m.ids[i]
    BY DEF Signed, CertMsg
  <2>2. \A k \in 1..Len(m.ids) : m.ids[k] = m.ids[i] => k = i
    BY DEF Signed
  <2> QED BY <2>1, <2>2
<1> HIDE DEF last
<1>2. V \subseteq Voter
  BY DEF CertMsg
<1>3. \A v \in V : m.sigs[last(v)] \in Sig
  BY <1>1 DEF CertMsg, Signed
<1>4. map \in [V -> Sig]
  BY <1>3
<1>5. map \in VoteMap /\ map # nil
  <2> HIDE DEF map, V
  <2> QED BY <1>2, <1>4, VoteMapType
<1>6. \A i \in 1..Len(m.ids) : m.ids[i] \in DOMAIN map /\ map[m.ids[i]] = m.sigs[i]
  BY <1>1
<1>7. CertFromProto(c, m) = [info |-> m.data, ids |-> m.ids, sigs |-> m.sigs,
                             voteMap |-> map, proto |-> m, valid |-> c.valid]
  BY DEF CertFromProto, last
<1> HIDE DEF map
<1>8. /\ m.data \in Info /\ m.ids \in Seq(Voter) /\ m.sigs \in Seq(Sig)
      /\ c.valid \in BOOLEAN \cup {nil}
      /\ Len(m.ids) \in Nat
  BY DEF CertMsg, CertOK
<1> QED BY <1>5, <1>6, <1>7, <1>8 DEF CertOK, Signed

-------------------------------------------------------------------------------
\* An assignment of one object that leaves it in order, like all the others.
LEMMA ObjectSet ==
  ASSUME CodecInv, NEW o \in Object, NEW x, Set(o, x), ObjectOK(x),
         kind' = kind, wire' = nil \/ MessageOK(wire')
  PROVE  CodecInv'
<1>1. \A p \in Object : obj'[p] = IF p = o THEN x ELSE obj[p]
  BY DEF CodecInv, Set
<1>2. obj' = [p \in Object |-> obj'[p]]
  BY DEF CodecInv, Set
<1>3. \A p \in Object : ObjectOK(obj'[p])
  BY <1>1 DEF CodecInv
<1>4. \A p \in Object : ObjectOK(obj[p])'
  BY <1>3, SMTT(30) DEF ObjectOK, ConfigOK
<1>5. (wire = nil \/ MessageOK(wire))'
  BY DEF MessageOK
<1> QED BY <1>2, <1>4, <1>5 DEF CodecInv

\* The calls on a certificate.
LEMMA CertCalls ==
  ASSUME CodecInv, NEW o \in Object, CertStep(o), UNCHANGED kind
  PROVE  CodecInv'
<1> DEFINE c == obj[o]
<1>1. kind = "cert"
  BY DEF CertStep
<1>2. CertOK(c)
  BY <1>1 DEF CodecInv, ObjectOK
<1>3. \A x : CertOK(x) => ObjectOK(x)
  BY <1>1 DEF ObjectOK
<1>4. wire = nil \/ (wire \in CertMsg /\ Signed(wire))
  BY <1>1 DEF CodecInv, MessageOK
<1>5. \A m \in CertMsg : Signed(m) => MessageOK(m)
  BY <1>1 DEF MessageOK
<1>6. wire' = wire => wire' = nil \/ MessageOK(wire')
  BY <1>4, <1>5
<1>7. CASE \E h \in Info : Set(o, SetBlockInfo(c, h)) /\ UNCHANGED wire
  BY <1>7, <1>2, <1>3, <1>6, CertSetInfo, ObjectSet
<1>8. CASE c.voteMap = nil /\ Set(o, InitVotes(c)) /\ UNCHANGED wire
  BY <1>8, <1>2, <1>3, <1>6, CertInitVotes, ObjectSet
<1>9. CASE /\ c.voteMap # nil
           /\ \E v \in Voter, sig \in Sig :
                /\ \A i \in 1..Len(c.ids) : c.ids[i] # v
                /\ \/ Set(o, AddVote(c, v, sig))
                   \/ Set(o, AddSignature(c, v, sig))
           /\ UNCHANGED wire
  BY <1>9, <1>2, <1>3, <1>6, CertAddSignature, ObjectSet
<1>10. CASE /\ c.info # nil
            /\ wire' = CertToProto(c)
            /\ Set(o, CertAfterToProto(c))
  BY <1>10, <1>2, <1>3, <1>5, CertWritten, ObjectSet
<1>11. CASE wire # nil /\ Set(o, CertFromProto(c, wire)) /\ UNCHANGED wire
  BY <1>11, <1>2, <1>3, <1>4, <1>6, CertRead, ObjectSet
<1> QED BY <1>7, <1>8, <1>9, <1>10, <1>11 DEF CertStep

\* The calls on a block.
LEMMA BlockCalls ==
  ASSUME CodecInv, NEW o \in Object, BlockStep(o), UNCHANGED kind
  PROVE  CodecInv'
<1> DEFINE b == obj[o]
<1>1. kind = "block"
  BY DEF BlockStep
<1>2. BlockOK(b)
  BY <1>1 DEF CodecInv, ObjectOK
<1>3. \A x : BlockOK(x) => ObjectOK(x)
  BY <1>1 DEF ObjectOK
<1>4. wire = nil \/ wire \in BlockMsg
  BY <1>1 DEF CodecInv, MessageOK
<1>5. \A m \in BlockMsg : MessageOK(m)
  BY <1>1 DEF MessageOK
<1>6. \A m \in BlockMsg : ObjectOK(BlockFromProto(b, m))
  BY <1>3 DEF BlockOK, BlockFromProto
<1>7. CASE /\ \E x \in Info :
                \/ \E e \in Proposed : Set(o, BlockFromProto(b, NewCandidateProposal(x, e)))
                \/ Set(o, BlockFromProto(b, createAnEmptyBlock(x)))
           /\ UNCHANGED wire
  <2>1. PICK m \in BlockMsg : Set(o, BlockFromProto(b, m))
    BY <1>7 DEF BlockMsg
  <2> QED BY <1>7, <2>1, <1>4, <1>5, <1>6, ObjectSet
<1>8. CASE b.proto # nil /\ wire' = BlockToProto(b) /\ UNCHANGED obj
  <2>1. PICK m \in BlockMsg : b = BlockFromProto(NoBlock, m)
    BY <1>2, <1>8 DEF BlockOK, NoBlock
  <2>2. b.proto = m
    BY <2>1 DEF BlockFromProto
  <2>3. MessageOK(wire') /\ Set(o, b)
    BY <2>2, <1>5, <1>8 DEF BlockToProto, Set, CodecInv
  <2> QED BY <2>3, <1>2, <1>3, ObjectSet
<1>9. CASE wire # nil /\ Set(o, BlockFromProto(b, wire)) /\ UNCHANGED wire
  BY <1>9, <1>4, <1>5, <1>6, ObjectSet
<1> QED BY <1>7, <1>8, <1>9 DEF BlockStep

\* The calls on a configuration.
LEMMA ConfigCalls ==
  ASSUME CodecInv, NEW o \in Object, ConfigStep(o), UNCHANGED kind
  PROVE  CodecInv'
<1> DEFINE c == obj[o]
<1>1. kind \in {"node", "client"}
  BY DEF ConfigStep
<1>2. ConfigOK(c)
  BY <1>1 DEF CodecInv, ObjectOK
<1>3. \A x : ConfigOK(x) => ObjectOK(x)
  BY <1>1 DEF ObjectOK
<1>4. wire = nil \/ wire \in Info
  BY <1>1 DEF CodecInv, MessageOK
<1>5. \A x \in Info : MessageOK(x)
  BY <1>1 DEF MessageOK
<1>6. \A x \in Info : ObjectOK(ConfigFromProto(c, x))
  <2> TAKE x \in Info
  <2>1. PICK u, y \in Info \cup {nil} : c = [content |-> u, proto |-> y]
    BY <1>2, Zenon DEF ConfigOK, NoConfig
  <2> DEFINE d == [content |-> u, proto |-> y]
             w == IF kind = "node" THEN x ELSE d.proto
  <2>2. ConfigFromProto(c, x) = [content |-> x, proto |-> w]
    <3>1. ConfigFromProto(d, x) = [d EXCEPT !.content = x, !.proto = w]
      BY DEF ConfigFromProto
    <3> HIDE DEF w
    <3>2. ConfigFromProto(d, x) = [content |-> x, proto |-> w]
      BY <3>1, Zenon
    <3> QED BY <2>1, <3>2
  <2>3. w \in Info \cup {nil} /\ (kind = "node" => w = x)
    BY <2>1
  <2> HIDE DEF w, d
  <2>4. ConfigOK(ConfigFromProto(c, x))
    BY <2>2, <2>3, Zenon DEF ConfigOK
  <2> QED BY <2>4, <1>3
<1>7. CASE \E x \in Info : Set(o, ConfigFromProto(c, x)) /\ UNCHANGED wire
  BY <1>7, <1>4, <1>5, <1>6, ObjectSet
<1>8. CASE /\ c.content # nil
           /\ wire' = ConfigToProto(c)
           /\ Set(o, ConfigAfterToProto(c)) \/ UNCHANGED obj
  <2>1. PICK x \in Info, y \in Info \cup {nil} :
          c = [content |-> x, proto |-> y] /\ (kind = "node" => y = x)
    BY <1>2, <1>8 DEF ConfigOK, NoConfig
  <2>2. wire' \in Info /\ (kind = "node" => wire' = x)
    BY <2>1, <1>8 DEF ConfigToProto
  <2>3. ConfigAfterToProto(c) = [content |-> x, proto |-> wire']
    BY <2>1, <1>8 DEF ConfigAfterToProto
  <2>4. ConfigOK(ConfigAfterToProto(c))
    BY <2>2, <2>3, Zenon DEF ConfigOK
  <2>5. UNCHANGED obj => Set(o, c)
    BY DEF Set, CodecInv
  <2> QED BY <1>2, <1>3, <1>5, <1>8, <2>2, <2>4, <2>5, ObjectSet
<1>9. CASE /\ wire # nil
           /\ Set(o, ConfigFromProto(c, wire)) \/ UNCHANGED obj
           /\ UNCHANGED wire
  <2>1. UNCHANGED obj => Set(o, c)
    BY DEF Set, CodecInv
  <2> QED BY <1>2, <1>3, <1>9, <2>1, <1>4, <1>5, <1>6, ObjectSet
<1> QED BY <1>7, <1>8, <1>9 DEF ConfigStep

\* The invariant is one.
THEOREM CodecInvariant == CodecSpec => []CodecInv
<1>1. CodecInit => CodecInv
  <2> SUFFICES ASSUME CodecInit PROVE CodecInv
    OBVIOUS
  <2>1. CASE kind = "cert"
    <3>1. CertOK(NoCert)
      BY DEF CertOK, NoCert, Signed
    <3> QED BY <2>1, <3>1 DEF CodecInit, CodecInv, ObjectOK, New, Kind
  <2>2. CASE kind = "block"
    BY <2>2 DEF CodecInit, CodecInv, ObjectOK, New, Kind, BlockOK
  <2>3. CASE kind \in {"node", "client"}
    BY <2>3 DEF CodecInit, CodecInv, ObjectOK, New, Kind, ConfigOK
  <2> QED BY <2>1, <2>2, <2>3 DEF CodecInit, Kind
<1>2. CodecInv /\ [CodecNext]_codecVars => CodecInv'
  <2>1. ASSUME CodecInv, CodecNext PROVE CodecInv'
    BY <2>1, CertCalls, BlockCalls, ConfigCalls DEF CodecNext
  <2>2. ASSUME CodecInv, UNCHANGED codecVars PROVE CodecInv'
    BY <2>2 DEF CodecInv, codecVars, ObjectOK, MessageOK, ConfigOK
  <2> QED BY <2>1, <2>2
<1> QED BY <1>1, <1>2, PTL DEF CodecSpec

\* No cache of a certificate, a block or a replica's configuration is stale:
\* whatever was called before, on whatever contents, ToProto gives the present
\* content (blockcert.go, extblock.go, node-conf.go).
THEOREM CachesCoherent == CodecSpec => []CacheCoherent
<1>1. CodecInv => CacheCoherent
  <2> SUFFICES ASSUME CodecInv, kind # "client", NEW o \in Object, obj[o] # New(kind)
               PROVE  ToProto(obj[o]) = Content(obj[o])
    BY DEF CacheCoherent
  <2>1. CASE kind = "cert"
    BY <2>1, CertFresh DEF CodecInv, ObjectOK, ToProto, Content
  <2>2. CASE kind = "block"
    <3>1. PICK m \in BlockMsg : obj[o] = BlockFromProto(NoBlock, m)
      BY <2>2 DEF CodecInv, ObjectOK, BlockOK, New
    <3>2. m = [header |-> m.header, hash |-> m.hash]
      <4>1. PICK x \in Info : \/ \E e \in Proposed : m = NewCandidateProposal(x, e)
                              \/ m = createAnEmptyBlock(x)
        BY <3>1 DEF BlockMsg
      <4>2. CASE \E e \in Proposed : m = NewCandidateProposal(x, e)
        BY <4>2 DEF NewCandidateProposal
      <4>3. CASE m = createAnEmptyBlock(x)
        BY <4>3 DEF createAnEmptyBlock
      <4> QED BY <4>1, <4>2, <4>3
    <3> QED BY <2>2, <3>1, <3>2 DEF ToProto, Content, BlockToProto, BlockFromProto
  <2>3. CASE kind = "node"
    BY <2>3, NilAssumption
       DEF CodecInv, ObjectOK, ToProto, Content, ConfigOK, ConfigToProto, New
  <2> QED BY <2>1, <2>2, <2>3 DEF CodecInv, Kind
<1> QED BY <1>1, CodecInvariant, PTL

\* IsCertValid finds every signer's signature, in certificates built here and
\* in those read from any number of messages.
THEOREM EverySignatureFound == CodecSpec => []SignaturesFound
<1>1. CodecInv => SignaturesFound
  BY DEF CodecInv, ObjectOK, CertOK, SignaturesFound, GetSignatureFromID
<1> QED BY <1>1, CodecInvariant, PTL

\* The hash of a block, cached or computed, tells its header, for any blocks
\* and in any order of reading them into one another.
THEOREM HashesIdentifyHeaders == CodecSpec => []HashIdentifiesHeader
<1>1. ASSUME CodecInv, kind = "block", NEW o \in Object, obj[o] # NoBlock
      PROVE  \E x \in Info :
               \/ /\ \E e \in Proposed : obj[o].header = [parent |-> x, extra |-> e]
                  /\ GetBlockHash(obj[o]) = <<"digest", obj[o].header>>
               \/ /\ obj[o].header = [parent |-> x, extra |-> "E"]
                  /\ GetBlockHash(obj[o]) = <<"bytes", x>>
  <2>1. PICK m \in BlockMsg : obj[o] = BlockFromProto(NoBlock, m)
    BY <1>1 DEF CodecInv, ObjectOK, BlockOK
  <2>2. PICK x \in Info : \/ \E e \in Proposed : m = NewCandidateProposal(x, e)
                          \/ m = createAnEmptyBlock(x)
    BY <2>1 DEF BlockMsg
  <2>3. ASSUME NEW e \in Proposed, m = NewCandidateProposal(x, e)
        PROVE  /\ obj[o].header = [parent |-> x, extra |-> e]
               /\ GetBlockHash(obj[o]) = <<"digest", obj[o].header>>
    <3> DEFINE h == [parent |-> x, extra |-> e]
    <3>1. obj[o].header = h /\ obj[o].hash = DoHash(h)
      BY <2>1, <2>3 DEF BlockFromProto, NewCandidateProposal
    <3>2. h \in Header
      BY DEF Header
    <3>3. DoHash(h) # nil /\ DoHash(h) # EmptyHash
      BY <3>2, NilAssumption DEF DoHash, EmptyHash
    <3> QED BY <3>1, <3>3 DEF GetBlockHash, DoHash
  <2>4. CASE m = createAnEmptyBlock(x)
    BY <2>1, <2>4 DEF BlockFromProto, createAnEmptyBlock, GetBlockHash, ToHash
  <2> QED BY <2>2, <2>3, <2>4, Zenon
<1>2. CodecInv => HashIdentifiesHeader
  <2> SUFFICES ASSUME CodecInv, kind = "block", NEW o \in Object, NEW p \in Object,
                      obj[o] # NoBlock, obj[p] # NoBlock
               PROVE  /\ GetBlockHash(obj[o]) # EmptyHash
                      /\ GetBlockHash(obj[o]) = GetBlockHash(obj[p])
                           <=> obj[o].header = obj[p].header
    BY Zenon DEF HashIdentifiesHeader
  <2> DEFINE Digest(b, x) == /\ \E e \in Proposed : b.header = [parent |-> x, extra |-> e]
                             /\ GetBlockHash(b) = <<"digest", b.header>>
             Bytes(b, x) == /\ b.header = [parent |-> x, extra |-> "E"]
                            /\ GetBlockHash(b) = <<"bytes", x>>
  <2>1. PICK x \in Info : Digest(obj[o], x) \/ Bytes(obj[o], x)
    BY <1>1, Zenon
  <2>2. PICK y \in Info : Digest(obj[p], y) \/ Bytes(obj[p], y)
    BY <1>1, Zenon
  <2>3. CASE Digest(obj[o], x) /\ Digest(obj[p], y)
    BY <2>3 DEF EmptyHash
  <2>4. CASE Bytes(obj[o], x) /\ Bytes(obj[p], y)
    BY <2>4 DEF EmptyHash
  <2>5. CASE Digest(obj[o], x) /\ Bytes(obj[p], y)
    BY <2>5 DEF EmptyHash, Proposed
  <2>6. CASE Bytes(obj[o], x) /\ Digest(obj[p], y)
    BY <2>6 DEF EmptyHash, Proposed
  <2> QED BY <2>1, <2>2, <2>3, <2>4, <2>5, <2>6, Zenon
<1> QED BY <1>2, CodecInvariant, PTL
===============================================================================
