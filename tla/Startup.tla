------------------------------- MODULE Startup --------------------------------
(***************************************************************************)
(* From the configuration files to the first command: tools/ writes the    *)
(* configurations, each replica connects to the others and opens a stream  *)
(* to each of them with a bounded number of attempts (node/node.go and     *)
(* Setup in consensus/protocol.go), and the client connects to whatever    *)
(* replicas it can reach and starts to send (main in client/client.go).    *)
(* Replicas and client start at any time and in any order.                 *)
(***************************************************************************)
EXTENDS Integers, FiniteSets

CONSTANTS
  NodeSize,   \* option -n of the generator
  Retries     \* attempts to open a stream to a peer (300 in the code)

ASSUME NodeSizeAssumption == NodeSize \in Nat \ {0}
ASSUME RetriesAssumption == Retries \in Nat

VARIABLES
  phase,      \* how far the main program of each replica is
  handlers,   \* the protocols each replica answers
  tries,      \* tries[n][p]: attempts left to open n's stream to p
  opening,    \* opening[n]: the peers whose goroutine in Setup still runs
  streamMap,  \* the peers each replica has a stream to
  conn,       \* the client's connection to each replica
  client      \* the client's main program

setupVars == <<tries, opening, streamMap>>
clientVars == <<conn, client>>
startVars == <<phase, handlers, setupVars, clientVars>>

-------------------------------------------------------------------------------
\* The configurations that the generator writes agree on the replicas, and
\* the client's has no Faults, which reads as 0.
Replica == 0..(NodeSize - 1)
ClientFaults == 0

Peers(n) == Replica \ {n}

StartInit ==
  /\ phase = [n \in Replica |-> "off"]
  /\ handlers = [n \in Replica |-> {}]
  /\ tries = [n \in Replica |-> [p \in Replica |-> Retries]]
  /\ opening = [n \in Replica |-> Peers(n)]
  /\ streamMap = [n \in Replica |-> {}]
  /\ conn = [n \in Replica |-> "none"]
  /\ client = "connecting"

-------------------------------------------------------------------------------
\* A replica.

Enter(n, ph) == phase' = [phase EXCEPT ![n] = ph]

\* main reads the configuration; net.Setup listens for the peers.
StartReplica(n) ==
  /\ phase[n] = "off"
  /\ Enter(n, "up")
  /\ UNCHANGED <<handlers, setupVars, clientVars>>

\* netw.Connect returns when every peer has been reached; Setup then creates
\* the host for the clients.
Connect(n) ==
  /\ phase[n] = "up"
  /\ \A p \in Replica : phase[p] # "off"
  /\ Enter(n, "setup")
  /\ UNCHANGED <<handlers, setupVars, clientVars>>

\* Mutant: the two calls are swapped.
ClientsFirst(n) ==
  IF handlers[n] = {} THEN "ClientProtocolID" ELSE "ProtocolID"

\* The handler that Setup installs next.
NextHandler(n) ==
  IF handlers[n] = {} THEN "ProtocolID" ELSE "ClientProtocolID"

SetStreamHandler(n) ==
  /\ phase[n] = "setup"
  /\ Cardinality(handlers[n]) < 2
  /\ handlers' = [handlers EXCEPT ![n] = @ \cup {NextHandler(n)}]
  /\ UNCHANGED <<phase, setupVars, clientVars>>

Attempts(n, p) ==
  /\ phase[n] = "setup"
  /\ Cardinality(handlers[n]) = 2
  /\ p \in opening[n]
  /\ tries[n][p] > 0

\* Mutant: the map is written from a copy, without netMutex.
LastStreamOnly(n, p) == {p}

AddStream(n, p) == streamMap[n] \cup {p}

\* An attempt succeeds if the peer answers the protocol by now.
NewStream(n, p) ==
  /\ Attempts(n, p)
  /\ "ProtocolID" \in handlers[p]
  /\ streamMap' = [streamMap EXCEPT ![n] = AddStream(n, p)]
  /\ opening' = [opening EXCEPT ![n] = @ \ {p}]
  /\ UNCHANGED <<phase, handlers, tries, clientVars>>

\* After the last failure the goroutine ends without a stream.
NewStreamFails(n, p) ==
  /\ Attempts(n, p)
  /\ "ProtocolID" \notin handlers[p]
  /\ tries' = [tries EXCEPT ![n][p] = @ - 1]
  /\ opening' = [opening EXCEPT ![n] = IF tries[n][p] = 1 THEN @ \ {p} ELSE @]
  /\ UNCHANGED <<phase, handlers, streamMap, clientVars>>

\* Mutant: a goroutine that gives up does not call wg.Done.
WaitForStreams(n) == streamMap[n] = Peers(n)

SetupFinished(n) == opening[n] = {}

\* The end of Setup, and Start.
Start(n) ==
  /\ phase[n] = "setup"
  /\ SetupFinished(n)
  /\ Enter(n, "running")
  /\ UNCHANGED <<handlers, setupVars, clientVars>>

ReplicaStep(n) ==
  \/ Connect(n)
  \/ SetStreamHandler(n)
  \/ \E p \in Peers(n) : NewStream(n, p) \/ NewStreamFails(n, p)
  \/ Start(n)

-------------------------------------------------------------------------------
\* The client.

\* One call of Connect for each replica: an error ends the goroutine.
Dial(n) ==
  /\ client = "connecting" /\ conn[n] = "none"
  /\ conn' = [conn EXCEPT ![n] =
                IF phase[n] \in {"setup", "running"} THEN "connected" ELSE "failed"]
  /\ UNCHANGED <<phase, handlers, setupVars, client>>

\* NewStream is repeated until it succeeds.
OpenClientStream(n) ==
  /\ conn[n] = "connected"
  /\ "ClientProtocolID" \in handlers[n]
  /\ conn' = [conn EXCEPT ![n] = "open"]
  /\ UNCHANGED <<phase, handlers, setupVars, client>>

connectedNodes == {n \in Replica : conn[n] = "open"}

\* wg.Wait, and the check of the number of connections.
FinishConnecting ==
  /\ client = "connecting"
  /\ \A n \in Replica : conn[n] \in {"open", "failed"}
  /\ client' = IF Cardinality(connectedNodes) <= ClientFaults
               THEN "exited" ELSE "sending"
  /\ UNCHANGED <<phase, handlers, setupVars, conn>>

ClientStep == (\E n \in Replica : Dial(n) \/ OpenClientStream(n)) \/ FinishConnecting

StartNext ==
  \/ \E n \in Replica : StartReplica(n) \/ ReplicaStep(n)
  \/ ClientStep

StartSpec == StartInit /\ [][StartNext]_startVars

\* The goroutines of replicas run on (each takes finitely many steps, so one
\* condition is as good as one for each); nothing makes anyone start a program.
FairStartSpec ==
  StartSpec /\ WF_startVars(\E n \in Replica : ReplicaStep(n))

-------------------------------------------------------------------------------
\* Properties.

\* A replica that runs lacks the stream to a peer only if all its attempts
\* failed: no stream that was opened is lost (protocol.go, Setup, where all
\* goroutines write one map).
RunsWithStreams ==
  \A n \in Replica : phase[n] = "running" =>
    \A p \in Peers(n) : p \in streamMap[n] \/ tries[n][p] = 0

\* Once a client sends to all replicas, no attempt to open a stream between
\* replicas fails any more, because Setup installs the handler for peers
\* before the one for clients: a replica that has not given up by then has its
\* streams after one attempt for each (protocol.go, Setup; client.go, main).
NoFailureOnceServing ==
  [][client = "sending" /\ connectedNodes = Replica => tries' = tries]_startVars

\* When all replicas have been started, all of them get to run, also those
\* that give up on a peer (protocol.go, Setup: wg.Wait).
SetupEnds ==
  (\A n \in Replica : phase[n] # "off") ~> (\A n \in Replica : phase[n] = "running")
===============================================================================
