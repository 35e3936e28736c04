------------------------------ MODULE Reputation ------------------------------
(***************************************************************************)
(* consensus/Reputation.go and the weighted majority of consensus/vote.go. *)
(*                                                                         *)
(* A transcript is what one node has recorded of everybody's behaviour: a  *)
(* record of six sets of pairs <<view, id>>, one for each of the Go maps   *)
(* voteMap, voteMaliMap, proposalMap, withproposalMap, equiproposalMap and *)
(* maliproposalMap (view -> id -> 1).                                      *)
(*                                                                         *)
(* Scores are integers in units of 1e-6.  math.Tanh(0.0001 * k) is 100 * k *)
(* of these units to the nearest unit for every k <= 114, far beyond the   *)
(* transcripts explored here (README, "Numbers").                          *)
(***************************************************************************)
EXTENDS Integers, FiniteSets, Functions

initialNodescore == 1
gamma == 100
penaltyWith == 10
penaltyEqui == 10
penaltyMali == 2

\* The transcript a node starts with: all maps empty.
EmptyTranscript == [vote |-> {}, maliVote |-> {}, prop |-> {},
                    with |-> {}, equi |-> {}, maliProp |-> {}]

\* proposalNumCalculate, voteNumCalculate, ...: the views that hold id.
NumCalculate(recorded, id) == Cardinality({e \in recorded : e[2] = id})

maxValueCheckNum(a) == IF a < 0 THEN 0 ELSE a

proposalscore(t, id) ==
  maxValueCheckNum(NumCalculate(t.prop, id)
                   - (penaltyWith * NumCalculate(t.with, id)
                      + penaltyEqui * NumCalculate(t.equi, id)
                      + penaltyMali * NumCalculate(t.maliProp, id)))

votescore(t, id) ==
  maxValueCheckNum(NumCalculate(t.vote, id)
                   - penaltyMali * NumCalculate(t.maliVote, id))

\* math.Tanh(gamma * transcriptNum), see the head of the module.
behaviourScore(transcriptNum) == gamma * transcriptNum

maxValueCheckScore(a) == IF a < initialNodescore THEN initialNodescore ELSE a

ReputationCalculateinCurrentRound(t, id) ==
  maxValueCheckScore(behaviourScore(votescore(t, id) + proposalscore(t, id))
                     + initialNodescore)

\* The reputation a set of nodes has together.
Weight(rep, ids) == SumFunctionOnSet(rep, ids)

\* repSumInCert.Cmp(GetCertBenchMark(view)): only a sum above half of the
\* total builds, or validates, a certificate.
ExceedsBenchMark(rep, ids) == 2 * Weight(rep, ids) > Weight(rep, DOMAIN rep)
===============================================================================
