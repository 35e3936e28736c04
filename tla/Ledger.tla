-------------------------------- MODULE Ledger --------------------------------
(***************************************************************************)
(* What the replicas promise their clients (src/README.md: nodes "jointly  *)
(* maintain a consistent ledger"): each node acknowledges one growing      *)
(* chain of blocks, and no two nodes ever acknowledge different blocks at  *)
(* the same position.                                                      *)
(***************************************************************************)
EXTENDS Naturals, Sequences

CONSTANTS
  Node,     \* the nodes
  Entry,    \* the blocks they may acknowledge
  Follows(_, _)   \* Follows(b, s): block b continues the chain s

VARIABLE log   \* the blocks each node has acknowledged, in order

LInit == log = [n \in Node |-> <<>>]

\* Node n acknowledges b: it continues n's own chain, and it is the block
\* of every node that is past this position already.
Acknowledge(n, b) ==
  /\ Follows(b, log[n])
  /\ \A m \in Node : Len(log[m]) > Len(log[n]) => log[m][Len(log[n]) + 1] = b
  /\ log' = [log EXCEPT ![n] = Append(@, b)]

\* The first conjunct follows from the second and spares TLC the search for b
\* in the steps of an implementation that acknowledge nothing.
LNext ==
  \E n \in Node :
    /\ log'[n] # log[n]
    /\ \E b \in Entry : Acknowledge(n, b)

LSpec == LInit /\ [][LNext]_log

\* Of any two nodes' logs, one is a prefix of the other: no client sees two
\* different blocks acknowledged at the same position.
Consistent ==
  \A n, m \in Node : \A i \in 1..Len(log[n]) :
    i <= Len(log[m]) => log[n][i] = log[m][i]
===============================================================================
