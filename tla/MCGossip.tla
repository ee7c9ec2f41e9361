------------------------------ MODULE MCGossip ------------------------------
(* Instances of what the nodes of a bridge tell each other beside the sessions and the
   blocks: PubSub keeps the topics of one node, Reporting the uptime reports and the time
   topics.  A behaviour is one of a part; the variables of the others stay as they are. *)
EXTENDS PubSub, Reporting, TLC

CONSTANT tx
VARIABLE part

\* All handlers are of requests with one transaction hash.
OneName == [h \in Handlers |-> tx]

all == <<part, vars, reports, streams>>

MCInit ==
  /\ part \in {"topics", "reports", "streams"}
  /\ Init /\ Reports!Init /\ Streams!Init

MCNext ==
  \/ part = "topics" /\ Next /\ UNCHANGED <<part, reports, streams>>
  \/ part = "reports" /\ Reports!Next /\ UNCHANGED <<part, vars, streams>>
  \/ part = "streams" /\ Streams!Next /\ UNCHANGED <<part, vars, reports>>

MCSpec == MCInit /\ [][MCNext]_all

\* With one name no operator of PubSub tells handlers apart.
Symmetry == Permutations(Handlers)

-----------------------------------------------------------------------------
\* The type invariants of the three modules.
TypesOK == TypeOK /\ Reports!TypeOK /\ Streams!TypeOK
=============================================================================
