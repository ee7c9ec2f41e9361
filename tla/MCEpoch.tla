------------------------------ MODULE MCEpoch -------------------------------
(* Instances of the two halves of StartEpoch, one after the other in the code and without
   shared state: EpochSetup makes the membership key, QuitHandlers holds what StartEpoch
   leaves behind.  A behaviour is one of an instance, named by part; the variables of the
   other half stay as they are. *)
EXTENDS QuitHandlers

CONSTANTS n1, n2, n3, Phase, None

VARIABLES part, pc, mine, topic, made, queue, mask, key, memberKey, restarts

\* One set-up of three nodes without and with faults, of two nodes that are both restarted,
\* and two calls in each of two nodes.
Once == INSTANCE EpochSetup WITH
  Nodes <- {n1, n2, n3}, First <- n1, Calls <- {1},
  CanFail <- {}, CanLose <- {}, CanRestart <- {}, MaxRestarts <- 0
Faults == INSTANCE EpochSetup WITH
  Nodes <- {n1, n2, n3}, First <- n1, Calls <- {1},
  CanFail <- {n2}, CanLose <- {n1, n2, n3}, CanRestart <- {n2, n3}, MaxRestarts <- 1
Again == INSTANCE EpochSetup WITH
  Nodes <- {n1, n2}, First <- n1, Calls <- {1},
  CanFail <- {}, CanLose <- {n2}, CanRestart <- {n1, n2}, MaxRestarts <- 1
Twice == INSTANCE EpochSetup WITH
  Nodes <- {n1, n2}, First <- n1, Calls <- {1, 2},
  CanFail <- {}, CanLose <- {}, CanRestart <- {}, MaxRestarts <- 0

\* The register on a node that waits its turn, and on node 0.
Zero == INSTANCE QuitHandlers WITH NodeId <- 0

setup == <<pc, mine, topic, made, queue, mask, key, memberKey, restarts>>
all == <<part, vars, setup>>

MCInit ==
  /\ Init
  /\ \/ part \in {"quit", "quit 0", "once", "faults"} /\ Once!Init
     \/ part = "again" /\ Again!Init
     \/ part = "twice" /\ Twice!Init

MCNext ==
  \/ part = "quit" /\ Next /\ UNCHANGED <<part, setup>>
  \/ part = "quit 0" /\ Zero!Next /\ UNCHANGED <<part, setup>>
  \/ part = "once" /\ Once!Next /\ UNCHANGED <<part, vars>>
  \/ part = "faults" /\ Faults!Next /\ UNCHANGED <<part, vars>>
  \/ part = "again" /\ Again!Next /\ UNCHANGED <<part, vars>>
  \/ part = "twice" /\ Twice!Next /\ UNCHANGED <<part, vars>>

\* The fairness of QuitHandlers and of EpochSetup.
MCSpec ==
  /\ MCInit /\ [][MCNext]_all
  /\ \A ch \in Channels :
       WF_all(/\ part \in {"quit", "quit 0"}
              /\ \/ RemoveQuitHandler(ch) \/ EnterSelect(ch) \/ SendUpdate(ch)
                 \/ (part = "quit 0" /\ Zero!SendUpdate(ch))
              /\ UNCHANGED <<part, setup>>)
  /\ \A n \in {n1, n2, n3} :
       WF_all(part = "once" /\ Once!Call(n, 1) /\ UNCHANGED <<part, vars>>)

-----------------------------------------------------------------------------
\* The type invariants of the register and of the set-ups.
TypesOK ==
  /\ TypeOK
  /\ part \notin {"again", "twice"} => Faults!TypeOK
  /\ part = "again" => Again!TypeOK
  /\ part = "twice" => Twice!TypeOK

\* With one call of StartEpoch in each process a node installs the sum of exactly one part
\* of every node, or nothing (node.go:536): lost messages, failing calls and restarts of
\* other nodes than node 0, which would fire the phase again (node.go:652), never make it
\* install another key. With two calls in a process BlsSetup returns a key
\* without some node's part only when the other call has left the topic they share
\* (consensus.go:107).
InexactNeedsOverlap ==
  /\ part \in {"once", "faults"} => Faults!InexactNeedsOverlap
  /\ part = "again" => Again!InexactNeedsOverlap
  /\ part = "twice" => Twice!InexactNeedsOverlap

\* With every message delivered and no call failing every node gets its key.
SetupCompletes == <>(part = "once" => \A n \in {n1, n2, n3} : memberKey[n] # None)
=============================================================================
