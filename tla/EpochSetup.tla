----------------------------- MODULE EpochSetup -----------------------------
(***************************************************************************)
(* The set-up of an epoch's membership keys (node/bridge/node.go:          *)
(* StartEpoch, BlsSetup).  Every node joins the topic named after the      *)
(* aggregated public key and waits for all others; node 0 starts the set-  *)
(* up; every node answers with its key parts, and the sum of one part of   *)
(* every node is the membership key.                                       *)
(*                                                                         *)
(* A process calls StartEpoch when it starts and again for every NewEpoch  *)
(* event with an empty key, each in a goroutine of its own: the calls of   *)
(* one process share its topic, its subscription and its MembershipKey.    *)
(* As in OracleSession a handler has no effect before it takes the mutex,  *)
(* so receiving a message and handling it are one step.                    *)
(***************************************************************************)
EXTENDS Integers, FiniteSets

CONSTANTS
  Nodes,       \* the registered nodes
  First,       \* the node with Id 0
  Calls,       \* the calls of StartEpoch in one life of a process
  Phase,       \* the message BlsSetupPhase
  None,        \* no membership key
  CanFail,     \* nodes whose registry or pubsub calls may fail
  CanLose,     \* nodes that may miss messages
  CanRestart,  \* nodes whose process may be restarted ...
  MaxRestarts  \* ... at most so often (bound)

VARIABLES
  pc,         \* where each call stands
  mine,       \* the topic object a call joined
  topic,      \* Protocol.topics and subscriptions: the node's object, or 0
  made,       \* topic objects the node has made so far
  queue,      \* messages waiting in the node's subscription, counted
  mask,       \* receivedMembershipKeyMask: nodes whose part is missing
  key,        \* membershipKey of a call: how often it contains each part
  memberKey,  \* Node.MembershipKey
  restarts

vars == <<pc, mine, topic, made, queue, mask, key, memberKey, restarts>>

\* Node 0 is one of the nodes; the phase and an absent key are told apart from nodes and keys.
Setting == First \in Nodes /\ Phase \notin Nodes /\ None \notin [Nodes -> Nat] /\ MaxRestarts \in Nat

\* BlsSetupParts of a node is represented by the node.
Msgs == Nodes \cup {Phase}
ZeroSignature == [m \in Nodes |-> 0]
Empty == [m \in Msgs |-> 0]

Init ==
  /\ pc = [n \in Nodes |-> [c \in Calls |-> "idle"]]
  /\ mine = [n \in Nodes |-> [c \in Calls |-> 0]]
  /\ topic = [n \in Nodes |-> 0]
  /\ made = [n \in Nodes |-> 0]
  /\ queue = [n \in Nodes |-> Empty]
  /\ mask = [n \in Nodes |-> [c \in Calls |-> Nodes]]
  /\ key = [n \in Nodes |-> [c \in Calls |-> ZeroSignature]]
  /\ memberKey = [n \in Nodes |-> None]
  /\ restarts = [n \in Nodes |-> 0]

\* BroadcastTo on the topic object of the call: every current subscriber gets
\* the message; on a closed topic the publication fails and is only logged.
AfterPublish(n, c, q, msg) ==
  [m \in Nodes |->
     IF mine[n][c] = topic[n] /\ topic[m] # 0 THEN [q[m] EXCEPT ![msg] = @ + 1] ELSE q[m]]

\* JoinTopic and Subscribe: the calls of a process share one object per name.
StartEpoch(n, c) ==
  /\ pc[n][c] = "idle"
  /\ LET new == IF topic[n] = 0 THEN made[n] + 1 ELSE topic[n]
     IN /\ mine' = [mine EXCEPT ![n][c] = new]
        /\ topic' = [topic EXCEPT ![n] = new]
        /\ made' = [made EXCEPT ![n] = IF topic[n] = 0 THEN new ELSE @]
  /\ pc' = [pc EXCEPT ![n][c] = "waiting"]
  /\ UNCHANGED <<queue, mask, key, memberKey, restarts>>

\* The registry, JoinTopic or Subscribe fails: the call returns its error.
StartEpochFails(n, c) ==
  /\ n \in CanFail
  /\ pc[n][c] = "idle"
  /\ pc' = [pc EXCEPT ![n][c] = "done"]
  /\ UNCHANGED <<mine, topic, made, queue, mask, key, memberKey, restarts>>

\* ListPeers names all other nodes (perhaps some that have left since; a closed
\* topic lists nobody). Node 0 fires the phase; then BlsSetup starts.
AllPeersSeen(n, c) ==
  /\ pc[n][c] = "waiting"
  /\ mine[n][c] = topic[n]
  /\ \A m \in Nodes : made[m] > 0
  /\ queue' = IF n = First THEN AfterPublish(n, c, queue, Phase) ELSE queue
  /\ pc' = [pc EXCEPT ![n][c] = "setup"]
  /\ UNCHANGED <<mine, topic, made, mask, key, memberKey, restarts>>

Taken(n, msg) == [queue EXCEPT ![n][msg] = @ - 1]

\* case BlsSetupPhase: answer with this node's parts.
HandlePhase(n, c) ==
  /\ pc[n][c] = "setup"
  /\ topic[n] # 0
  /\ queue[n][Phase] > 0
  /\ queue' = AfterPublish(n, c, Taken(n, Phase), n)
  /\ UNCHANGED <<pc, mine, topic, made, mask, key, memberKey, restarts>>

\* Mutant: what ReceiveFrom returns is handled although there is no message.
HandlePartsNil(n, c, m) ==
  /\ pc[n][c] = "setup"
  /\ topic[n] # 0
  /\ queue' = Taken(n, m)
  /\ key' = [key EXCEPT ![n][c][m] = @ + 1]
  /\ mask' = [mask EXCEPT ![n][c] = @ \ {m}]
  /\ UNCHANGED <<pc, mine, topic, made, memberKey, restarts>>

\* Mutant: the bit of the node's own parts is not cleared.
HandlePartsOthers(n, c, m) ==
  /\ pc[n][c] = "setup"
  /\ topic[n] # 0
  /\ queue[n][m] > 0
  /\ queue' = Taken(n, m)
  /\ key' = [key EXCEPT ![n][c][m] = @ + 1]
  /\ mask' = [mask EXCEPT ![n][c] = @ \ ({m} \ {n})]
  /\ UNCHANGED <<pc, mine, topic, made, memberKey, restarts>>

\* case BlsSetupParts: add the part, clear the bit of its source.
HandleParts(n, c, m) ==
  /\ pc[n][c] = "setup"
  /\ topic[n] # 0
  /\ queue[n][m] > 0
  /\ queue' = Taken(n, m)
  /\ key' = [key EXCEPT ![n][c][m] = @ + 1]
  /\ mask' = [mask EXCEPT ![n][c] = @ \ {m}]
  /\ UNCHANGED <<pc, mine, topic, made, memberKey, restarts>>

\* The mask is empty and the context cancelled, but Next has still returned a
\* message: it is dropped.
DropMessage(n, c, msg) ==
  /\ pc[n][c] = "setup"
  /\ mask[n][c] = {}
  /\ topic[n] # 0
  /\ queue[n][msg] > 0
  /\ queue' = Taken(n, msg)
  /\ UNCHANGED <<pc, mine, topic, made, mask, key, memberKey, restarts>>

\* Mutant: the mask starts one bit short.
BlsSetupReturnsEarly(n, c) ==
  /\ pc[n][c] = "setup"
  /\ Cardinality(mask[n][c]) <= 1 \/ mine[n][c] # topic[n]
  /\ memberKey' = [memberKey EXCEPT ![n] = key[n][c]]
  /\ pc' = [pc EXCEPT ![n][c] = "leaving"]
  /\ UNCHANGED <<mine, topic, made, queue, mask, key, restarts>>

\* ReceiveFrom returns nil, because the context or the subscription was
\* cancelled: what has been aggregated so far becomes the membership key.
BlsSetupReturns(n, c) ==
  /\ pc[n][c] = "setup"
  /\ mask[n][c] = {} \/ mine[n][c] # topic[n]
  /\ memberKey' = [memberKey EXCEPT ![n] = key[n][c]]
  /\ pc' = [pc EXCEPT ![n][c] = "leaving"]
  /\ UNCHANGED <<mine, topic, made, queue, mask, key, restarts>>

\* The deferred LeaveTopic goes by the topic's name, whoever made the object.
LeaveTopic(n, c) ==
  /\ pc[n][c] = "leaving"
  /\ pc' = [pc EXCEPT ![n][c] = "done"]
  /\ topic' = [topic EXCEPT ![n] = 0]
  /\ queue' = [queue EXCEPT ![n] = Empty]
  /\ UNCHANGED <<mine, made, mask, key, memberKey, restarts>>

\* A message does not reach a subscriber.
LoseMessage(n, msg) ==
  /\ n \in CanLose
  /\ queue[n][msg] > 0
  /\ queue' = Taken(n, msg)
  /\ UNCHANGED <<pc, mine, topic, made, mask, key, memberKey, restarts>>

\* The process is restarted and has none of its state; peers may still list it.
Restart(n) ==
  /\ n \in CanRestart
  /\ restarts[n] < MaxRestarts
  /\ restarts' = [restarts EXCEPT ![n] = @ + 1]
  /\ pc' = [pc EXCEPT ![n] = [c \in Calls |-> "idle"]]
  /\ mine' = [mine EXCEPT ![n] = [c \in Calls |-> 0]]
  /\ topic' = [topic EXCEPT ![n] = 0]
  /\ queue' = [queue EXCEPT ![n] = Empty]
  /\ mask' = [mask EXCEPT ![n] = [c \in Calls |-> Nodes]]
  /\ key' = [key EXCEPT ![n] = [c \in Calls |-> ZeroSignature]]
  /\ memberKey' = [memberKey EXCEPT ![n] = None]
  /\ UNCHANGED made

Call(n, c) ==
  \/ StartEpoch(n, c)
  \/ AllPeersSeen(n, c)
  \/ HandlePhase(n, c)
  \/ \E m \in Nodes : HandleParts(n, c, m)
  \/ BlsSetupReturns(n, c)
  \/ LeaveTopic(n, c)

Environment(n) ==
  \/ \E c \in Calls : StartEpochFails(n, c)
  \/ \E c \in Calls, msg \in Msgs : DropMessage(n, c, msg)
  \/ \E msg \in Msgs : LoseMessage(n, msg)
  \/ Restart(n)

Next ==
  \/ \E n \in Nodes, c \in Calls : Call(n, c)
  \/ \E n \in Nodes : Environment(n)

Spec == Init /\ [][Next]_vars

\* Every call runs on, and the messages it waits for reach it.
FairSpec == Spec /\ \A n \in Nodes, c \in Calls : WF_vars(Call(n, c))

-----------------------------------------------------------------------------
\* The type invariant of the calls, topics and keys.
TypeOK ==
  /\ pc \in [Nodes -> [Calls -> {"idle", "waiting", "setup", "leaving", "done"}]]
  /\ mine \in [Nodes -> [Calls -> Nat]]
  /\ topic \in [Nodes -> Nat]
  /\ made \in [Nodes -> Nat]
  /\ queue \in [Nodes -> [Msgs -> Nat]]
  /\ mask \in [Nodes -> [Calls -> SUBSET Nodes]]
  /\ key \in [Nodes -> [Calls -> [Nodes -> Nat]]]
  /\ memberKey \in [Nodes -> [Nodes -> Nat] \cup {None}]
  /\ restarts \in [Nodes -> 0 .. MaxRestarts]

\* What StartEpoch installs is the node's membership key, the sum of exactly
\* one part of every node (node.go:536): no part missing, none added twice.
MembershipKeyExact ==
  \A n \in Nodes : memberKey[n] # None => memberKey[n] = [m \in Nodes |-> 1]

\* A call of BlsSetup returns a key without some node's part only when another
\* call of the same process has left the topic they share, which cancels the
\* subscription under it (consensus.go:107).
ShortKeyNeedsOverlap ==
  \A n \in Nodes, c \in Calls :
    /\ pc[n][c] \in {"leaving", "done"}
    /\ mine[n][c] # 0
    /\ \E m \in Nodes : key[n][c][m] = 0
    => \E d \in Calls \ {c} : pc[n][d] = "done" /\ mine[n][d] # 0

\* With one call in each process a node moreover installs an inexact key only if node 0 was
\* restarted and has fired the phase again (node.go:652): the nodes answer twice, and both
\* answers are added.
InexactNeedsOverlap ==
  /\ ShortKeyNeedsOverlap
  /\ (\A c, d \in Calls : c = d) /\ restarts[First] = 0 => MembershipKeyExact

\* With every message delivered and no call failing, every node gets its key.
SetupCompletes == <>(\A n \in Nodes : memberKey[n] # None)
=============================================================================
