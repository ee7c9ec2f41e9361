--------------------------- MODULE OracleSession ---------------------------
(***************************************************************************)
(* One oracle request travelling through the relayer network: every node   *)
(* that sees the event joins the request's topic, opens a BLS session over *)
(* the participants it can see, announces, signs, collects signatures and  *)
(* agrees; the node that its own session names leader calls the            *)
(* destination bridge (node/bridge/node.go, consensus/session/tlc.go).     *)
(*                                                                         *)
(* Granularity. A message handler runs in a goroutine of its own, but does *)
(* nothing observable before it takes the session mutex, so a handler that *)
(* waits for the mutex is a message that is still under way: receiving a   *)
(* message and running its handler are one step. What that leaves out are  *)
(* the handlers that are started when the receive loop is cancelled; they  *)
(* are the messages in inflight, chosen at the step that cancels.          *)
(*                                                                         *)
(* sent keeps every published message. A message may be delivered late,    *)
(* several times (a node answers every Announce with the same Prepare) or  *)
(* never (publish errors, a subscription opened too late).                 *)
(***************************************************************************)
EXTENDS Integers, FiniteSets

CONSTANTS
  Nodes,             \* the registered nodes
  Rank,              \* Nodes -> Nat: order of sha256(topic + peer id)
  MinConsensusNodes, \* minConsensusNodesCount, 5 in the code
  MainPeerCounts,    \* numbers of main-topic peers that a node may count
  Listings,          \* sets of peers that each node may list on the topic
  MaxEpoch,          \* bound: epochs 1 .. MaxEpoch
  MaxInFlight,       \* bound: handlers still running when a loop is cancelled
  CanTimeout,        \* nodes whose 30 s timers may expire
  CanFail,           \* nodes whose pubsub, registry or chain calls may fail
  CanRekey,          \* nodes that may enter a later epoch meanwhile
  CanCrash           \* nodes whose process may stop

ASSUME NodesFinite == IsFiniteSet(Nodes)
ASSUME RankOrders ==
  /\ Rank \in [Nodes -> Nat]
  /\ \A m, n \in Nodes : Rank[m] = Rank[n] => m = n
ASSUME ListingsArePeers ==
  Listings \in [Nodes -> SUBSET SUBSET Nodes] /\ \A n \in Nodes : n \notin UNION Listings[n]
ASSUME BoundsAreNumbers ==
  /\ MinConsensusNodes \in Nat
  /\ MainPeerCounts \subseteq Nat
  /\ MaxEpoch \in Nat \ {0}
  /\ MaxInFlight \in Nat

VARIABLES
  proto,         \* where the node's HandleOracleRequest stands
  epochKey,      \* Node.EpochPublicKey, as the epoch it belongs to
  memberKey,     \* Node.MembershipKey, as the epoch it was set up for
  keys,          \* the session's copy of both
  view,          \* topicParticipants the session was created with
  Acks,          \* Session.Acks
  SigMask,       \* Session.SigMask, as a set of nodes
  PartSignature, \* Session.PartSignature, as the set of aggregated acks
  mutex,         \* the handlers' mutex
  cancelled,     \* the receive loop's context
  inflight,      \* handlers started before the loop was cancelled
  executed,      \* nodes that called the destination bridge
  sent           \* every message published on the topic

nodeVars == <<epochKey, memberKey>>
ackVars == <<Acks, SigMask, PartSignature>>
vars == <<proto, nodeVars, keys, view, ackVars, mutex, cancelled, inflight,
          executed, sent>>

-----------------------------------------------------------------------------
(* Messages. A signature is the Prepare it came in; a multisignature is the *)
(* set of the signatures aggregated into it.                                *)

Epochs == 1 .. MaxEpoch

Announces == [type : {"Announce"}, src : Nodes]
Prepares  == [type : {"Prepare"}, src : Nodes, epoch : Epochs, member : Epochs]
Prepareds == [type : {"Prepared"}, mask : SUBSET Nodes, sig : SUBSET Prepares]
Messages  == Announces \cup Prepares \cup Prepareds

Signers(sig) == {s.src : s \in sig}

\* bls.Signature.VerifyMultisig: every aggregated part was made for the epoch
\* key with that epoch's membership key, and the mask names the signers.
VerifyMultisig(epoch, sig, mask) ==
  /\ Signers(sig) = mask
  /\ \A s \in sig : s.epoch = epoch /\ s.member = epoch

\* Mutant: every participant must sign.
ThresholdAckAll(n) == Cardinality(view[n])

ThresholdAck(n) == Cardinality(view[n]) \div 2 + 1

\* RelayerLeaderNode: the participant with the least hash.
RelayerLeaderNode(participants) ==
  CHOOSE m \in participants : \A k \in participants : Rank[m] <= Rank[k]

\* Mutant: the check uses the node's key of the moment, not the session's copy.
verifyAckSignatureNow(n, m) == VerifyMultisig(epochKey[n], {m}, {m.src})

verifyAckSignature(n, m) == VerifyMultisig(keys[n].epoch, {m}, {m.src})

\* Mutant: the number of signers is not checked.
verifyMultisigOnly(n, mask, sig) == VerifyMultisig(keys[n].epoch, sig, mask)
verifyThresholdWitnesses(n, mask, sig) ==
  /\ Cardinality(mask) >= ThresholdAck(n)
  /\ VerifyMultisig(keys[n].epoch, sig, mask)

-----------------------------------------------------------------------------
Init ==
  /\ proto = [n \in Nodes |-> "idle"]
  /\ epochKey = [n \in Nodes |-> 1]
  /\ memberKey = [n \in Nodes |-> 1]
  /\ keys = [n \in Nodes |-> [epoch |-> 1, member |-> 1]]
  /\ view = [n \in Nodes |-> {}]
  /\ Acks = [n \in Nodes |-> 0]
  /\ SigMask = [n \in Nodes |-> {}]
  /\ PartSignature = [n \in Nodes |-> {}]
  /\ mutex = [n \in Nodes |-> "free"]
  /\ cancelled = [n \in Nodes |-> FALSE]
  /\ inflight = [n \in Nodes |-> {}]
  /\ executed = {}
  /\ sent = {}

-----------------------------------------------------------------------------
(* Opening the session.                                                     *)

\* The event arrives: join and subscribe to the topic, then call NewSession,
\* whose value receiver copies the node's keys at the call.
HandleOracleRequest(n) ==
  /\ proto[n] = "idle"
  /\ proto' = [proto EXCEPT ![n] = "joined"]
  /\ keys' = [keys EXCEPT ![n] = [epoch |-> epochKey[n], member |-> memberKey[n]]]
  /\ UNCHANGED <<nodeVars, view, ackVars, mutex, cancelled, inflight, executed, sent>>

\* NewSession's polling loop finds enough participants, StartProtocol announces
\* and, a second later, the receive loop starts and the node waits for
\* consensusChannel or for 30 s (the second only delays what the node receives).
\* ListPeers names other nodes that have joined the topic at some time.
NewSession(n) ==
  /\ proto[n] = "joined"
  /\ \E peers \in Listings[n], mainPeers \in MainPeerCounts :
       /\ \A p \in peers : proto[p] # "idle"
       /\ Cardinality(peers) + 1 > MinConsensusNodes
       /\ Cardinality(peers) + 1 > mainPeers \div 2 + 1
       /\ view' = [view EXCEPT ![n] = peers \cup {n}]
  /\ proto' = [proto EXCEPT ![n] = "select"]
  /\ sent' = sent \cup {[type |-> "Announce", src |-> n]}
  /\ UNCHANGED <<nodeVars, keys, ackVars, mutex, cancelled, inflight, executed>>

\* Subscribe or registry errors, or too few participants for 30 s: no session,
\* and the deferred LeaveTopic. (A failed JoinTopic leaves the node idle.)
NoSession(n) ==
  /\ proto[n] = "joined"
  /\ n \in CanFail \cup CanTimeout
  /\ proto' = [proto EXCEPT ![n] = "gone"]
  /\ UNCHANGED <<nodeVars, keys, view, ackVars, mutex, cancelled, inflight, executed, sent>>

-----------------------------------------------------------------------------
(* Message handlers of WaitForProtocolMsg.                                  *)

Running(n) == proto[n] \in {"select", "leader", "follower", "timedout", "done"}

Handles(n, m) ==
  /\ m \in sent
  /\ Running(n)
  /\ ~cancelled[n] \/ m \in inflight[n]

HandlerReturns(n, m) == inflight' = [inflight EXCEPT ![n] = @ \ {m}]

\* Sign the body and publish the signature: no lock is taken.
HandleAnnounce(n, m) ==
  /\ Handles(n, m)
  /\ m.type = "Announce"
  /\ sent' = sent \cup {[type |-> "Prepare", src |-> n,
                         epoch |-> keys[n].epoch, member |-> keys[n].member]}
  /\ HandlerReturns(n, m)
  /\ UNCHANGED <<proto, nodeVars, keys, view, ackVars, mutex, cancelled, executed>>

\* Mutant: acks of one source are not told apart.
PrepareIgnoredEnough(n, m) == Acks[n] >= ThresholdAck(n)
\* Enough acks already, or one of this source.
PrepareIgnored(n, m) ==
  \/ Acks[n] >= ThresholdAck(n)
  \/ m.src \in SigMask[n]

\* A Prepare that is not needed: unlock and return.
IgnorePrepare(n, m) ==
  /\ Handles(n, m)
  /\ m.type = "Prepare"
  /\ mutex[n] = "free"
  /\ PrepareIgnored(n, m)
  /\ HandlerReturns(n, m)
  /\ UNCHANGED <<proto, nodeVars, keys, view, ackVars, mutex, cancelled, executed, sent>>

\* A signature that does not verify: the handler returns without unlocking.
RejectPrepare(n, m) ==
  /\ Handles(n, m)
  /\ m.type = "Prepare"
  /\ mutex[n] = "free"
  /\ ~PrepareIgnored(n, m)
  /\ ~verifyAckSignature(n, m)
  /\ mutex' = [mutex EXCEPT ![n] = "leaked"]
  /\ HandlerReturns(n, m)
  /\ UNCHANGED <<proto, nodeVars, keys, view, ackVars, cancelled, executed, sent>>

\* Count the ack; at the threshold verify the aggregate and publish it. An
\* aggregate that does not verify returns without unlocking too.
AcceptPrepare(n, m) ==
  /\ Handles(n, m)
  /\ m.type = "Prepare"
  /\ mutex[n] = "free"
  /\ ~PrepareIgnored(n, m)
  /\ verifyAckSignature(n, m)
  /\ SigMask' = [SigMask EXCEPT ![n] = @ \cup {m.src}]
  /\ Acks' = [Acks EXCEPT ![n] = @ + 1]
  /\ PartSignature' = [PartSignature EXCEPT ![n] = @ \cup {m}]
  /\ LET mask     == SigMask[n] \cup {m.src}
         sig      == PartSignature[n] \cup {m}
         enough   == Acks[n] + 1 >= ThresholdAck(n)
         verified == verifyThresholdWitnesses(n, mask, sig)
     IN /\ sent' = sent \cup
             {p \in {[type |-> "Prepared", mask |-> mask, sig |-> sig]} : enough /\ verified}
        /\ mutex' = [mutex EXCEPT ![n] = IF enough /\ ~verified THEN "unverified" ELSE @]
  /\ HandlerReturns(n, m)
  /\ UNCHANGED <<proto, nodeVars, keys, view, cancelled, executed>>

\* A Prepared that does not verify, or that comes after the cancellation.
IgnorePrepared(n, m) ==
  /\ Handles(n, m)
  /\ m.type = "Prepared"
  /\ \/ ~verifyThresholdWitnesses(n, m.mask, m.sig)
     \/ mutex[n] = "free" /\ cancelled[n]
  /\ HandlerReturns(n, m)
  /\ UNCHANGED <<proto, nodeVars, keys, view, ackVars, mutex, cancelled, executed, sent>>

\* A verified Prepared meets the waiting select: the node agrees and goes on
\* as leader or follower, the loop is cancelled, some handlers still run.
Agree(n, m) ==
  /\ Handles(n, m)
  /\ m.type = "Prepared"
  /\ verifyThresholdWitnesses(n, m.mask, m.sig)
  /\ mutex[n] = "free"
  /\ ~cancelled[n]
  /\ proto[n] = "select"
  /\ proto' = [proto EXCEPT ![n] =
                 IF RelayerLeaderNode(view[n]) = n THEN "leader" ELSE "follower"]
  /\ cancelled' = [cancelled EXCEPT ![n] = TRUE]
  /\ \E running \in SUBSET (sent \ {m}) :
       /\ Cardinality(running) <= MaxInFlight
       /\ inflight' = [inflight EXCEPT ![n] = running]
  /\ UNCHANGED <<nodeVars, keys, view, ackVars, mutex, executed, sent>>

\* The select has timed out, nobody reads consensusChannel any more: the
\* handler blocks on the unbuffered channel with the mutex held.
BlockOnAgreed(n, m) ==
  /\ Handles(n, m)
  /\ m.type = "Prepared"
  /\ verifyThresholdWitnesses(n, m.mask, m.sig)
  /\ mutex[n] = "free"
  /\ ~cancelled[n]
  /\ proto[n] = "timedout"
  /\ mutex' = [mutex EXCEPT ![n] = "blocked"]
  /\ UNCHANGED <<proto, nodeVars, keys, view, ackVars, cancelled, inflight, executed, sent>>

-----------------------------------------------------------------------------
(* StartProtocolByOracleRequest after the select.                           *)

Timeout(n) ==
  /\ proto[n] = "select"
  /\ n \in CanTimeout
  /\ proto' = [proto EXCEPT ![n] = "timedout"]
  /\ UNCHANGED <<nodeVars, keys, view, ackVars, mutex, cancelled, inflight, executed, sent>>

\* Mutants: the leader is not checked; the timeout does not return.
LeaderExecutesAny(n) ==
  /\ proto[n] \in {"leader", "follower"}
  /\ proto' = [proto EXCEPT ![n] = "done"]
  /\ executed' = executed \cup {n}
  /\ UNCHANGED <<nodeVars, keys, view, ackVars, mutex, cancelled, inflight, sent>>
LeaderExecutesLate(n) ==
  /\ proto[n] \in {"leader", "timedout"}
  /\ proto' = [proto EXCEPT ![n] = "done"]
  /\ executed' = executed \cup {n}
  /\ UNCHANGED <<nodeVars, keys, view, ackVars, mutex, cancelled, inflight, sent>>

\* The leader creates and distributes a block, then calls ReceiveRequestV2.
LeaderExecutes(n) ==
  /\ proto[n] = "leader"
  /\ proto' = [proto EXCEPT ![n] = "done"]
  /\ executed' = executed \cup {n}
  /\ UNCHANGED <<nodeVars, keys, view, ackVars, mutex, cancelled, inflight, sent>>

\* ReceiveRequestV2 fails: logged, never retried.
LeaderFails(n) ==
  /\ proto[n] = "leader"
  /\ n \in CanFail
  /\ proto' = [proto EXCEPT ![n] = "done"]
  /\ UNCHANGED <<nodeVars, keys, view, ackVars, mutex, cancelled, inflight, executed, sent>>

\* HandleOracleRequest's wg.Wait returns once the protocol goroutine, the
\* receive loop and every handler are done. Followers never get here: they
\* stay in ReceiveAndSaveBlock; a node that timed out keeps its loop.
LeaveTopic(n) ==
  /\ proto[n] = "done"
  /\ cancelled[n]
  /\ inflight[n] = {}
  /\ proto' = [proto EXCEPT ![n] = "gone"]
  /\ UNCHANGED <<nodeVars, keys, view, ackVars, mutex, cancelled, inflight, executed, sent>>

-----------------------------------------------------------------------------
(* The node around the session.                                             *)

\* StartEpoch installs the new epoch's public key first ...
StartEpoch(n) ==
  /\ n \in CanRekey
  /\ proto[n] # "crashed"
  /\ epochKey[n] = memberKey[n]
  /\ epochKey[n] < MaxEpoch
  /\ epochKey' = [epochKey EXCEPT ![n] = @ + 1]
  /\ UNCHANGED <<proto, memberKey, keys, view, ackVars, mutex, cancelled, inflight, executed, sent>>

\* ... and its membership key when BlsSetup returns.
FinishBlsSetup(n) ==
  /\ proto[n] # "crashed"
  /\ epochKey[n] # memberKey[n]
  /\ memberKey' = [memberKey EXCEPT ![n] = epochKey[n]]
  /\ UNCHANGED <<proto, epochKey, keys, view, ackVars, mutex, cancelled, inflight, executed, sent>>

\* The process stops, as it also does when DistributeBlock panics on the nil
\* block of a failed CreateBlock. The watcher of a restarted process starts from the
\* latest block, so the request does not come back to it.
Crash(n) ==
  /\ n \in CanCrash
  /\ proto[n] # "crashed"
  /\ proto' = [proto EXCEPT ![n] = "crashed"]
  /\ UNCHANGED <<nodeVars, keys, view, ackVars, mutex, cancelled, inflight, executed, sent>>

-----------------------------------------------------------------------------
Handler(n, m) ==
  \/ HandleAnnounce(n, m)
  \/ IgnorePrepare(n, m)
  \/ RejectPrepare(n, m)
  \/ AcceptPrepare(n, m)
  \/ IgnorePrepared(n, m)
  \/ Agree(n, m)
  \/ BlockOnAgreed(n, m)

Step(n) ==
  \/ HandleOracleRequest(n)
  \/ NewSession(n)
  \/ NoSession(n)
  \/ Timeout(n)
  \/ LeaderExecutes(n)
  \/ LeaderFails(n)
  \/ LeaveTopic(n)
  \/ StartEpoch(n)
  \/ FinishBlsSetup(n)
  \/ Crash(n)

Next ==
  \/ \E n \in Nodes : Step(n)
  \/ \E n \in Nodes : \E m \in sent : Handler(n, m)

Spec == Init /\ [][Next]_vars

\* Every node sees the event, every published message reaches the sessions
\* that still listen, and goroutines that can run do run.
Delivery(n) ==
  /\ WF_vars(\E m \in sent : HandleAnnounce(n, m))
  /\ WF_vars(\E m \in sent : AcceptPrepare(n, m))
  /\ WF_vars(\E m \in sent : Agree(n, m))
Scheduling(n) ==
  /\ WF_vars(HandleOracleRequest(n))
  /\ WF_vars(NewSession(n))
  /\ WF_vars(LeaderExecutes(n))

FairSpec == Spec /\ \A n \in Nodes : Delivery(n) /\ Scheduling(n)

-----------------------------------------------------------------------------
(* Properties.                                                              *)

ProtoStates == {"idle", "joined", "select", "leader", "follower",
                "timedout", "done", "gone", "crashed"}
MutexStates == {"free", "leaked", "blocked", "unverified"}

\* The type invariant of the session and node state.
TypeOK ==
  /\ proto \in [Nodes -> ProtoStates]
  /\ epochKey \in [Nodes -> Epochs]
  /\ memberKey \in [Nodes -> Epochs]
  /\ keys \in [Nodes -> [epoch : Epochs, member : Epochs]]
  /\ view \in [Nodes -> SUBSET Nodes]
  /\ Acks \in [Nodes -> Nat]
  /\ SigMask \in [Nodes -> SUBSET Nodes]
  /\ PartSignature \in [Nodes -> SUBSET Prepares]
  /\ mutex \in [Nodes -> MutexStates]
  /\ cancelled \in [Nodes -> BOOLEAN]
  /\ inflight \in [Nodes -> SUBSET Messages]
  /\ executed \in SUBSET Nodes
  /\ sent \in SUBSET Messages

\* The acks for an epoch that have been published, and who signed them.
PublishedAcks(epoch) ==
  {s \in sent : s.type = "Prepare" /\ VerifyMultisig(epoch, {s}, {s.src})}
Witnesses(n) == Signers(PublishedAcks(keys[n].epoch))

\* A node that agreed (tlc.go, case Prepared) relies on signatures that really
\* were made: ThresholdAck different nodes signed the request with the keys of
\* the epoch in which this session was opened, whatever the other sessions'
\* views and thresholds were.
WitnessedAgreement ==
  \A n \in Nodes : cancelled[n] => Cardinality(Witnesses(n)) >= ThresholdAck(n)

\* What the comment of verifyThresholdWitnesses says (tlc.go:29, "really witnessed
\* by majority of sessions"): more than half of the sessions that were opened
\* for the request have signed when a node agrees.
MajorityWitnessed ==
  \A n \in Nodes : cancelled[n] =>
    2 * Cardinality(Witnesses(n)) > Cardinality({m \in Nodes : view[m] # {}})

\* The check before the broadcast (tlc.go:142), whose failure would keep the
\* mutex locked, never fails: whatever order and repetition the acks arrive
\* in, Acks counts the bits of SigMask and the aggregate matches the mask.
OwnAggregateVerifies ==
  \A n \in Nodes :
    /\ mutex[n] # "unverified"
    /\ Acks[n] = Cardinality(SigMask[n])
    /\ VerifyMultisig(keys[n].epoch, PartSignature[n], SigMask[n])

\* A session's mutex is left locked by verifyAckSignature (tlc.go:116) only
\* when some participant signed with keys that are not of this session's
\* epoch: with one epoch everywhere the handlers cannot lock a session up.
LeakNeedsForeignKeys ==
  \A n \in Nodes : mutex[n] = "leaked" =>
    \E s \in sent : /\ s.type = "Prepare"
                    /\ \/ s.epoch # keys[n].epoch
                       \/ s.member # keys[n].epoch

\* Two nodes both call the destination bridge for one request only when one
\* of their sessions was opened without seeing the other node.
ExecutorsUnseen ==
  \A m, n \in executed : m = n \/ m \notin view[n] \/ n \notin view[m]

\* Once every node has opened its session, the request is executed, although
\* nodes other than the leader may time out or stop, as long as a majority
\* keeps answering.
RequestExecuted == (\A n \in Nodes : view[n] # {}) ~> executed # {}

\* Although a node stops answering as soon as it agrees, nobody is left behind:
\* once every session is open, every node that neither times out nor stops
\* agrees.
SessionsAgree ==
  (\A n \in Nodes : view[n] # {}) ~>
    (\A n \in Nodes : cancelled[n] \/ proto[n] \in {"timedout", "crashed"})

-----------------------------------------------------------------------------
(* Refinement.                                                              *)

\* The smallest threshold a session can have: 4 with the code's constant.
MinThreshold == (MinConsensusNodes + 1) \div 2 + 1

Request == INSTANCE BridgeRequest
             WITH Quorums <- {S \in SUBSET Nodes : Cardinality(S) >= MinThreshold},
                  signed <- Signers({m \in sent : m.type = "Prepare"}),
                  agreed <- {n \in Nodes : cancelled[n]},
                  called <- executed

\* The sessions, with their own views, thresholds and epochs, implement the
\* request: whatever happens on the topic, the bridge is called only by nodes
\* that agreed after MinThreshold different nodes had signed.
ImplementsRequest == Request!Spec
=============================================================================
