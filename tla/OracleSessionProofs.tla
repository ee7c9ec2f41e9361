------------------------ MODULE OracleSessionProofs ------------------------
(***************************************************************************)
(* Proofs about OracleSession, for every number of nodes, every views,     *)
(* thresholds and epochs.  The inductive invariant SessionInv ties what a  *)
(* session has counted, and what a Prepared carries, to the signatures     *)
(* that really were published.                                             *)
(***************************************************************************)
EXTENDS OracleSession, FiniteSetTheorems, WellFoundedInduction, TLAPS

-----------------------------------------------------------------------------
(* Facts about the operators.                                               *)

\* Signers of a set of signatures is monotone and distributes over one more.
LEMMA SignersMonotone ==
  ASSUME NEW A, NEW B, A \subseteq B
  PROVE  Signers(A) \subseteq Signers(B)
  BY Zenon DEF Signers

\* An ack added to an aggregate adds its signer.
LEMMA SignersAdd ==
  ASSUME NEW A, NEW m
  PROVE  /\ Signers(A \cup {m}) = Signers(A) \cup {m.src}
         /\ Signers({m}) = {m.src}
  BY Zenon DEF Signers

\* Prepare messages are the Prepares, and likewise for the other types.
LEMMA MessageTypes ==
  ASSUME NEW m \in Messages
  PROVE  /\ m.type = "Announce" => m \in Announces
         /\ m.type = "Prepare" => m \in Prepares
         /\ m.type = "Prepared" => m \in Prepareds
  BY Zenon DEF Messages, Announces, Prepares, Prepareds

\* Sets of nodes are finite and have a cardinality.
LEMMA NodeSets ==
  ASSUME NEW S \in SUBSET Nodes
  PROVE  IsFiniteSet(S) /\ Cardinality(S) \in Nat
  BY NodesFinite, FS_Subset, FS_CardinalityType, Zenon

\* A larger view never has a smaller threshold.
LEMMA ThresholdMonotone ==
  ASSUME NEW k \in Nat, NEW l \in Nat, k >= l
  PROVE  k \div 2 + 1 >= l \div 2 + 1
  OBVIOUS

-----------------------------------------------------------------------------
(* Types.                                                                   *)

\* Every step keeps the types of the session and node state.
THEOREM TypeCorrect == Spec => []TypeOK
<1>1. Init => TypeOK
  BY BoundsAreNumbers DEF Init, TypeOK, ProtoStates, MutexStates, Epochs
<1>2. TypeOK /\ [Next]_vars => TypeOK'
  <2> SUFFICES ASSUME TypeOK, [Next]_vars
               PROVE  TypeOK'
    BY Zenon
  <2> USE DEF TypeOK, ProtoStates, MutexStates
  <2>1. ASSUME NEW n \in Nodes, Step(n)
        PROVE  TypeOK'
    <3>1. CASE HandleOracleRequest(n)
      BY <3>1, Zenon DEF HandleOracleRequest, nodeVars, ackVars
    <3>2. CASE NewSession(n)
      <4> PICK peers \in Listings[n] : view' = [view EXCEPT ![n] = peers \cup {n}]
        BY <3>2, Zenon DEF NewSession
      <4>1. peers \cup {n} \in SUBSET Nodes
        BY ListingsArePeers, Zenon
      <4>2. [type |-> "Announce", src |-> n] \in Messages
        BY Zenon DEF Messages, Announces
      <4> QED
        BY <3>2, <4>1, <4>2 DEF NewSession, nodeVars, ackVars
    <3>3. CASE NoSession(n)
      BY <3>3, Zenon DEF NoSession, nodeVars, ackVars
    <3>4. CASE Timeout(n)
      BY <3>4, Zenon DEF Timeout, nodeVars, ackVars
    <3>5. CASE LeaderExecutes(n)
      BY <3>5, Zenon DEF LeaderExecutes, nodeVars, ackVars
    <3>6. CASE LeaderFails(n)
      BY <3>6, Zenon DEF LeaderFails, nodeVars, ackVars
    <3>7. CASE LeaveTopic(n)
      BY <3>7, Zenon DEF LeaveTopic, nodeVars, ackVars
    <3>8. CASE StartEpoch(n)
      BY <3>8, BoundsAreNumbers DEF StartEpoch, ackVars, Epochs
    <3>9. CASE FinishBlsSetup(n)
      BY <3>9, Zenon DEF FinishBlsSetup, ackVars
    <3>10. CASE Crash(n)
      BY <3>10, Zenon DEF Crash, nodeVars, ackVars
    <3> QED
      BY <2>1, <3>1, <3>2, <3>3, <3>4, <3>5, <3>6, <3>7, <3>8, <3>9, <3>10, Zenon DEF Step
  <2>2. ASSUME NEW n \in Nodes, NEW m \in sent, Handler(n, m)
        PROVE  TypeOK'
    <3>1. CASE HandleAnnounce(n, m)
      <4>1. [type |-> "Prepare", src |-> n, epoch |-> keys[n].epoch,
             member |-> keys[n].member] \in Messages
        BY Zenon DEF Messages, Prepares
      <4> QED
        BY <3>1, <4>1, Zenon DEF HandleAnnounce, HandlerReturns, nodeVars, ackVars
    <3>2. CASE IgnorePrepare(n, m)
      BY <3>2, Zenon DEF IgnorePrepare, HandlerReturns, nodeVars, ackVars
    <3>3. CASE RejectPrepare(n, m)
      BY <3>3, Zenon DEF RejectPrepare, HandlerReturns, nodeVars, ackVars
    <3>4. CASE AcceptPrepare(n, m)
      <4>1. m \in Prepares
        BY <3>4, MessageTypes, Zenon DEF AcceptPrepare
      <4>2. m.src \in Nodes
        BY <4>1, Zenon DEF Prepares
      <4>3. [type |-> "Prepared", mask |-> SigMask[n] \cup {m.src},
             sig |-> PartSignature[n] \cup {m}] \in Messages
        BY <4>1, <4>2 DEF Messages, Prepareds
      <4>4. sent' \in SUBSET Messages
        BY <3>4, <4>3, Zenon DEF AcceptPrepare
      <4>5. mutex' \in [Nodes -> MutexStates]
        BY <3>4, Zenon DEF AcceptPrepare
      <4>6. /\ SigMask' \in [Nodes -> SUBSET Nodes]
            /\ Acks' \in [Nodes -> Nat]
            /\ PartSignature' \in [Nodes -> SUBSET Prepares]
        BY <3>4, <4>1, <4>2 DEF AcceptPrepare
      <4>7. inflight' \in [Nodes -> SUBSET Messages]
        BY <3>4, Zenon DEF AcceptPrepare, HandlerReturns
      <4>8. UNCHANGED <<proto, nodeVars, keys, view, cancelled, executed>>
        BY <3>4, Zenon DEF AcceptPrepare
      <4> QED
        BY <4>4, <4>5, <4>6, <4>7, <4>8, Zenon DEF nodeVars
    <3>5. CASE IgnorePrepared(n, m)
      BY <3>5, Zenon DEF IgnorePrepared, HandlerReturns, nodeVars, ackVars
    <3>6. CASE Agree(n, m)
      <4>1. inflight' \in [Nodes -> SUBSET Messages]
        BY <3>6 DEF Agree
      <4> QED
        BY <3>6, <4>1, Zenon DEF Agree, nodeVars, ackVars
    <3>7. CASE BlockOnAgreed(n, m)
      BY <3>7, Zenon DEF BlockOnAgreed, nodeVars, ackVars
    <3> QED
      BY <2>2, <3>1, <3>2, <3>3, <3>4, <3>5, <3>6, <3>7, Zenon DEF Handler
  <2>3. CASE UNCHANGED vars
    BY <2>3, Zenon DEF vars, nodeVars, ackVars
  <2> QED
    BY <2>1, <2>2, <2>3, Zenon DEF Next
<1> QED
  BY <1>1, <1>2, PTL DEF Spec

-----------------------------------------------------------------------------
(* The inductive invariant.                                                 *)

\* What a session has counted are published signatures of its own epoch, one
\* per source; the mutex is not held by a failed check of its own aggregate.
AckInv(n) ==
  /\ PartSignature[n] \subseteq sent
  /\ VerifyMultisig(keys[n].epoch, PartSignature[n], SigMask[n])
  /\ Acks[n] = Cardinality(SigMask[n])
  /\ mutex[n] # "unverified"
  /\ mutex[n] = "leaked" =>
       \E s \in sent : /\ s.type = "Prepare"
                       /\ s.epoch # keys[n].epoch \/ s.member # keys[n].epoch

\* An agreement rests on a view of legal size and on enough signatures.
QuorumInv(n) ==
  cancelled[n] =>
    /\ Cardinality(view[n]) > MinConsensusNodes
    /\ Cardinality(Witnesses(n)) >= ThresholdAck(n)

\* Nothing has happened in a session that is not open; only agreement leads to
\* execution, and execution ends the leader's part.
PhaseInv(n) ==
  /\ proto[n] \in {"idle", "joined"} =>
       PartSignature[n] = {} /\ SigMask[n] = {} /\ ~cancelled[n] /\ mutex[n] = "free"
  /\ Running(n) => Cardinality(view[n]) > MinConsensusNodes
  /\ proto[n] \in {"leader", "done"} => cancelled[n]
  /\ n \in executed => cancelled[n] /\ proto[n] \in {"done", "gone", "crashed"}

\* A Prepared carries published signatures of exactly the nodes in its mask.
PreparedInv ==
  \A m \in sent : m.type = "Prepared" => m.sig \subseteq sent /\ Signers(m.sig) = m.mask

SessionInv ==
  /\ PreparedInv
  /\ \A n \in Nodes : AckInv(n) /\ QuorumInv(n) /\ PhaseInv(n)

\* The signers of published acks are nodes, so there are finitely many.
LEMMA WitnessesAreNodes ==
  ASSUME TypeOK, NEW n \in Nodes
  PROVE  /\ Witnesses(n) \in SUBSET Nodes
         /\ Cardinality(Witnesses(n)) \in Nat
  <1>1. PublishedAcks(keys[n].epoch) \subseteq Prepares
    BY MessageTypes, Zenon DEF TypeOK, PublishedAcks
  <1>2. Witnesses(n) \in SUBSET Nodes
    BY <1>1, Zenon DEF Witnesses, Signers, Prepares
  <1> QED
    BY <1>2, NodeSets, Zenon

\* Publishing more messages, and any step that leaves a session's acks alone,
\* keeps what its acks rest on.
LEMMA AckStable ==
  ASSUME NEW k \in Nodes, AckInv(k), sent \subseteq sent',
         PartSignature'[k] = PartSignature[k], SigMask'[k] = SigMask[k],
         Acks'[k] = Acks[k], keys'[k] = keys[k],
         mutex'[k] \in {mutex[k], "blocked"}
  PROVE  AckInv(k)'
  BY Zenon DEF AckInv, VerifyMultisig

\* A quorum of signers stays one: signatures are never taken back.
LEMMA QuorumStable ==
  ASSUME NEW k \in Nodes, QuorumInv(k), TypeOK, TypeOK', sent \subseteq sent',
         keys'[k] = keys[k], view'[k] = view[k], cancelled'[k] = cancelled[k]
  PROVE  QuorumInv(k)'
  <1>1. Witnesses(k) \subseteq Witnesses(k)'
    <2>1. PublishedAcks(keys[k].epoch) \subseteq PublishedAcks(keys[k].epoch)'
      BY Zenon DEF PublishedAcks, VerifyMultisig
    <2>2. Signers(PublishedAcks(keys[k].epoch)) \subseteq Signers(PublishedAcks(keys[k].epoch)')
      BY <2>1, SignersMonotone, Zenon
    <2> QED
      BY <2>2, Zenon DEF Witnesses, Signers, PublishedAcks, VerifyMultisig
  <1>2. Witnesses(k)' \in SUBSET Nodes
    <2>1. PublishedAcks(keys[k].epoch)' \subseteq Prepares
      BY MessageTypes, Zenon DEF TypeOK, PublishedAcks
    <2>2. \A s \in PublishedAcks(keys[k].epoch)' : s.src \in Nodes
      BY <2>1, Zenon DEF Prepares
    <2> QED
      BY <2>2, Zenon DEF Witnesses, Signers
  <1>3. /\ Cardinality(Witnesses(k)) <= Cardinality(Witnesses(k)')
        /\ Cardinality(Witnesses(k)) \in Nat
        /\ Cardinality(Witnesses(k)') \in Nat
    BY <1>1, <1>2, NodeSets, FS_Subset, WitnessesAreNodes, Zenon
  <1>4. view[k] \in SUBSET Nodes
    BY Zenon DEF TypeOK
  <1>5. Cardinality(view[k]) \in Nat
    BY <1>4, NodeSets, Zenon
  <1> QED
    BY <1>3, <1>5 DEF QuorumInv, ThresholdAck

\* A node that a step does not touch keeps its part of the invariant.
LEMMA KeepsNode ==
  ASSUME NEW k \in Nodes, AckInv(k), QuorumInv(k), PhaseInv(k), TypeOK, TypeOK',
         sent \subseteq sent', PartSignature'[k] = PartSignature[k],
         SigMask'[k] = SigMask[k], Acks'[k] = Acks[k], keys'[k] = keys[k],
         mutex'[k] = mutex[k], view'[k] = view[k], cancelled'[k] = cancelled[k],
         proto'[k] = proto[k], k \in executed' => k \in executed
  PROVE  AckInv(k)' /\ QuorumInv(k)' /\ PhaseInv(k)'
  <1>1. AckInv(k)'
    BY AckStable, Zenon
  <1>2. QuorumInv(k)'
    BY QuorumStable, Zenon
  <1>3. PhaseInv(k)'
    BY Zenon DEF PhaseInv, Running
  <1> QED
    BY <1>1, <1>2, <1>3, Zenon

\* So does one that only moves on, without opening a session or executing.
LEMMA MovesOn ==
  ASSUME NEW k \in Nodes, AckInv(k), QuorumInv(k), PhaseInv(k), TypeOK, TypeOK',
         sent \subseteq sent', PartSignature'[k] = PartSignature[k],
         SigMask'[k] = SigMask[k], Acks'[k] = Acks[k], keys'[k] = keys[k],
         mutex'[k] = mutex[k], view'[k] = view[k], cancelled'[k] = cancelled[k],
         \/ proto'[k] \in {"gone", "crashed"}
         \/ proto[k] = "select" /\ proto'[k] = "timedout"
         \/ proto[k] = "leader" /\ proto'[k] = "done",
         k \in executed' => k \in executed \/ proto[k] = "leader"
  PROVE  AckInv(k)' /\ QuorumInv(k)' /\ PhaseInv(k)'
  <1>1. AckInv(k)'
    BY AckStable, Zenon
  <1>2. QuorumInv(k)'
    BY QuorumStable, Zenon
  <1>3. PhaseInv(k)'
    BY Zenon DEF PhaseInv, Running
  <1> QED
    BY <1>1, <1>2, <1>3, Zenon

\* Announce and Prepare messages do not disturb what is known of the Prepareds.
LEMMA PreparedStable ==
  ASSUME PreparedInv, sent \subseteq sent',
         \A m \in sent' \ sent : m.type # "Prepared"
  PROVE  PreparedInv'
  BY Zenon DEF PreparedInv

\* The steps of HandleOracleRequest and of the node around the session.
LEMMA StepKeepsInv ==
  ASSUME TypeOK, TypeOK', SessionInv, NEW n \in Nodes, Step(n)
  PROVE  SessionInv'
<1> USE DEF SessionInv
<1> SUFFICES ASSUME NEW k \in Nodes
             PROVE  PreparedInv' /\ AckInv(k)' /\ QuorumInv(k)' /\ PhaseInv(k)'
  BY Zenon
<1>0. AckInv(k) /\ QuorumInv(k) /\ PhaseInv(k) /\ PreparedInv
  BY Zenon
<1>1. CASE HandleOracleRequest(n)
  <2>1. PreparedInv'
    BY <1>1, PreparedStable, Zenon DEF HandleOracleRequest
  <2>2. CASE k # n
    BY <1>0, <1>1, <2>1, <2>2, KeepsNode, Zenon DEF HandleOracleRequest, nodeVars, ackVars, TypeOK
  <2>3. CASE k = n
    <3>1. AckInv(k)'
      BY <1>0, <1>1, <2>3, Zenon DEF HandleOracleRequest, ackVars, TypeOK, AckInv, PhaseInv,
        VerifyMultisig
    <3>2. QuorumInv(k)'
      BY <1>0, <1>1, <2>3, Zenon DEF HandleOracleRequest, TypeOK, PhaseInv, QuorumInv
    <3>3. PhaseInv(k)'
      BY <1>0, <1>1, <2>3, Zenon DEF HandleOracleRequest, ackVars, TypeOK, PhaseInv, Running
    <3> QED
      BY <2>1, <3>1, <3>2, <3>3, Zenon
  <2> QED
    BY <2>2, <2>3, Zenon
<1>2. CASE NewSession(n)
  <2>1. PreparedInv'
    BY <1>0, <1>2, PreparedStable, SMTT(30) DEF NewSession
  <2>2. CASE k # n
    BY <1>0, <1>2, <2>1, <2>2, KeepsNode, Zenon DEF NewSession, nodeVars, ackVars, TypeOK
  <2>3. CASE k = n
    <3>1. AckInv(k)'
      BY <1>0, <1>2, AckStable, Zenon DEF NewSession, ackVars
    <3>2. QuorumInv(k)'
      BY <1>0, <1>2, <2>3, Zenon DEF NewSession, TypeOK, PhaseInv, QuorumInv
    <3>3. Cardinality(view'[n]) > MinConsensusNodes
      <4>1. PICK peers \in Listings[n] : /\ Cardinality(peers) + 1 > MinConsensusNodes
                                         /\ view' = [view EXCEPT ![n] = peers \cup {n}]
        BY <1>2, Zenon DEF NewSession
      <4>2. peers \in SUBSET Nodes /\ n \notin peers
        BY <4>1, ListingsArePeers, Zenon
      <4>3. IsFiniteSet(peers)
        BY <4>2, NodeSets, Zenon
      <4>4. Cardinality(peers \cup {n}) = Cardinality(peers) + 1
        BY <4>2, <4>3, FS_AddElement, Zenon
      <4> QED
        BY <4>1, <4>4, Zenon DEF TypeOK
    <3>4. PhaseInv(k)'
      BY <1>0, <1>2, <2>3, <3>3 DEF NewSession, ackVars, TypeOK, PhaseInv, Running
    <3> QED
      BY <2>1, <3>1, <3>2, <3>4
  <2> QED
    BY <2>2, <2>3
<1>3. CASE StartEpoch(n) \/ FinishBlsSetup(n)
  <2>1. UNCHANGED <<proto, keys, view, ackVars, mutex, cancelled, inflight, executed, sent>>
    BY <1>3, Zenon DEF StartEpoch, FinishBlsSetup
  <2> QED
    BY <1>0, <2>1, KeepsNode, PreparedStable, Zenon DEF ackVars
<1>4. CASE \/ NoSession(n) \/ Timeout(n) \/ LeaderExecutes(n) \/ LeaderFails(n)
           \/ LeaveTopic(n) \/ Crash(n)
  <2>1. /\ UNCHANGED <<nodeVars, keys, view, ackVars, mutex, cancelled, inflight, sent>>
        /\ \A j \in Nodes \ {n} : proto'[j] = proto[j] /\ (j \in executed' => j \in executed)
        /\ \/ proto'[n] \in {"gone", "crashed"}
           \/ proto[n] = "select" /\ proto'[n] = "timedout"
           \/ proto[n] = "leader" /\ proto'[n] = "done"
        /\ n \in executed' => n \in executed \/ proto[n] = "leader"
    BY <1>4 DEF NoSession, Timeout, LeaderExecutes, LeaderFails, LeaveTopic, Crash, TypeOK
  <2>2. PreparedInv'
    BY <1>0, <2>1, PreparedStable, Zenon
  <2>3. CASE k # n
    BY <1>0, <2>1, <2>2, <2>3, KeepsNode, Zenon DEF ackVars
  <2>4. CASE k = n
    BY <1>0, <2>1, <2>2, <2>4, MovesOn, Zenon DEF ackVars
  <2> QED
    BY <2>3, <2>4
<1> QED
  BY <1>1, <1>2, <1>3, <1>4, Zenon DEF Step

\* A single ack is verified exactly when it was made with this epoch's keys.
LEMMA OneAck ==
  ASSUME NEW e, NEW m
  PROVE  VerifyMultisig(e, {m}, {m.src}) <=> m.epoch = e /\ m.member = e
  BY Zenon DEF VerifyMultisig, Signers

\* Counting one more ack of a source that was not counted yet.
LEMMA AcceptKeepsAcks ==
  ASSUME TypeOK, TypeOK', NEW n \in Nodes, AckInv(n), NEW m \in sent, AcceptPrepare(n, m)
  PROVE  AckInv(n)'
<1>1. m \in Prepares
  BY MessageTypes, Zenon DEF AcceptPrepare, TypeOK
<1>2. /\ SigMask'[n] = SigMask[n] \cup {m.src}
      /\ PartSignature'[n] = PartSignature[n] \cup {m}
      /\ Acks'[n] = Acks[n] + 1
      /\ keys'[n] = keys[n]
      /\ sent \subseteq sent'
      /\ mutex[n] = "free"
  BY Zenon DEF AcceptPrepare, TypeOK
<1>3. m.src \notin SigMask[n] /\ m.epoch = keys[n].epoch /\ m.member = keys[n].epoch
  BY OneAck, Zenon DEF AcceptPrepare, PrepareIgnored, verifyAckSignature
<1>4. Acks'[n] = Cardinality(SigMask'[n])
  <2>1. SigMask[n] \in SUBSET Nodes
    BY Zenon DEF TypeOK
  <2> QED
    BY <1>2, <1>3, <2>1, NodeSets, FS_AddElement DEF AckInv
<1>5. VerifyMultisig(keys[n].epoch, PartSignature[n] \cup {m}, SigMask[n] \cup {m.src})
  <2>0. Signers(PartSignature[n]) = SigMask[n]
    BY Zenon DEF AckInv, VerifyMultisig
  <2>1. Signers(PartSignature[n] \cup {m}) = SigMask[n] \cup {m.src}
    BY <2>0, SignersAdd, Zenon
  <2> QED
    BY <1>3, <2>1, Zenon DEF AckInv, VerifyMultisig
<1>6. mutex'[n] = "free"
  <2>1. Acks[n] + 1 >= ThresholdAck(n) =>
          verifyThresholdWitnesses(n, SigMask[n] \cup {m.src}, PartSignature[n] \cup {m})
    BY <1>2, <1>4, <1>5, Zenon DEF verifyThresholdWitnesses
  <2> QED
    BY <1>2, <2>1, Zenon DEF AcceptPrepare, TypeOK
<1> QED
  BY <1>2, <1>4, <1>5, <1>6, Zenon DEF AckInv, VerifyMultisig

\* The published aggregate consists of published acks of the nodes in its mask.
LEMMA AcceptKeepsPrepared ==
  ASSUME TypeOK, TypeOK', NEW n \in Nodes, AckInv(n), PreparedInv,
         NEW m \in sent, AcceptPrepare(n, m)
  PROVE  PreparedInv'
<1> DEFINE p == [type |-> "Prepared", mask |-> SigMask[n] \cup {m.src},
                 sig |-> PartSignature[n] \cup {m}]
<1>1. sent \subseteq sent' /\ sent' \subseteq sent \cup {p}
  BY Zenon DEF AcceptPrepare
<1>2. Signers(p.sig) = p.mask
  <2>1. Signers(PartSignature[n]) = SigMask[n]
    BY Zenon DEF AckInv, VerifyMultisig
  <2> QED
    BY <2>1, SignersAdd, Zenon
<1>3. p.sig \subseteq sent
  BY Zenon DEF AckInv
<1> QED
  BY <1>1, <1>2, <1>3, Zenon DEF PreparedInv

\* What a node relies on when it agrees.
LEMMA AgreeHasQuorum ==
  ASSUME TypeOK, TypeOK', PreparedInv, NEW n \in Nodes, PhaseInv(n),
         NEW m \in sent, Agree(n, m)
  PROVE  /\ Cardinality(view[n]) > MinConsensusNodes
         /\ Cardinality(Witnesses(n)) >= ThresholdAck(n)
<1>1. m \in Prepareds
  BY MessageTypes, Zenon DEF Agree, TypeOK
<1>2. m.mask \in SUBSET Nodes /\ m.sig \subseteq Prepares
  BY <1>1, Zenon DEF Prepareds
<1>3. m.sig \subseteq sent /\ Signers(m.sig) = m.mask
  BY <1>1, Zenon DEF PreparedInv, Prepareds
<1>4. \A s \in m.sig : s.epoch = keys[n].epoch /\ s.member = keys[n].epoch
  BY Zenon DEF Agree, verifyThresholdWitnesses, VerifyMultisig
<1>5. m.sig \subseteq PublishedAcks(keys[n].epoch)
  BY <1>2, <1>3, <1>4, OneAck, Zenon DEF PublishedAcks, Prepares
<1>6. m.mask \subseteq Witnesses(n)
  BY <1>3, <1>5, SignersMonotone, Zenon DEF Witnesses
<1>7. Cardinality(m.mask) >= ThresholdAck(n) /\ Cardinality(m.mask) \in Nat
  BY <1>2, NodeSets, Zenon DEF Agree, verifyThresholdWitnesses
<1>8. /\ Cardinality(m.mask) <= Cardinality(Witnesses(n))
      /\ Cardinality(Witnesses(n)) \in Nat
      /\ ThresholdAck(n) \in Int
  <2>1. view[n] \in SUBSET Nodes
    BY Zenon DEF TypeOK
  <2>2. ThresholdAck(n) \in Int
    BY <2>1, NodeSets DEF ThresholdAck
  <2>3. IsFiniteSet(Witnesses(n)) /\ Cardinality(Witnesses(n)) \in Nat
    BY WitnessesAreNodes, NodeSets, Zenon
  <2> QED
    BY <1>6, <2>2, <2>3, FS_Subset, Zenon
<1>9. Cardinality(Witnesses(n)) >= ThresholdAck(n)
  BY <1>7, <1>8, SMTT(30)
<1>10. Cardinality(view[n]) > MinConsensusNodes
  BY Zenon DEF Agree, PhaseInv, Running
<1> QED
  BY <1>9, <1>10, Zenon

\* The message handlers.
LEMMA HandlerKeepsInv ==
  ASSUME TypeOK, TypeOK', SessionInv, NEW n \in Nodes, NEW m \in sent, Handler(n, m)
  PROVE  SessionInv'
<1> USE DEF SessionInv
<1> SUFFICES ASSUME NEW k \in Nodes
             PROVE  PreparedInv' /\ AckInv(k)' /\ QuorumInv(k)' /\ PhaseInv(k)'
  BY Zenon
<1>0. /\ AckInv(k) /\ QuorumInv(k) /\ PhaseInv(k) /\ PreparedInv
      /\ AckInv(n) /\ QuorumInv(n) /\ PhaseInv(n)
  BY Zenon
<1>1. CASE HandleAnnounce(n, m) \/ IgnorePrepare(n, m) \/ IgnorePrepared(n, m)
  <2>1. /\ UNCHANGED <<proto, nodeVars, keys, view, ackVars, mutex, cancelled, executed>>
        /\ sent \subseteq sent'
        /\ \A s \in sent' \ sent : s.type # "Prepared"
    BY <1>1 DEF HandleAnnounce, IgnorePrepare, IgnorePrepared
  <2> QED
    BY <1>0, <2>1, KeepsNode, PreparedStable, Zenon DEF ackVars
<1>2. CASE RejectPrepare(n, m)
  <2>1. PreparedInv'
    BY <1>0, <1>2, PreparedStable, Zenon DEF RejectPrepare
  <2>2. CASE k # n
    BY <1>0, <1>2, <2>1, <2>2, KeepsNode, Zenon DEF RejectPrepare, ackVars, TypeOK
  <2>3. CASE k = n
    <3>1. m.epoch # keys[n].epoch \/ m.member # keys[n].epoch
      BY <1>2, OneAck, Zenon DEF RejectPrepare, verifyAckSignature
    <3>2. AckInv(k)'
      BY <1>0, <1>2, <2>3, <3>1, ZenonT(30) DEF RejectPrepare, ackVars, TypeOK, AckInv, VerifyMultisig
    <3>3. QuorumInv(k)'
      BY <1>0, <1>2, QuorumStable, Zenon DEF RejectPrepare
    <3>4. PhaseInv(k)'
      BY <1>0, <1>2, <2>3, Zenon DEF RejectPrepare, ackVars, TypeOK, PhaseInv, Running, Handles
    <3> QED
      BY <2>1, <3>2, <3>3, <3>4, Zenon
  <2> QED
    BY <2>2, <2>3, Zenon
<1>3. CASE AcceptPrepare(n, m)
  <2>1. PreparedInv'
    BY <1>0, <1>3, AcceptKeepsPrepared, Zenon
  <2>2. CASE k # n
    BY <1>0, <1>3, <2>1, <2>2, KeepsNode, ZenonT(30) DEF AcceptPrepare, TypeOK
  <2>3. CASE k = n
    <3>1. AckInv(k)'
      BY <1>0, <1>3, <2>3, AcceptKeepsAcks, Zenon
    <3>2. QuorumInv(k)'
      BY <1>0, <1>3, QuorumStable, Zenon DEF AcceptPrepare
    <3>3. PhaseInv(k)'
      BY <1>0, <1>3, <2>3, Zenon DEF AcceptPrepare, PhaseInv, Running, Handles
    <3> QED
      BY <2>1, <3>1, <3>2, <3>3
  <2> QED
    BY <2>2, <2>3
<1>4. CASE Agree(n, m)
  <2>1. PreparedInv'
    BY <1>0, <1>4, PreparedStable, Zenon DEF Agree
  <2>2. CASE k # n
    BY <1>0, <1>4, <2>1, <2>2, KeepsNode, ZenonT(30) DEF Agree, ackVars, TypeOK
  <2>3. CASE k = n
    <3>1. AckInv(k)'
      BY <1>0, <1>4, AckStable, Zenon DEF Agree, ackVars
    <3>2. QuorumInv(k)'
      <4>1. Witnesses(n)' = Witnesses(n) /\ ThresholdAck(n)' = ThresholdAck(n) /\ view' = view
        BY <1>4, Zenon DEF Agree, Witnesses, PublishedAcks, VerifyMultisig, ThresholdAck
      <4> QED
        BY <1>0, <1>4, <2>3, <4>1, AgreeHasQuorum, Zenon DEF QuorumInv
    <3>3. cancelled'[n] = TRUE /\ proto'[n] \in {"leader", "follower"}
      BY <1>4, Zenon DEF Agree, TypeOK
    <3>4. PhaseInv(k)'
      BY <1>0, <1>4, <2>3, <3>3, Zenon DEF Agree, PhaseInv, Running
    <3> QED
      BY <2>1, <3>1, <3>2, <3>4
  <2> QED
    BY <2>2, <2>3
<1>5. CASE BlockOnAgreed(n, m)
  <2>1. PreparedInv'
    BY <1>0, <1>5, PreparedStable, Zenon DEF BlockOnAgreed
  <2>2. CASE k # n
    BY <1>0, <1>5, <2>1, <2>2, KeepsNode, Zenon DEF BlockOnAgreed, ackVars, TypeOK
  <2>3. CASE k = n
    <3>1. AckInv(k)'
      BY <1>0, <1>5, <2>3, AckStable, Zenon DEF BlockOnAgreed, ackVars, TypeOK
    <3>2. QuorumInv(k)'
      BY <1>0, <1>5, QuorumStable, Zenon DEF BlockOnAgreed
    <3>3. PhaseInv(k)'
      BY <1>0, <1>5, <2>3, Zenon DEF BlockOnAgreed, ackVars, TypeOK, PhaseInv, Running
    <3> QED
      BY <2>1, <3>1, <3>2, <3>3
  <2> QED
    BY <2>2, <2>3
<1> QED
  BY <1>1, <1>2, <1>3, <1>4, <1>5, Zenon DEF Handler

\* Every reachable state satisfies the inductive invariant.
THEOREM Invariance == Spec => [](TypeOK /\ SessionInv)
<1>1. Init => SessionInv
  <2> SUFFICES ASSUME Init
               PROVE  SessionInv
    BY Zenon
  <2>1. PreparedInv
    BY Zenon DEF Init, PreparedInv
  <2>2. ASSUME NEW n \in Nodes
        PROVE  AckInv(n) /\ QuorumInv(n) /\ PhaseInv(n)
    BY FS_EmptySet, Zenon DEF Init, AckInv, QuorumInv, PhaseInv, Running, VerifyMultisig, Signers
  <2> QED
    BY <2>1, <2>2, Zenon DEF SessionInv
<1>2. TypeOK /\ TypeOK' /\ SessionInv /\ [Next]_vars => SessionInv'
  <2> SUFFICES ASSUME TypeOK, TypeOK', SessionInv, [Next]_vars
               PROVE  SessionInv'
    BY Zenon
  <2>1. CASE Next
    BY <2>1, StepKeepsInv, HandlerKeepsInv, Zenon DEF Next
  <2>2. CASE UNCHANGED vars
    <3>1. PreparedInv'
      BY <2>2, Zenon DEF vars, SessionInv, PreparedInv
    <3>2. ASSUME NEW n \in Nodes
          PROVE  AckInv(n)' /\ QuorumInv(n)' /\ PhaseInv(n)'
      BY <2>2, KeepsNode, Zenon DEF vars, ackVars, SessionInv
    <3> QED
      BY <3>1, <3>2, Zenon DEF SessionInv
  <2> QED
    BY <2>1, <2>2, Zenon
<1> QED
  BY <1>1, <1>2, TypeCorrect, PTL DEF Spec

-----------------------------------------------------------------------------
(* What follows from the invariant.                                         *)

\* In every network a node that agreed relies on ThresholdAck different nodes
\* having signed with the keys of its session's epoch (tlc.go, case Prepared).
THEOREM Agreement == Spec => []WitnessedAgreement
<1>1. SessionInv => WitnessedAgreement
  BY Zenon DEF SessionInv, QuorumInv, WitnessedAgreement
<1> QED
  BY <1>1, Invariance, PTL

\* The check whose failure would leave the mutex locked (tlc.go:142) never
\* fails, whatever order and repetition the acks arrive in.
THEOREM AggregateVerifies == Spec => []OwnAggregateVerifies
<1>1. SessionInv => OwnAggregateVerifies
  BY Zenon DEF SessionInv, AckInv, OwnAggregateVerifies
<1> QED
  BY <1>1, Invariance, PTL

\* A mutex left locked by a rejected ack (tlc.go:116) has a signature made with
\* other keys than the session's as its cause.
THEOREM LeakCause == Spec => []LeakNeedsForeignKeys
<1>1. SessionInv => LeakNeedsForeignKeys
  BY Zenon DEF SessionInv, AckInv, LeakNeedsForeignKeys
<1> QED
  BY <1>1, Invariance, PTL

-----------------------------------------------------------------------------
(* Who calls the bridge.                                                    *)

\* A non-empty set of numbers has a least one.
LEMMA LeastNumber ==
  ASSUME NEW T \in SUBSET Nat, T # {}
  PROVE  \E x \in T : \A y \in T : x <= y
<1> DEFINE less == {p \in Nat \X Nat : p[1] < p[2]}
<1>1. IsWellFoundedOn(less, Nat)
  BY NatLessThanWellFounded, Zenon DEF OpToRel
<1>2. PICK x \in T : \A y \in T : <<y, x>> \notin less
  BY <1>1, WFMin, Zenon
<1>3. ASSUME NEW y \in T PROVE x <= y
  <2>1. ~(y < x)
    BY <1>2, Zenon
  <2> QED
    BY <2>1
<1> QED
  BY <1>3, Zenon

\* A view has a leader: the participant with the least hash.
LEMMA LeaderIsLeast ==
  ASSUME NEW S \in SUBSET Nodes, S # {}
  PROVE  /\ RelayerLeaderNode(S) \in S
         /\ \A k \in S : Rank[RelayerLeaderNode(S)] <= Rank[k]
<1> DEFINE ranks == {Rank[k] : k \in S}
<1>1. ranks \in SUBSET Nat /\ ranks # {}
  BY RankOrders
<1>2. \E x \in ranks : \A y \in ranks : x <= y
  BY <1>1, LeastNumber, Zenon
<1>3. \E m \in S : \A k \in S : Rank[m] <= Rank[k]
  BY <1>2, Zenon
<1> QED
  BY <1>3, Zenon DEF RelayerLeaderNode

\* A session's view has the node itself, and a node is leader, or has called, only as the
\* leader of its own view, which does not change any more.
LeaderInv ==
  \A n \in Nodes :
    /\ Running(n) => n \in view[n]
    /\ proto[n] = "leader" \/ n \in executed => n \in view[n] /\ RelayerLeaderNode(view[n]) = n

\* Every step keeps it.
LEMMA LeaderStep ==
  ASSUME TypeOK, SessionInv, LeaderInv, [Next]_vars
  PROVE  LeaderInv'
<1> SUFFICES ASSUME NEW k \in Nodes
             PROVE  /\ Running(k)' => k \in view'[k]
                    /\ proto'[k] = "leader" \/ k \in executed' =>
                         k \in view'[k] /\ RelayerLeaderNode(view'[k]) = k
  BY Zenon DEF LeaderInv, RelayerLeaderNode
<1>0. /\ Running(k) => k \in view[k]
      /\ proto[k] = "leader" \/ k \in executed => k \in view[k] /\ RelayerLeaderNode(view[k]) = k
  BY Zenon DEF LeaderInv
<1>1. ASSUME NEW n \in Nodes, NewSession(n)
      PROVE  /\ Running(k)' => k \in view'[k]
             /\ proto'[k] = "leader" \/ k \in executed' =>
                  k \in view'[k] /\ RelayerLeaderNode(view'[k]) = k
  <2>1. PICK peers : view' = [view EXCEPT ![n] = peers \cup {n}]
    BY <1>1, Zenon DEF NewSession
  <2>2. proto[n] = "joined" /\ proto' = [proto EXCEPT ![n] = "select"] /\ executed' = executed
    BY <1>1, Zenon DEF NewSession
  <2>3. CASE k = n
    <3>1. k \in view'[k] /\ proto'[k] = "select"
      BY <2>1, <2>2, <2>3, Zenon DEF TypeOK
    <3>2. k \notin executed'
      BY <2>2, <2>3, Zenon DEF SessionInv, PhaseInv
    <3> QED
      BY <3>1, <3>2, Zenon
  <2>4. CASE k # n
    <3>1. view'[k] = view[k] /\ proto'[k] = proto[k]
      BY <2>1, <2>2, <2>4, Zenon DEF TypeOK
    <3> QED
      BY <1>0, <2>2, <3>1, Zenon DEF Running
  <2> QED
    BY <2>3, <2>4, Zenon
<1>2. ASSUME NEW n \in Nodes, Step(n), ~NewSession(n)
      PROVE  /\ Running(k)' => k \in view'[k]
             /\ proto'[k] = "leader" \/ k \in executed' =>
                  k \in view'[k] /\ RelayerLeaderNode(view'[k]) = k
  <2>1. view' = view
    BY <1>2, Zenon DEF Step, HandleOracleRequest, NoSession, Timeout, LeaderExecutes, LeaderFails,
      LeaveTopic, StartEpoch, FinishBlsSetup, Crash
  <2>2. /\ Running(k)' => Running(k)
        /\ proto'[k] = "leader" => proto[k] = "leader"
        /\ k \in executed' => k \in executed \/ proto[k] = "leader"
    BY <1>2, Zenon DEF Step, HandleOracleRequest, NoSession, Timeout, LeaderExecutes, LeaderFails,
      LeaveTopic, StartEpoch, FinishBlsSetup, Crash, Running, TypeOK
  <2> QED
    BY <1>0, <2>1, <2>2, Zenon
<1>3. ASSUME NEW n \in Nodes, NEW m \in sent, Agree(n, m)
      PROVE  /\ Running(k)' => k \in view'[k]
             /\ proto'[k] = "leader" \/ k \in executed' =>
                  k \in view'[k] /\ RelayerLeaderNode(view'[k]) = k
  <2>1. /\ view' = view /\ executed' = executed /\ proto[n] = "select"
        /\ proto' = [proto EXCEPT ![n] =
                       IF RelayerLeaderNode(view[n]) = n THEN "leader" ELSE "follower"]
    BY <1>3, Zenon DEF Agree
  <2>2. /\ Running(k)' => Running(k)
        /\ proto'[k] = "leader" => proto[k] = "leader" \/ (k = n /\ RelayerLeaderNode(view[n]) = n)
    BY <2>1, Zenon DEF Running, TypeOK
  <2>3. Running(n)
    BY <2>1, Zenon DEF Running
  <2> QED
    BY <1>0, <2>1, <2>2, <2>3, Zenon
<1>4. ASSUME NEW n \in Nodes, NEW m \in sent, Handler(n, m), ~Agree(n, m)
      PROVE  UNCHANGED <<proto, view, executed>>
  BY <1>4, Zenon DEF Handler, HandleAnnounce, IgnorePrepare, RejectPrepare, AcceptPrepare,
    IgnorePrepared, BlockOnAgreed
<1>5. CASE UNCHANGED vars
  BY <1>0, <1>5, Zenon DEF vars, Running
<1>6. CASE UNCHANGED <<proto, view, executed>>
  BY <1>0, <1>6, Zenon DEF Running
<1> QED
  BY <1>1, <1>2, <1>3, <1>4, <1>5, <1>6, Zenon DEF Next

\* Of two nodes that call the destination bridge one did not see the other: nodes that saw
\* each other compare the same two hashes in RelayerLeaderNode (node.go:105).
THEOREM OneLeaderPerView == Spec => []ExecutorsUnseen
<1>1. Init => LeaderInv
  BY Zenon DEF Init, LeaderInv, Running
<1>2. TypeOK /\ LeaderInv => ExecutorsUnseen
  <2> SUFFICES ASSUME TypeOK, LeaderInv, NEW m \in executed, NEW n \in executed,
                      m \in view[n], n \in view[m]
               PROVE  m = n
    BY Zenon DEF ExecutorsUnseen
  <2>1. m \in Nodes /\ n \in Nodes /\ view[m] \in SUBSET Nodes /\ view[n] \in SUBSET Nodes
    BY Zenon DEF TypeOK
  <2>2. RelayerLeaderNode(view[m]) = m /\ RelayerLeaderNode(view[n]) = n
    BY <2>1, Zenon DEF LeaderInv
  <2>3. Rank[m] <= Rank[n] /\ Rank[n] <= Rank[m]
    BY <2>1, <2>2, LeaderIsLeast, Zenon
  <2> QED
    BY <2>1, <2>3, RankOrders
<1> QED
  BY <1>1, <1>2, LeaderStep, Invariance, PTL DEF Spec

-----------------------------------------------------------------------------
(* The refinement of BridgeRequest.                                         *)

Acked == {m \in sent : m.type = "Prepare"}
Agreed == {n \in Nodes : cancelled[n]}

\* Enough nodes have signed by the time a node agrees, whatever its view.
LEMMA QuorumSigned ==
  ASSUME TypeOK, NEW n \in Nodes, Cardinality(view[n]) > MinConsensusNodes,
         Cardinality(Witnesses(n)) >= ThresholdAck(n)
  PROVE  Signers(Acked) \in {S \in SUBSET Nodes : Cardinality(S) >= MinThreshold}
<1>1. view[n] \in SUBSET Nodes /\ Cardinality(view[n]) \in Nat
  BY NodeSets, Zenon DEF TypeOK
<1>2. Cardinality(view[n]) >= MinConsensusNodes + 1
  BY <1>1, BoundsAreNumbers
<1>3. ThresholdAck(n) >= MinThreshold
  BY <1>1, <1>2, ThresholdMonotone, BoundsAreNumbers DEF ThresholdAck, MinThreshold
<1>4. Witnesses(n) \subseteq Signers(Acked)
  <2>1. PublishedAcks(keys[n].epoch) \subseteq Acked
    BY Zenon DEF PublishedAcks, Acked
  <2> QED
    BY <2>1, SignersMonotone, Zenon DEF Witnesses
<1>5. Signers(Acked) \in SUBSET Nodes
  <2>1. Acked \subseteq Prepares
    BY MessageTypes, Zenon DEF Acked, TypeOK
  <2> QED
    BY <2>1, Zenon DEF Signers, Prepares
<1>6. /\ Cardinality(Witnesses(n)) <= Cardinality(Signers(Acked))
      /\ Cardinality(Witnesses(n)) \in Nat
      /\ Cardinality(Signers(Acked)) \in Nat
  BY <1>4, <1>5, NodeSets, FS_Subset, WitnessesAreNodes, Zenon
<1>7. ThresholdAck(n) \in Int /\ MinThreshold \in Int
  BY <1>1, BoundsAreNumbers, SMTT(30) DEF ThresholdAck, MinThreshold
<1> QED
  BY <1>3, <1>5, <1>6, <1>7

\* Each step of the sessions signs, agrees, calls or leaves the request alone.
LEMMA StepRefines ==
  ASSUME TypeOK, TypeOK', SessionInv, [Next]_vars
  PROVE  [Request!Next]_(Request!vars)
<1>1. ASSUME NEW n \in Nodes, Step(n), ~LeaderExecutes(n)
      PROVE  UNCHANGED <<Acked, Agreed, executed>>
  <2>1. CASE NewSession(n)
    <3> DEFINE a == [type |-> "Announce", src |-> n]
    <3>1. sent' = sent \cup {a} /\ UNCHANGED <<cancelled, executed>>
      BY <2>1, Zenon DEF NewSession
    <3>2. a.type # "Prepare"
      BY Zenon
    <3> HIDE DEF a
    <3>3. Acked' = Acked
      BY <3>1, <3>2, Zenon DEF Acked
    <3> QED
      BY <3>1, <3>3, Zenon DEF Agreed
  <2>2. CASE ~NewSession(n)
    BY <1>1, <2>2, Zenon DEF Step, HandleOracleRequest, NoSession, Timeout, LeaderFails,
      LeaveTopic, StartEpoch, FinishBlsSetup, Crash, Acked, Agreed
  <2> QED
    BY <2>1, <2>2, Zenon
<1>2. ASSUME NEW n \in Nodes, LeaderExecutes(n)
      PROVE  Request!Call(n)
  <2>1. n \in Agreed \ executed
    BY <1>2, Zenon DEF LeaderExecutes, SessionInv, PhaseInv, Agreed
  <2> QED
    BY <1>2, <2>1, Zenon DEF LeaderExecutes, Request!Call, Acked, Agreed
<1>3. ASSUME NEW n \in Nodes, NEW m \in sent, Handler(n, m),
             ~HandleAnnounce(n, m), ~Agree(n, m)
      PROVE  UNCHANGED <<Acked, Agreed, executed>>
  <2>1. CASE AcceptPrepare(n, m)
    BY <2>1, SMTT(30) DEF AcceptPrepare, Acked, Agreed
  <2>2. CASE ~AcceptPrepare(n, m)
    BY <1>3, <2>2, Zenon DEF Handler, IgnorePrepare, RejectPrepare, IgnorePrepared, BlockOnAgreed,
      Acked, Agreed
  <2> QED
    BY <2>1, <2>2, Zenon
<1>4. ASSUME NEW n \in Nodes, NEW m \in sent, HandleAnnounce(n, m)
      PROVE  \/ UNCHANGED <<Signers(Acked), Agreed, executed>>
             \/ Request!Sign(n)
  <2> DEFINE p == [type |-> "Prepare", src |-> n,
                   epoch |-> keys[n].epoch, member |-> keys[n].member]
  <2>1. Acked' = Acked \cup {p}
    BY <1>4 DEF HandleAnnounce, Acked
  <2>2. Signers(Acked)' = Signers(Acked) \cup {n}
    <3>1. Signers(Acked \cup {p}) = Signers(Acked) \cup {p.src}
      BY SignersAdd, Zenon
    <3> QED
      BY <2>1, <3>1, Zenon
  <2>3. UNCHANGED <<Agreed, executed>>
    BY <1>4, Zenon DEF HandleAnnounce, Agreed
  <2> QED
    <3>1. CASE n \in Signers(Acked)
      <4>1. Signers(Acked)' = Signers(Acked)
        BY <2>2, <3>1, Zenon
      <4> QED
        BY <2>3, <4>1, Zenon
    <3>2. CASE n \notin Signers(Acked)
      BY <2>2, <2>3, <3>2, Zenon DEF Request!Sign, Acked, Agreed
    <3> QED
      BY <3>1, <3>2, Zenon
<1>5. ASSUME NEW n \in Nodes, NEW m \in sent, Agree(n, m)
      PROVE  Request!Agree(n)
  <2>1. Signers(Acked)' = Signers(Acked) /\ executed' = executed
    BY <1>5, Zenon DEF Agree, Acked
  <2>2. Agreed' = Agreed \cup {n} /\ n \notin Agreed
    <3>1. ~cancelled[n] /\ cancelled' = [cancelled EXCEPT ![n] = TRUE]
      BY <1>5, Zenon DEF Agree
    <3>2. cancelled \in [Nodes -> BOOLEAN]
      BY Zenon DEF TypeOK
    <3>3. \A k \in Nodes : cancelled'[k] <=> k = n \/ cancelled[k]
      BY <3>1, <3>2, Zenon
    <3> QED
      BY <3>1, <3>3, Zenon DEF Agreed
  <2>3. Signers(Acked) \in {S \in SUBSET Nodes : Cardinality(S) >= MinThreshold}
    BY <1>5, QuorumSigned, AgreeHasQuorum, Zenon DEF SessionInv
  <2> QED
    BY <2>1, <2>2, <2>3, Zenon DEF Request!Agree, Acked, Agreed
<1>6. CASE UNCHANGED vars
  BY <1>6, Zenon DEF vars, Request!vars
<1> QED
  BY <1>1, <1>2, <1>3, <1>4, <1>5, <1>6, Zenon DEF Next, Request!Next, Request!vars, Acked, Agreed

\* The sessions implement BridgeRequest: the bridge is called only by nodes
\* that agreed after MinThreshold different nodes had signed, and by none twice.
THEOREM Refinement == Spec => ImplementsRequest
<1>1. Init => Request!Init
  BY Zenon DEF Init, Request!Init, Signers
<1>2. TypeOK /\ SessionInv /\ TypeOK' /\ [Next]_vars
        => [Request!Next]_(Request!vars)
  BY StepRefines, Zenon
<1> QED
  BY <1>1, <1>2, Invariance, PTL DEF Spec, Request!Spec, ImplementsRequest
=============================================================================
