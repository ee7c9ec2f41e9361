----------------------------- MODULE EpochProofs ----------------------------
(***************************************************************************)
(* Proofs about an epoch's start.  QuitHandlers, for any number of topics  *)
(* and channels: the maps stay inverse, so no channel is closed twice.     *)
(* EpochSetup, for any number of nodes and of calls in one process: a key  *)
(* lacks a part only when another call left the topic; with one call it    *)
(* is exact unless node 0 was restarted.                                   *)
(***************************************************************************)
EXTENDS QuitHandlers, TLAPS

\* Fresh channels are in no map and open; a goroutine that may still send is
\* registered or has been told to quit.
ChannelInv ==
  \A ch \in Channels :
    /\ spread[ch] = "unused" => topics[ch] = NoTopic /\ ch \notin closed
    /\ spread[ch] = "starting" => topics[ch] # NoTopic \/ ch \in closed
    /\ spread[ch] = "select" => topics[ch] # NoTopic

QInv == TypeOK /\ NeverPanics /\ MapsInverse /\ ChannelInv

\* Closing the channel registered for a topic closes an open channel.
LEMMA RegisteredOpen ==
  ASSUME QInv, NEW t \in Topics
  PROVE  ({handlers[t]} \ {NoChannel}) \cap closed = {}
  BY Zenon DEF QInv, MapsInverse

\* Every step keeps the invariant.
LEMMA StepKeepsQInv == QInv /\ [Next]_vars => QInv'
<1> SUFFICES ASSUME QInv, [Next]_vars
             PROVE  QInv'
  BY Zenon
<1> USE NoTopicIsNone, NoChannelIsNone
<1>1. ASSUME NEW t \in Topics, NEW ch \in Channels, AddQuitHandler(t, ch)
      PROVE  QInv'
  <2> DEFINE old == {handlers[t]} \ {NoChannel}
  <2>1. /\ spread[ch] = "unused"
        /\ closed' = closed \cup old
        /\ panicked' = (panicked \/ old \cap closed # {})
        /\ handlers' = [handlers EXCEPT ![t] = ch]
        /\ topics' = [c \in Channels |-> CASE c = ch -> t
                                          [] c \in old -> NoTopic
                                          [] OTHER -> topics[c]]
        /\ spread' = [Woken(old) EXCEPT ![ch] = "starting"]
        /\ updates' = updates
    BY <1>1, Zenon DEF AddQuitHandler, Close
  <2>2. old \in SUBSET Channels /\ old \cap closed = {}
    BY RegisteredOpen, Zenon DEF QInv, TypeOK
  <2>3. topics[ch] = NoTopic /\ ch \notin closed /\ ch \notin old
    BY <2>1 DEF QInv, ChannelInv, MapsInverse
  <2>4. TypeOK'
    BY <2>1, <2>2, Zenon DEF QInv, TypeOK, Woken
  <2>5. NeverPanics'
    BY <2>1, <2>2, Zenon DEF QInv, NeverPanics
  <2>6. MapsInverse'
    BY <2>1, <2>2, <2>3 DEF QInv, TypeOK, MapsInverse
  <2>7. ChannelInv'
    BY <2>1, <2>2, <2>3, Zenon DEF QInv, TypeOK, ChannelInv, MapsInverse, Woken
  <2> QED
    BY <2>4, <2>5, <2>6, <2>7, Zenon DEF QInv
<1>2. ASSUME NEW t \in Topics, RemoveTopicHandler(t)
      PROVE  QInv'
  <2> DEFINE old == {handlers[t]} \ {NoChannel}
  <2>1. /\ closed' = closed \cup old
        /\ panicked' = (panicked \/ old \cap closed # {})
        /\ handlers' = [handlers EXCEPT ![t] = NoChannel]
        /\ topics' = [c \in Channels |-> IF c \in old THEN NoTopic ELSE topics[c]]
        /\ spread' = Woken(old)
        /\ updates' = updates
    BY <1>2, Zenon DEF RemoveTopicHandler, Close
  <2>2. old \in SUBSET Channels /\ old \cap closed = {}
    BY RegisteredOpen, Zenon DEF QInv, TypeOK
  <2>3. TypeOK'
    BY <2>1, <2>2, Zenon DEF QInv, TypeOK, Woken
  <2>4. NeverPanics'
    BY <2>1, <2>2, Zenon DEF QInv, NeverPanics
  <2>5. MapsInverse'
    BY <2>1, <2>2 DEF QInv, TypeOK, MapsInverse
  <2>6. ChannelInv'
    BY <2>1, <2>2 DEF QInv, TypeOK, ChannelInv, MapsInverse, Woken
  <2> QED
    BY <2>3, <2>4, <2>5, <2>6, Zenon DEF QInv
<1>3. ASSUME NEW ch \in Channels, RemoveQuitHandler(ch)
      PROVE  QInv'
  <2> DEFINE found == {t \in Topics : topics[ch] = t /\ handlers[t] = ch}
  <2>1. /\ spread[ch] = "returning"
        /\ spread' = [spread EXCEPT ![ch] = "done"]
        /\ closed' = closed \cup {ch : t \in found}
        /\ panicked' = (panicked \/ {ch : t \in found} \cap closed # {})
        /\ handlers' = [t \in Topics |-> IF t \in found THEN NoChannel ELSE handlers[t]]
        /\ topics' = [topics EXCEPT ![ch] = IF found = {} THEN @ ELSE NoTopic]
        /\ updates' = updates
    BY <1>3, Zenon DEF RemoveQuitHandler, Close
  <2>2. CASE topics[ch] = NoTopic
    <3>1. found = {}
      BY <2>2, Zenon
    <3>2. closed' = closed /\ panicked' = panicked /\ handlers' = handlers /\ topics' = topics
      BY <2>1, <3>1, ZenonT(30) DEF QInv, TypeOK
    <3> QED
      BY <2>1, <3>2 DEF QInv, TypeOK, NeverPanics, MapsInverse, ChannelInv
  <2>3. CASE topics[ch] # NoTopic
    <3>1. /\ topics[ch] \in Topics
          /\ handlers[topics[ch]] = ch
          /\ ch \notin closed
          /\ found = {topics[ch]}
      BY <2>3 DEF QInv, TypeOK, MapsInverse
    <3>2. /\ closed' = closed \cup {ch}
          /\ panicked' = panicked
          /\ topics' = [topics EXCEPT ![ch] = NoTopic]
          /\ handlers' = [handlers EXCEPT ![topics[ch]] = NoChannel]
      <4> HIDE DEF found
      <4>1. {ch : t \in found} = {ch}
        BY <3>1, Zenon
      <4>2. closed' = closed \cup {ch} /\ panicked' = (panicked \/ {ch} \cap closed # {})
        BY <2>1, <4>1, Zenon
      <4>3. panicked' = panicked
        BY <3>1, <4>2 DEF QInv, TypeOK, NeverPanics
      <4>4. topics' = [topics EXCEPT ![ch] = NoTopic]
        BY <2>1, <3>1, Zenon
      <4>5. handlers' = [handlers EXCEPT ![topics[ch]] = NoChannel]
        BY <2>1, <3>1, Zenon DEF QInv, TypeOK
      <4> QED
        BY <4>2, <4>3, <4>4, <4>5, Zenon
    <3>3. TypeOK'
      BY <2>1, <3>1, <3>2, Zenon DEF QInv, TypeOK
    <3>4. NeverPanics'
      BY <3>2, Zenon DEF QInv, NeverPanics
    <3>5. MapsInverse'
      BY <3>1, <3>2 DEF QInv, TypeOK, MapsInverse
    <3>6. ChannelInv'
      BY <2>1, <3>1, <3>2 DEF QInv, TypeOK, ChannelInv
    <3> QED
      BY <3>3, <3>4, <3>5, <3>6, Zenon DEF QInv
  <2> QED
    BY <2>2, <2>3, Zenon
<1>4. ASSUME NEW ch \in Channels, EnterSelect(ch) \/ SendUpdate(ch)
      PROVE  QInv'
  <2>1. /\ UNCHANGED <<handlers, topics, closed, panicked>>
        /\ updates' \in SUBSET Channels
        /\ spread[ch] \in {"starting", "select"}
        /\ \/ spread' = [spread EXCEPT ![ch] = "returning"]
           \/ ch \notin closed /\ spread[ch] = "starting" /\ spread' = [spread EXCEPT ![ch] = "select"]
    BY <1>4, Zenon DEF EnterSelect, SendUpdate, QInv, TypeOK
  <2> QED
    BY <2>1 DEF QInv, TypeOK, NeverPanics, MapsInverse, ChannelInv
<1>5. CASE UNCHANGED vars
  BY <1>5, Zenon DEF vars, QInv, TypeOK, NeverPanics, MapsInverse, ChannelInv
<1> QED
  BY <1>1, <1>2, <1>3, <1>4, <1>5, Zenon DEF Next

\* The register keeps its shape whatever the goroutines do.
THEOREM RegisterInvariance == Spec => []QInv
<1>1. Init => QInv
  BY NoTopicIsNone, NoChannelIsNone, Zenon
  DEF Init, QInv, TypeOK, NeverPanics, MapsInverse, ChannelInv
<1> QED
  BY <1>1, StepKeepsQInv, PTL DEF Spec

\* No interleaving of AddQuitHandler, RemoveQuitHandler and RemoveTopicHandler
\* closes a channel twice.
THEOREM NoDoubleClose == Spec => []NeverPanics
<1>1. QInv => NeverPanics
  BY Zenon DEF QInv
<1> QED
  BY <1>1, RegisterInvariance, PTL

\* The two maps of quit_handlers.go stay inverse and hold open channels only.
THEOREM RegisterConsistent == Spec => []MapsInverse
<1>1. QInv => MapsInverse
  BY Zenon DEF QInv
<1> QED
  BY <1>1, RegisterInvariance, PTL

\* At most the newest SpreadNewEpoch of an epoch still waits to send.
THEOREM NewestWaits == Spec => []OnlyNewestWaits
<1>1. QInv => OnlyNewestWaits
  BY Zenon DEF QInv, TypeOK, MapsInverse, ChannelInv, OnlyNewestWaits
<1> QED
  BY <1>1, RegisterInvariance, PTL

\* A SpreadNewEpoch that was told to quit before its turn does not send.
THEOREM CancelIsFinal == Spec => CancelledNeverSends
<1>1. QInv /\ [Next]_vars =>
        [\A ch \in closed : ch \in updates' \ updates => spread[ch] = "starting"]_vars
  <2> SUFFICES ASSUME QInv, Next, NEW ch \in closed, ch \in updates' \ updates,
                      spread[ch] # "starting"
               PROVE  FALSE
    BY Zenon
  <2>1. CASE SendUpdate(ch)
    <3>1. ch \in Channels /\ topics[ch] # NoTopic
      BY <2>1, Zenon DEF SendUpdate, QInv, TypeOK, ChannelInv
    <3>2. topics[ch] \in Topics /\ handlers[topics[ch]] = ch
      BY <3>1, Zenon DEF QInv, TypeOK, MapsInverse
    <3>3. ch \notin closed
      BY <3>1, <3>2, NoChannelIsNone DEF QInv, MapsInverse
    <3> QED
      BY <3>3, Zenon
  <2>2. CASE ~SendUpdate(ch)
    BY <2>2, Zenon DEF Next, AddQuitHandler, RemoveTopicHandler, RemoveQuitHandler, EnterSelect,
      SendUpdate
  <2> QED
    BY <2>1, <2>2, Zenon
<1> QED
  BY <1>1, RegisterInvariance, PTL DEF Spec, CancelledNeverSends

-----------------------------------------------------------------------------
(* The set-up of the membership keys. *)

CONSTANTS Nodes, First, Calls, Phase, None, CanFail, CanLose, CanRestart, MaxRestarts

VARIABLES pc, mine, topic, made, queue, mask, key, memberKey, restarts

Setup == INSTANCE EpochSetup

\* What a call's topic object is while it runs, and what its mask says of its key; once the
\* object is not the node's any more, another call has left the topic.
Left(n, c) == \E d \in Calls \ {c} : pc[n][d] = "done" /\ mine[n][d] # 0

CallsOK(n) ==
  \A c \in Calls :
    /\ pc[n][c] = "idle" => mine[n][c] = 0
    /\ pc[n][c] \in {"waiting", "setup", "leaving"} => mine[n][c] # 0
    /\ mask[n][c] = {m \in Nodes : key[n][c][m] = 0}
    /\ pc[n][c] \in {"waiting", "setup"} /\ mine[n][c] # topic[n] => Left(n, c)
    /\ pc[n][c] \in {"leaving", "done"} /\ mine[n][c] # 0 /\ mask[n][c] # {} => Left(n, c)

EInv == Setup!TypeOK /\ \A n \in Nodes : CallsOK(n)

\* The initial state satisfies it.
LEMMA InitEInv == ASSUME Setup!Setting PROVE Setup!Init => EInv
<1> SUFFICES ASSUME Setup!Init PROVE EInv
  BY Zenon
<1>1. Setup!TypeOK
  BY DEF Setup!Setting, Setup!Init, Setup!TypeOK, Setup!Empty, Setup!ZeroSignature, Setup!Msgs
<1>2. \A n \in Nodes : CallsOK(n)
  BY Zenon DEF Setup!Init, CallsOK, Setup!ZeroSignature
<1> QED
  BY <1>1, <1>2, Zenon DEF EInv

\* A message is taken from a subscription, or published to all.
Queues == [Nodes -> [Setup!Msgs -> Nat]]

LEMMA TakenType ==
  ASSUME queue \in Queues, NEW n \in Nodes, NEW msg \in Setup!Msgs, queue[n][msg] > 0
  PROVE  /\ Setup!Taken(n, msg) \in Queues
         /\ \A x \in Nodes, y \in Setup!Msgs :
              Setup!Taken(n, msg)[x][y] = IF x = n /\ y = msg THEN queue[x][y] - 1 ELSE queue[x][y]
<1> DEFINE row == [queue[n] EXCEPT ![msg] = @ - 1]
<1>1. queue[n] \in [Setup!Msgs -> Nat] /\ queue[n][msg] - 1 \in Nat
  BY DEF Queues
<1>2. row \in [Setup!Msgs -> Nat]
  BY <1>1, Zenon
<1>3. Setup!Taken(n, msg) = [queue EXCEPT ![n] = row]
  BY Zenon DEF Setup!Taken
<1>4. Setup!Taken(n, msg) \in Queues
  BY <1>2, <1>3, Zenon DEF Queues
<1> QED
  BY <1>1, <1>3, <1>4 DEF Queues

\* What a publication adds.
LEMMA PublishType ==
  ASSUME NEW q \in Queues, NEW n \in Nodes, NEW c \in Calls, NEW msg \in Setup!Msgs
  PROVE  /\ Setup!AfterPublish(n, c, q, msg) \in Queues
         /\ \A x \in Nodes, y \in Setup!Msgs :
              Setup!AfterPublish(n, c, q, msg)[x][y] =
                IF y = msg /\ mine[n][c] = topic[n] /\ topic[x] # 0 THEN q[x][y] + 1 ELSE q[x][y]
<1>1. \A x \in Nodes : q[x] \in [Setup!Msgs -> Nat] /\ [q[x] EXCEPT ![msg] = @ + 1] \in [Setup!Msgs -> Nat]
  BY DEF Queues
<1>2. Setup!AfterPublish(n, c, q, msg) = [x \in Nodes |->
        IF mine[n][c] = topic[n] /\ topic[x] # 0 THEN [q[x] EXCEPT ![msg] = @ + 1] ELSE q[x]]
  BY Zenon DEF Setup!AfterPublish
<1>3. Setup!AfterPublish(n, c, q, msg) \in Queues
  BY <1>1, <1>2, Zenon DEF Queues
<1> QED
  BY <1>1, <1>2, <1>3

\* Every step keeps the types.
LEMMA SetupTypes == ASSUME Setup!Setting, Setup!TypeOK, [Setup!Next]_(Setup!vars) PROVE Setup!TypeOK'
<1>0. queue \in Queues /\ \A n \in Nodes : n \in Setup!Msgs /\ Phase \in Setup!Msgs
  BY Zenon DEF Setup!TypeOK, Queues, Setup!Msgs
<1>1. ASSUME NEW n \in Nodes, NEW c \in Calls, Setup!StartEpoch(n, c) PROVE Setup!TypeOK'
  <2> DEFINE new == IF topic[n] = 0 THEN made[n] + 1 ELSE topic[n]
  <2>1. /\ new \in Nat /\ mine' = [mine EXCEPT ![n][c] = new] /\ topic' = [topic EXCEPT ![n] = new]
        /\ made' = [made EXCEPT ![n] = IF topic[n] = 0 THEN new ELSE @]
    BY <1>1 DEF Setup!StartEpoch, Setup!TypeOK
  <2> HIDE DEF new
  <2>2. made' \in [Nodes -> Nat] /\ topic' \in [Nodes -> Nat] /\ mine' \in [Nodes -> [Calls -> Nat]]
    BY <2>1, Zenon DEF Setup!TypeOK
  <2> QED
    BY <1>1, <2>2, Zenon DEF Setup!StartEpoch, Setup!TypeOK
<1>2. ASSUME NEW n \in Nodes, NEW c \in Calls, Setup!StartEpochFails(n, c) PROVE Setup!TypeOK'
  BY <1>2, Zenon DEF Setup!StartEpochFails, Setup!TypeOK
<1>3. ASSUME NEW n \in Nodes, NEW c \in Calls, Setup!AllPeersSeen(n, c) PROVE Setup!TypeOK'
  <2>1. queue' \in Queues
    BY <1>0, <1>3, PublishType, Zenon DEF Setup!AllPeersSeen
  <2> QED
    BY <1>3, <2>1, Zenon DEF Setup!AllPeersSeen, Setup!TypeOK, Queues
<1>4. ASSUME NEW n \in Nodes, NEW c \in Calls, Setup!HandlePhase(n, c) PROVE Setup!TypeOK'
  <2>1. Setup!Taken(n, Phase) \in Queues
    BY <1>0, <1>4, TakenType, Zenon DEF Setup!HandlePhase
  <2>2. queue' \in Queues
    BY <1>0, <1>4, <2>1, PublishType, Zenon DEF Setup!HandlePhase
  <2> QED
    BY <1>4, <2>2, Zenon DEF Setup!HandlePhase, Setup!TypeOK, Queues
<1>5. ASSUME NEW n \in Nodes, NEW c \in Calls, NEW m \in Nodes, Setup!HandleParts(n, c, m) PROVE Setup!TypeOK'
  <2>1. queue' \in Queues
    BY <1>0, <1>5, TakenType, Zenon DEF Setup!HandleParts
  <2>2. key' \in [Nodes -> [Calls -> [Nodes -> Nat]]]
    BY <1>5 DEF Setup!HandleParts, Setup!TypeOK
  <2>3. mask' \in [Nodes -> [Calls -> SUBSET Nodes]]
    BY <1>5 DEF Setup!HandleParts, Setup!TypeOK
  <2> QED
    BY <1>5, <2>1, <2>2, <2>3, Zenon DEF Setup!HandleParts, Setup!TypeOK, Queues
<1>6. ASSUME NEW n \in Nodes, NEW c \in Calls, NEW m \in Setup!Msgs, Setup!DropMessage(n, c, m) PROVE Setup!TypeOK'
  <2>1. queue' \in Queues
    BY <1>0, <1>6, TakenType, Zenon DEF Setup!DropMessage
  <2> QED
    BY <1>6, <2>1, Zenon DEF Setup!DropMessage, Setup!TypeOK, Queues
<1>7. ASSUME NEW n \in Nodes, NEW c \in Calls, Setup!BlsSetupReturns(n, c) PROVE Setup!TypeOK'
  <2>1. key[n][c] \in [Nodes -> Nat]
    BY DEF Setup!TypeOK
  <2>2. memberKey' \in [Nodes -> [Nodes -> Nat] \cup {None}]
    BY <1>7, <2>1, Zenon DEF Setup!BlsSetupReturns, Setup!TypeOK
  <2> QED
    BY <1>7, <2>2, Zenon DEF Setup!BlsSetupReturns, Setup!TypeOK
<1>8. ASSUME NEW n \in Nodes, NEW c \in Calls, Setup!LeaveTopic(n, c) PROVE Setup!TypeOK'
  BY <1>8, Zenon DEF Setup!LeaveTopic, Setup!TypeOK, Setup!Empty
<1>9. ASSUME NEW n \in Nodes, NEW m \in Setup!Msgs, Setup!LoseMessage(n, m) PROVE Setup!TypeOK'
  <2>1. queue' \in Queues
    BY <1>0, <1>9, TakenType, Zenon DEF Setup!LoseMessage
  <2> QED
    BY <1>9, <2>1, Zenon DEF Setup!LoseMessage, Setup!TypeOK, Queues
<1>10. ASSUME NEW n \in Nodes, Setup!Restart(n) PROVE Setup!TypeOK'
  <2>1. restarts' \in [Nodes -> 0..MaxRestarts]
    BY <1>10 DEF Setup!Restart, Setup!TypeOK, Setup!Setting
  <2>2. queue' \in Queues
    BY <1>0, <1>10, Zenon DEF Setup!Restart, Queues, Setup!Empty
  <2>3. key' \in [Nodes -> [Calls -> [Nodes -> Nat]]] /\ mask' \in [Nodes -> [Calls -> SUBSET Nodes]]
    BY <1>10, Zenon DEF Setup!Restart, Setup!TypeOK, Setup!ZeroSignature
  <2>4. memberKey' \in [Nodes -> [Nodes -> Nat] \cup {None}]
    BY <1>10, Zenon DEF Setup!Restart, Setup!TypeOK
  <2> QED
    BY <1>10, <2>1, <2>2, <2>3, <2>4, Zenon DEF Setup!Restart, Setup!TypeOK, Queues
<1>11. CASE UNCHANGED Setup!vars
  BY <1>11, Zenon DEF Setup!vars, Setup!TypeOK
<1> QED
  BY <1>1, <1>2, <1>3, <1>4, <1>5, <1>6, <1>7, <1>8, <1>9, <1>10, <1>11, Zenon
     DEF Setup!Next, Setup!Call, Setup!Environment

\* A step keeps the calls of the nodes it does not touch.
LEMMA OtherCalls ==
  ASSUME NEW n \in Nodes, CallsOK(n), pc'[n] = pc[n], mine'[n] = mine[n], topic'[n] = topic[n],
         mask'[n] = mask[n], key'[n] = key[n]
  PROVE  CallsOK(n)'
BY DEF CallsOK, Left

\* Every step keeps the invariant: only LeaveTopic takes a topic object from other calls, and
\* the call that has left stays as their witness.
LEMMA NextEInv == ASSUME Setup!Setting, EInv, [Setup!Next]_(Setup!vars) PROVE EInv'
<1>0. Setup!TypeOK' /\ Setup!TypeOK /\ \A n \in Nodes : CallsOK(n)
  BY SetupTypes, Zenon DEF EInv
<1>1. ASSUME NEW n \in Nodes, NEW c \in Calls, Setup!StartEpoch(n, c)
      PROVE  \A x \in Nodes : CallsOK(x)'
  <2> DEFINE new == IF topic[n] = 0 THEN made[n] + 1 ELSE topic[n]
  <2>1. /\ new # 0 /\ topic'[n] = new /\ pc[n][c] = "idle" /\ pc'[n][c] = "waiting" /\ mine'[n][c] = new
        /\ \A d \in Calls \ {c} : pc'[n][d] = pc[n][d] /\ mine'[n][d] = mine[n][d]
        /\ (topic[n] # 0 => new = topic[n]) /\ UNCHANGED <<mask, key>>
        /\ \A x \in Nodes \ {n} : pc'[x] = pc[x] /\ mine'[x] = mine[x] /\ topic'[x] = topic[x]
    BY <1>0, <1>1 DEF Setup!StartEpoch, Setup!TypeOK
  <2> HIDE DEF new
  <2>2. \A d \in Calls : Left(n, d) => Left(n, d)'
    BY <2>1, Zenon DEF Left
  <2>3. CallsOK(n)'
    BY <1>0, <2>1, <2>2 DEF CallsOK
  <2> QED
    BY <1>0, <2>1, <2>3, OtherCalls, Zenon
<1>2. ASSUME NEW n \in Nodes, NEW c \in Calls, Setup!StartEpochFails(n, c)
      PROVE  \A x \in Nodes : CallsOK(x)'
  <2>1. /\ pc[n][c] = "idle" /\ pc'[n][c] = "done" /\ UNCHANGED <<mine, topic, mask, key>>
        /\ \A d \in Calls \ {c} : pc'[n][d] = pc[n][d]
        /\ \A x \in Nodes \ {n} : pc'[x] = pc[x]
    BY <1>0, <1>2 DEF Setup!StartEpochFails, Setup!TypeOK
  <2>2. \A d \in Calls : Left(n, d) => Left(n, d)'
    BY <2>1, Zenon DEF Left
  <2>3. CallsOK(n)'
    BY <1>0, <2>1, <2>2 DEF CallsOK
  <2> QED
    BY <1>0, <2>1, <2>3, OtherCalls, Zenon
<1>3. ASSUME NEW n \in Nodes, NEW c \in Calls, Setup!AllPeersSeen(n, c)
      PROVE  \A x \in Nodes : CallsOK(x)'
  <2>1. /\ pc[n][c] = "waiting" /\ pc'[n][c] = "setup" /\ UNCHANGED <<mine, topic, mask, key>>
        /\ \A d \in Calls \ {c} : pc'[n][d] = pc[n][d]
        /\ \A x \in Nodes \ {n} : pc'[x] = pc[x]
    BY <1>0, <1>3, Zenon DEF Setup!AllPeersSeen, Setup!TypeOK
  <2>2. \A d \in Calls : Left(n, d) => Left(n, d)'
    BY <2>1, Zenon DEF Left
  <2>3. CallsOK(n)'
    BY <1>0, <2>1, <2>2 DEF CallsOK
  <2> QED
    BY <1>0, <2>1, <2>3, OtherCalls, Zenon
<1>4. ASSUME UNCHANGED <<pc, mine, topic, mask, key>>
      PROVE  \A x \in Nodes : CallsOK(x)'
  BY <1>0, <1>4, OtherCalls, Zenon
<1>5. ASSUME NEW n \in Nodes, NEW c \in Calls, NEW m \in Nodes, Setup!HandleParts(n, c, m)
      PROVE  \A x \in Nodes : CallsOK(x)'
  <2>1. /\ pc[n][c] = "setup" /\ UNCHANGED <<pc, mine, topic>>
        /\ mask'[n][c] = mask[n][c] \ {m} /\ key'[n][c] = [key[n][c] EXCEPT ![m] = @ + 1]
        /\ \A d \in Calls \ {c} : mask'[n][d] = mask[n][d] /\ key'[n][d] = key[n][d]
        /\ \A x \in Nodes \ {n} : mask'[x] = mask[x] /\ key'[x] = key[x]
    BY <1>0, <1>5 DEF Setup!HandleParts, Setup!TypeOK
  <2>2. \A d \in Calls : Left(n, d)' <=> Left(n, d)
    BY <2>1, Zenon DEF Left
  <2>3. key[n][c] \in [Nodes -> Nat] /\ mask[n][c] = {x \in Nodes : key[n][c][x] = 0}
    BY <1>0 DEF Setup!TypeOK, CallsOK
  <2>4. mask'[n][c] = {x \in Nodes : key'[n][c][x] = 0}
    BY <2>1, <2>3
  <2>5. \A d \in Calls \ {c} : mask'[n][d] = {x \in Nodes : key'[n][d][x] = 0}
    BY <1>0, <2>1 DEF CallsOK
  <2>6. CallsOK(n)'
    <3>1. UNCHANGED <<pc, mine, topic>>
      BY <2>1, Zenon
    <3>2. \A d \in Calls : mask'[n][d] = {x \in Nodes : key'[n][d][x] = 0}
      BY <2>4, <2>5, Zenon
    <3>3. \A d \in Calls : pc[n][d] \in {"leaving", "done"} => mask'[n][d] = mask[n][d]
      BY <2>1, Zenon
    <3> QED
      BY <1>0, <2>2, <3>1, <3>2, <3>3, Zenon DEF CallsOK
  <2> QED
    BY <1>0, <2>1, <2>6, OtherCalls, Zenon
<1>6. ASSUME NEW n \in Nodes, NEW c \in Calls, Setup!BlsSetupReturns(n, c)
      PROVE  \A x \in Nodes : CallsOK(x)'
  <2>1. /\ pc[n][c] = "setup" /\ pc'[n][c] = "leaving" /\ UNCHANGED <<mine, topic, mask, key>>
        /\ mask[n][c] = {} \/ mine[n][c] # topic[n]
        /\ \A d \in Calls \ {c} : pc'[n][d] = pc[n][d]
        /\ \A x \in Nodes \ {n} : pc'[x] = pc[x]
    BY <1>0, <1>6 DEF Setup!BlsSetupReturns, Setup!TypeOK
  <2>2. \A d \in Calls : Left(n, d) => Left(n, d)'
    BY <2>1, Zenon DEF Left
  <2>3. CallsOK(n)'
    BY <1>0, <2>1, <2>2 DEF CallsOK
  <2> QED
    BY <1>0, <2>1, <2>3, OtherCalls, Zenon
<1>7. ASSUME NEW n \in Nodes, NEW c \in Calls, Setup!LeaveTopic(n, c)
      PROVE  \A x \in Nodes : CallsOK(x)'
  <2>1. /\ pc[n][c] = "leaving" /\ pc'[n][c] = "done" /\ topic'[n] = 0 /\ UNCHANGED <<mine, mask, key>>
        /\ \A d \in Calls \ {c} : pc'[n][d] = pc[n][d]
        /\ \A x \in Nodes \ {n} : pc'[x] = pc[x] /\ topic'[x] = topic[x]
    BY <1>0, <1>7 DEF Setup!LeaveTopic, Setup!TypeOK
  <2>2. mine[n][c] # 0
    BY <1>0, <2>1, Zenon DEF CallsOK
  <2>3. /\ \A d \in Calls : Left(n, d) => Left(n, d)'
        /\ \A d \in Calls \ {c} : Left(n, d)'
    BY <2>1, <2>2, Zenon DEF Left
  <2>4. CallsOK(n)'
    BY <1>0, <2>1, <2>3 DEF CallsOK
  <2> QED
    BY <1>0, <2>1, <2>4, OtherCalls, Zenon
<1>8. ASSUME NEW n \in Nodes, Setup!Restart(n)
      PROVE  \A x \in Nodes : CallsOK(x)'
  <2>1. /\ \A c \in Calls : /\ pc'[n][c] = "idle" /\ mine'[n][c] = 0 /\ mask'[n][c] = Nodes
                            /\ \A m \in Nodes : key'[n][c][m] = 0
        /\ \A x \in Nodes \ {n} : /\ pc'[x] = pc[x] /\ mine'[x] = mine[x] /\ topic'[x] = topic[x]
                                  /\ mask'[x] = mask[x] /\ key'[x] = key[x]
    BY <1>0, <1>8, SMTT(30) DEF Setup!Restart, Setup!TypeOK, Setup!ZeroSignature
  <2>2. CallsOK(n)'
    BY <2>1, Zenon DEF CallsOK
  <2> QED
    BY <1>0, <2>1, <2>2, OtherCalls, Zenon
<1>9. ASSUME NEW n \in Nodes, NEW c \in Calls, Setup!HandlePhase(n, c) \/ \E m \in Setup!Msgs : Setup!DropMessage(n, c, m)
      PROVE  \A x \in Nodes : CallsOK(x)'
  BY <1>4, <1>9, Zenon DEF Setup!HandlePhase, Setup!DropMessage
<1>10. ASSUME NEW n \in Nodes, NEW m \in Setup!Msgs, Setup!LoseMessage(n, m)
       PROVE  \A x \in Nodes : CallsOK(x)'
  BY <1>4, <1>10, Zenon DEF Setup!LoseMessage
<1>11. CASE UNCHANGED Setup!vars
  BY <1>0, <1>4, <1>11, Zenon DEF Setup!vars, EInv
<1>12. CASE Setup!Next
  <2>1. \A x \in Nodes : CallsOK(x)'
    BY <1>12, <1>1, <1>2, <1>3, <1>5, <1>6, <1>7, <1>8, <1>9, <1>10, Zenon
       DEF Setup!Next, Setup!Call, Setup!Environment
  <2> QED
    BY <1>0, <2>1, Zenon DEF EInv
<1> QED
  BY <1>11, <1>12, Zenon

\* Init and every step keep the invariant of the calls.
LEMMA SetupInvariance == ASSUME Setup!Setting PROVE Setup!Spec => []EInv
BY InitEInv, NextEInv, PTL DEF Setup!Spec

\* The calls, topics, queues and keys of the set-up keep their types.
THEOREM SetupTypeCorrect == ASSUME Setup!Setting PROVE Setup!Spec => []Setup!TypeOK
<1>1. EInv => Setup!TypeOK
  BY Zenon DEF EInv
<1> QED
  BY <1>1, SetupInvariance, PTL

\* A call whose key lacks a part had its topic closed by another call that left.
LEMMA ShortKeysAreOverlaps == ASSUME Setup!Setting PROVE Setup!Spec => []Setup!ShortKeyNeedsOverlap
<1>1. ASSUME EInv PROVE Setup!ShortKeyNeedsOverlap
  <2> SUFFICES ASSUME NEW n \in Nodes, NEW c \in Calls, pc[n][c] \in {"leaving", "done"},
                      mine[n][c] # 0, NEW m \in Nodes, key[n][c][m] = 0
               PROVE  Left(n, c)
    BY Zenon DEF Setup!ShortKeyNeedsOverlap, Left
  <2>1. m \in mask[n][c]
    BY <1>1 DEF EInv, CallsOK
  <2> QED
    BY <1>1, <2>1, Zenon DEF EInv, CallsOK
<1> QED
  BY <1>1, SetupInvariance, PTL

\* While node 0 has not been restarted the phase is sent once: nothing is sent before it, a
\* node's parts are not under way while it still has the phase to answer, and every part is
\* in a queue or in a key at most once.
Once ==
  /\ \A c \in Calls : pc[First][c] \in {"idle", "waiting"} =>
       /\ \A n \in Nodes, g \in Setup!Msgs : queue[n][g] = 0
       /\ \A n, m \in Nodes : key[n][c][m] = 0
  /\ \A n \in Nodes : queue[n][Phase] <= 1
  /\ \A n, m \in Nodes, c \in Calls : queue[n][Phase] > 0 => queue[m][n] = 0 /\ key[m][c][n] = 0
  /\ \A n, m \in Nodes, c \in Calls : queue[m][n] + key[m][c][n] <= 1

OneCall == \A c, d \in Calls : c = d

OnceInv == restarts[First] = 0 => Once

\* Types of the queues and keys, for arithmetic.
LEMMA Counts ==
  ASSUME Setup!TypeOK
  PROVE  /\ \A n \in Nodes, g \in Setup!Msgs : queue[n][g] \in Nat
         /\ \A n, m \in Nodes, c \in Calls : key[n][c][m] \in Nat
         /\ Phase \in Setup!Msgs /\ Nodes \subseteq Setup!Msgs
BY DEF Setup!TypeOK, Setup!Msgs

\* A step that only takes messages and parts away keeps Once.
Fewer ==
  /\ \A c \in Calls :
       pc'[First][c] \in {"idle", "waiting"} => pc[First][c] \in {"idle", "waiting"}
  /\ \A n \in Nodes, g \in Setup!Msgs : queue'[n][g] <= queue[n][g]
  /\ \A n, m \in Nodes, c \in Calls : key'[n][c][m] <= key[n][c][m]

\* That is so because each count is bounded above by what it was.
LEMMA FewerKeepOnce ==
  ASSUME Setup!TypeOK, Setup!TypeOK', Once, Fewer
  PROVE  Once'
<1>1. /\ \A n \in Nodes, g \in Setup!Msgs : queue[n][g] \in Nat
      /\ \A n, m \in Nodes, c \in Calls : key[n][c][m] \in Nat
      /\ Phase \in Setup!Msgs /\ Nodes \subseteq Setup!Msgs
  BY Counts, Zenon
<1>2. /\ \A n \in Nodes, g \in Setup!Msgs : queue'[n][g] \in Nat
      /\ \A n, m \in Nodes, c \in Calls : key'[n][c][m] \in Nat
  BY Counts DEF Setup!TypeOK, Setup!Msgs
<1>3. \A c \in Calls : pc'[First][c] \in {"idle", "waiting"} =>
        /\ \A n \in Nodes, g \in Setup!Msgs : queue'[n][g] = 0
        /\ \A n, m \in Nodes : key'[n][c][m] = 0
  <2> SUFFICES ASSUME NEW c \in Calls, pc'[First][c] \in {"idle", "waiting"}
               PROVE  /\ \A n \in Nodes, g \in Setup!Msgs : queue'[n][g] = 0
                      /\ \A n, m \in Nodes : key'[n][c][m] = 0
    BY Zenon
  <2>1. /\ \A n \in Nodes, g \in Setup!Msgs : queue[n][g] = 0
        /\ \A n, m \in Nodes : key[n][c][m] = 0
    BY Zenon DEF Once, Fewer
  <2> QED
    BY <1>2, <2>1 DEF Fewer
<1>4. \A n \in Nodes : queue'[n][Phase] <= 1
  BY <1>1, <1>2 DEF Once, Fewer
<1>5. ASSUME NEW n \in Nodes, NEW m \in Nodes, NEW c \in Calls
      PROVE  /\ queue'[n][Phase] > 0 => queue'[m][n] = 0 /\ key'[m][c][n] = 0
             /\ queue'[m][n] + key'[m][c][n] <= 1
  <2>1. /\ queue[n][Phase] > 0 => queue[m][n] = 0 /\ key[m][c][n] = 0
        /\ queue[m][n] + key[m][c][n] <= 1
    BY Zenon DEF Once
  <2>2. /\ queue'[n][Phase] <= queue[n][Phase] /\ queue'[m][n] <= queue[m][n]
        /\ key'[m][c][n] <= key[m][c][n]
    BY <1>1, Zenon DEF Fewer
  <2>3. /\ queue[n][Phase] \in Nat /\ queue[m][n] \in Nat /\ key[m][c][n] \in Nat
        /\ queue'[n][Phase] \in Nat /\ queue'[m][n] \in Nat /\ key'[m][c][n] \in Nat
    BY <1>1, <1>2, Zenon
  <2>4. queue'[n][Phase] > 0 => queue'[m][n] = 0 /\ key'[m][c][n] = 0
    <3> SUFFICES ASSUME queue'[n][Phase] > 0 PROVE queue'[m][n] = 0 /\ key'[m][c][n] = 0
      BY Zenon
    <3>1. queue[n][Phase] > 0
      BY <2>2, <2>3
    <3> QED
      BY <2>1, <2>2, <2>3, <3>1
  <2>5. queue'[m][n] + key'[m][c][n] <= 1
    BY <2>1, <2>2, <2>3
  <2> QED
    BY <2>4, <2>5, Zenon
<1> QED
  BY <1>3, <1>4, <1>5, Zenon DEF Once

\* Node 0 fires the phase: before it nothing was sent.
LEMMA FireKeepsOnce ==
  ASSUME Setup!Setting, OneCall, Setup!TypeOK, Setup!TypeOK', Once, NEW c \in Calls,
         Setup!AllPeersSeen(First, c)
  PROVE  Once'
<1>1. /\ pc[First][c] = "waiting" /\ pc'[First][c] = "setup" /\ UNCHANGED key
      /\ \A n \in Nodes : \/ queue'[n] = queue[n]
                          \/ queue'[n] = [queue[n] EXCEPT ![Phase] = @ + 1]
  BY Zenon DEF Setup!AllPeersSeen, Setup!AfterPublish, Setup!TypeOK, Setup!Setting
<1>2. /\ \A n \in Nodes, g \in Setup!Msgs : queue[n][g] = 0
      /\ \A n, m \in Nodes, d \in Calls : key'[n][d][m] = 0
  BY <1>1, SMTT(30) DEF Once, OneCall
<1>3. /\ \A n, m \in Nodes : queue'[n][m] = 0
      /\ \A n \in Nodes : queue'[n][Phase] \in {0, 1}
  <2> SUFFICES ASSUME NEW n \in Nodes
               PROVE  queue'[n][Phase] \in {0, 1} /\ \A m \in Nodes : queue'[n][m] = 0
    BY Zenon
  <2>1. /\ Phase \in Setup!Msgs /\ Nodes \subseteq Setup!Msgs /\ Phase \notin Nodes
        /\ queue[n] \in [Setup!Msgs -> Nat]
    BY Counts, Zenon DEF Setup!Setting, Setup!TypeOK
  <2>2. queue[n][Phase] = 0 /\ \A m \in Nodes : queue[n][m] = 0
    BY <1>2, <2>1, Zenon
  <2>3. CASE queue'[n] = queue[n]
    BY <2>2, <2>3, Zenon
  <2>4. CASE queue'[n] = [queue[n] EXCEPT ![Phase] = @ + 1]
    BY <2>1, <2>2, <2>4
  <2> QED
    BY <1>1, <2>3, <2>4, Zenon
<1>4. \A d \in Calls : pc'[First][d] = "setup"
  BY <1>1, Zenon DEF OneCall
<1> QED
  BY <1>2, <1>3, <1>4 DEF Once

\* A node answers the phase: its parts were nowhere yet, and it has no other phase to answer.
LEMMA AnswerKeepsOnce ==
  ASSUME Setup!Setting, OneCall, Setup!TypeOK, Setup!TypeOK', Once, NEW n \in Nodes, NEW c \in Calls,
         Setup!HandlePhase(n, c)
  PROVE  Once'
<1>1. /\ queue[n][Phase] > 0 /\ UNCHANGED <<pc, key>>
      /\ \A x \in Nodes : \/ queue'[x] = Setup!Taken(n, Phase)[x]
                          \/ queue'[x] = [Setup!Taken(n, Phase)[x] EXCEPT ![n] = @ + 1]
  BY Zenon DEF Setup!HandlePhase, Setup!AfterPublish
<1>2. /\ Phase \in Setup!Msgs /\ Nodes \subseteq Setup!Msgs /\ Phase \notin Nodes
      /\ \A x \in Nodes : queue[x] \in [Setup!Msgs -> Nat]
      /\ \A x, y \in Nodes, d \in Calls : key[x][d][y] \in Nat
  BY Counts, Zenon DEF Setup!Setting, Setup!TypeOK
<1>3. /\ queue[n][Phase] = 1 /\ First \in Nodes
      /\ \A x \in Nodes, d \in Calls : queue[x][n] = 0 /\ key[x][d][n] = 0
  BY <1>1, <1>2 DEF Once, Setup!Setting
<1>4. \A d \in Calls : pc[First][d] \notin {"idle", "waiting"}
  BY <1>1, <1>2 DEF Once
<1>5. /\ Setup!Taken(n, Phase)[n] = [queue[n] EXCEPT ![Phase] = @ - 1]
      /\ \A x \in Nodes \ {n} : Setup!Taken(n, Phase)[x] = queue[x]
  BY Zenon DEF Setup!Taken, Setup!TypeOK
<1>6. \A x \in Nodes : /\ queue'[x][n] \in {0, 1}
                       /\ \A m \in Nodes \ {n} : queue'[x][m] = queue[x][m]
                       /\ queue'[x][Phase] = IF x = n THEN 0 ELSE queue[x][Phase]
  <2> SUFFICES ASSUME NEW x \in Nodes
               PROVE  /\ queue'[x][n] \in {0, 1}
                      /\ \A m \in Nodes \ {n} : queue'[x][m] = queue[x][m]
                      /\ queue'[x][Phase] = IF x = n THEN 0 ELSE queue[x][Phase]
    BY Zenon
  <2> DEFINE f == Setup!Taken(n, Phase)[x]
  <2>1. queue[x] \in [Setup!Msgs -> Nat] /\ queue[x][n] = 0 /\ n \in Setup!Msgs /\ n # Phase
    BY <1>2, <1>3, Zenon
  <2>2. /\ f \in [Setup!Msgs -> Int] /\ f[n] = 0
        /\ \A m \in Nodes \ {n} : f[m] = queue[x][m]
        /\ f[Phase] = IF x = n THEN 0 ELSE queue[x][Phase]
    <3>1. CASE x = n
      BY <1>2, <1>3, <1>5, <2>1, <3>1
    <3>2. CASE x # n
      BY <1>5, <2>1, <3>2
    <3> QED
      BY <3>1, <3>2, Zenon
  <2>3. queue'[x] = f \/ queue'[x] = [f EXCEPT ![n] = @ + 1]
    BY <1>1, Zenon
  <2> HIDE DEF f
  <2>4. CASE queue'[x] = f
    BY <2>2, <2>4, Zenon
  <2>5. CASE queue'[x] = [f EXCEPT ![n] = @ + 1]
    BY <1>2, <2>1, <2>2, <2>5
  <2> QED
    BY <2>3, <2>4, <2>5, Zenon
<1>7. \A x \in Nodes : queue'[x][Phase] <= 1
  BY <1>6 DEF Once
<1>8. ASSUME NEW x \in Nodes, NEW m \in Nodes, NEW d \in Calls
      PROVE  /\ queue'[x][Phase] > 0 => queue'[m][x] = 0 /\ key[m][d][x] = 0
             /\ queue'[m][x] + key[m][d][x] <= 1
  <2>1. CASE x = n
    BY <1>3, <1>6, <2>1
  <2>2. CASE x # n
    BY <1>6, <2>2, SMTT(30) DEF Once
  <2> QED
    BY <2>1, <2>2, Zenon
<1> QED
  BY <1>1, <1>4, <1>7, <1>8, SMTT(30) DEF Once

\* A part goes from the queue into the key.
LEMMA AddKeepsOnce ==
  ASSUME Setup!Setting, OneCall, Setup!TypeOK, Setup!TypeOK', Once, NEW n \in Nodes, NEW c \in Calls,
         NEW m \in Nodes, Setup!HandleParts(n, c, m)
  PROVE  Once'
<1>1. /\ queue[n][m] > 0 /\ UNCHANGED pc
      /\ queue'[n] = [queue[n] EXCEPT ![m] = @ - 1] /\ key'[n][c] = [key[n][c] EXCEPT ![m] = @ + 1]
      /\ \A x \in Nodes \ {n} : queue'[x] = queue[x] /\ key'[x] = key[x]
  BY DEF Setup!HandleParts, Setup!Taken, Setup!TypeOK
<1>2. /\ Phase \in Setup!Msgs /\ Nodes \subseteq Setup!Msgs /\ Phase \notin Nodes
      /\ \A x \in Nodes : queue[x] \in [Setup!Msgs -> Nat]
      /\ \A x \in Nodes, d \in Calls : key[x][d] \in [Nodes -> Nat]
  <2>1. Phase \in Setup!Msgs /\ Nodes \subseteq Setup!Msgs /\ Phase \notin Nodes
    BY Counts, Zenon DEF Setup!Setting
  <2>2. \A x \in Nodes : queue[x] \in [Setup!Msgs -> Nat]
    BY Zenon DEF Setup!TypeOK
  <2>3. \A x \in Nodes : key[x] \in [Calls -> [Nodes -> Nat]]
    BY Zenon DEF Setup!TypeOK
  <2> QED
    BY <2>1, <2>2, <2>3, Zenon
<1>3. \A d \in Calls : d = c
  BY Zenon DEF OneCall
<1>4. \A d \in Calls : pc[First][d] \notin {"idle", "waiting"}
  BY <1>1, <1>2 DEF Once
<1>5. ASSUME NEW x \in Nodes
      PROVE  /\ queue'[x][Phase] = queue[x][Phase]
             /\ \A y \in Nodes : x # n \/ y # m => queue'[x][y] = queue[x][y] /\ key'[x][c][y] = key[x][c][y]
  BY <1>1, <1>2
<1>6. /\ queue'[n][m] = queue[n][m] - 1 /\ key'[n][c][m] = key[n][c][m] + 1
      /\ queue[n][m] \in Nat /\ key[n][c][m] \in Nat
  BY <1>1, <1>2, SMTT(30)
<1>7. queue[m][Phase] \in Nat /\ ~(queue[m][Phase] > 0)
  BY <1>1, <1>2, <1>6, SMTT(30) DEF Once
<1>8. ASSUME NEW x \in Nodes, NEW y \in Nodes
      PROVE  /\ queue'[x][Phase] > 0 => queue'[y][x] = 0 /\ key'[y][c][x] = 0
             /\ queue'[y][x] + key'[y][c][x] <= 1
  <2>1. /\ queue[x][Phase] > 0 => queue[y][x] = 0 /\ key[y][c][x] = 0
        /\ queue[y][x] + key[y][c][x] <= 1
    BY Zenon DEF Once
  <2>2. CASE y = n /\ x = m
    BY <1>5, <1>6, <1>7, <2>1, <2>2, SMTT(30)
  <2>3. CASE y # n \/ x # m
    BY <1>5, <2>1, <2>3, Zenon
  <2> QED
    BY <2>2, <2>3, Zenon
<1>9. \A x \in Nodes : queue'[x][Phase] <= 1
  BY <1>5, Zenon DEF Once
<1> QED
  BY <1>1, <1>3, <1>4, <1>8, <1>9 DEF Once

\* With one call in each process every step keeps Once, unless it restarts node 0.
LEMMA NextOnce ==
  ASSUME Setup!Setting, OneCall, Setup!TypeOK, Setup!TypeOK', Once, [Setup!Next]_(Setup!vars),
         restarts'[First] = 0
  PROVE  Once'
<1>0. First \in Nodes
  BY Zenon DEF Setup!Setting
<1>1. /\ \A n \in Nodes, g \in Setup!Msgs : queue[n][g] \in Nat
      /\ \A n, m \in Nodes, c \in Calls : key[n][c][m] \in Nat
      /\ Phase \in Setup!Msgs /\ Nodes \subseteq Setup!Msgs
  BY Counts, Zenon
<1>2. ASSUME NEW n \in Nodes, NEW g \in Setup!Msgs, queue' = Setup!Taken(n, g), UNCHANGED <<pc, key>>
      PROVE  Fewer
  <2>1. \A x \in Nodes, h \in Setup!Msgs : queue'[x][h] <= queue[x][h]
    BY <1>1, <1>2 DEF Setup!Taken, Setup!TypeOK
  <2> QED
    BY <1>1, <1>2, <2>1 DEF Fewer
<1>3. ASSUME NEW n \in Nodes, NEW c \in Calls,
             \/ Setup!StartEpoch(n, c) \/ Setup!StartEpochFails(n, c)
             \/ Setup!BlsSetupReturns(n, c)
      PROVE  Once'
  <2>1. /\ UNCHANGED <<queue, key>>
        /\ pc'[First][c] \in {"idle", "waiting"} => pc[First][c] \in {"idle", "waiting"}
    <3>1. /\ UNCHANGED <<queue, key>>
          /\ \/ pc[n][c] = "idle" /\ pc' = [pc EXCEPT ![n][c] = "waiting"]
             \/ pc[n][c] = "idle" /\ pc' = [pc EXCEPT ![n][c] = "done"]
             \/ pc' = [pc EXCEPT ![n][c] = "leaving"]
      BY <1>3, Zenon DEF Setup!StartEpoch, Setup!StartEpochFails, Setup!BlsSetupReturns
    <3>2. pc \in [Nodes -> [Calls -> {"idle", "waiting", "setup", "leaving", "done"}]]
      BY Zenon DEF Setup!TypeOK
    <3> QED
      BY <1>0, <3>1, <3>2, Zenon
  <2>2. Fewer
    BY <1>1, <2>1 DEF OneCall, Fewer
  <2> QED
    BY <2>2, FewerKeepOnce, Zenon
<1>4. ASSUME NEW n \in Nodes, NEW c \in Calls, Setup!AllPeersSeen(n, c)
      PROVE  Once'
  <2>1. CASE n = First
    BY <1>4, <2>1, FireKeepsOnce, Zenon
  <2>2. CASE n # First
    <3>1. UNCHANGED <<queue, key>> /\ pc'[First] = pc[First]
      BY <1>0, <1>4, <2>2, Zenon DEF Setup!AllPeersSeen, Setup!TypeOK
    <3>2. Fewer
      BY <1>1, <3>1 DEF Fewer
    <3> QED
      BY <3>2, FewerKeepOnce
  <2> QED
    BY <2>1, <2>2, Zenon
<1>5. ASSUME NEW n \in Nodes, NEW c \in Calls, Setup!HandlePhase(n, c)
      PROVE  Once'
  BY <1>5, AnswerKeepsOnce, Zenon
<1>6. ASSUME NEW n \in Nodes, NEW c \in Calls, NEW m \in Nodes, Setup!HandleParts(n, c, m)
      PROVE  Once'
  BY <1>6, AddKeepsOnce, Zenon
<1>7. ASSUME NEW n \in Nodes, NEW c \in Calls, Setup!LeaveTopic(n, c)
      PROVE  Once'
  <2>1. /\ UNCHANGED key
        /\ pc'[First][c] \in {"idle", "waiting"} => pc[First][c] \in {"idle", "waiting"}
        /\ \A x \in Nodes, g \in Setup!Msgs : queue'[x][g] = IF x = n THEN 0 ELSE queue[x][g]
    BY <1>0, <1>7 DEF Setup!LeaveTopic, Setup!TypeOK, Setup!Empty
  <2>2. Fewer
    BY <1>1, <2>1 DEF OneCall, Fewer
  <2> QED
    BY <2>2, FewerKeepOnce
<1>8. ASSUME NEW n \in Nodes, NEW g \in Setup!Msgs,
             Setup!LoseMessage(n, g) \/ \E c \in Calls : Setup!DropMessage(n, c, g)
      PROVE  Once'
  BY <1>2, <1>8, FewerKeepOnce, Zenon DEF Setup!LoseMessage, Setup!DropMessage
<1>9. ASSUME NEW n \in Nodes, Setup!Restart(n)
      PROVE  Once'
  <2>1. n # First
    BY <1>0, <1>9, SMTT(30) DEF Setup!Restart, Setup!TypeOK
  <2>2. /\ pc'[First] = pc[First]
        /\ \A x \in Nodes, g \in Setup!Msgs : queue'[x][g] = IF x = n THEN 0 ELSE queue[x][g]
        /\ \A x, m \in Nodes, c \in Calls : key'[x][c][m] = IF x = n THEN 0 ELSE key[x][c][m]
    BY <1>0, <1>9, <2>1, SMTT(30) DEF Setup!Restart, Setup!TypeOK, Setup!Empty, Setup!ZeroSignature
  <2>3. Fewer
    BY <1>1, <2>2, SMTT(30) DEF Fewer
  <2> QED
    BY <2>3, FewerKeepOnce, Zenon
<1>10. CASE UNCHANGED Setup!vars
  BY <1>10, Zenon DEF Setup!vars, Once
<1> QED
  BY <1>3, <1>4, <1>5, <1>6, <1>7, <1>8, <1>9, <1>10, Zenon DEF Setup!Next, Setup!Call, Setup!Environment

\* With one call in each process the subscription of a call stays until it leaves, so it
\* installs its key only when the mask is empty: every part is there, and by Once none twice.
LEMMA NextExact ==
  ASSUME OneCall, EInv, Setup!TypeOK, Setup!TypeOK', Once, Setup!MembershipKeyExact,
         [Setup!Next]_(Setup!vars)
  PROVE  Setup!MembershipKeyExact'
<1>1. /\ \A n \in Nodes, g \in Setup!Msgs : queue[n][g] \in Nat
      /\ \A n, m \in Nodes, c \in Calls : key[n][c][m] \in Nat
      /\ Phase \in Setup!Msgs /\ Nodes \subseteq Setup!Msgs
  BY Counts, Zenon
<1>2. ASSUME NEW n \in Nodes, NEW c \in Calls, Setup!BlsSetupReturns(n, c)
      PROVE  Setup!MembershipKeyExact'
  <2>1. ~Left(n, c) /\ pc[n][c] = "setup" /\ (mask[n][c] = {} \/ mine[n][c] # topic[n])
    BY <1>2, Zenon DEF OneCall, Left, Setup!BlsSetupReturns
  <2>2. mask[n][c] = {} /\ mask[n][c] = {m \in Nodes : key[n][c][m] = 0}
    BY <2>1, Zenon DEF EInv, CallsOK
  <2>3. \A m \in Nodes : key[n][c][m] = 1
    <3> SUFFICES ASSUME NEW m \in Nodes PROVE key[n][c][m] = 1
      BY Zenon
    <3>1. queue[n][m] + key[n][c][m] <= 1
      BY Zenon DEF Once
    <3>2. key[n][c][m] # 0
      BY <2>2, Zenon
    <3>3. queue[n][m] \in Nat /\ key[n][c][m] \in Nat
      BY <1>1, Zenon
    <3> QED
      BY <3>1, <3>2, <3>3
  <2>4. key[n][c] = [m \in Nodes |-> 1]
    BY <2>3 DEF Setup!TypeOK
  <2>5. memberKey'[n] = key[n][c] /\ \A x \in Nodes \ {n} : memberKey'[x] = memberKey[x]
    BY <1>2 DEF Setup!BlsSetupReturns, Setup!TypeOK
  <2> QED
    BY <2>4, <2>5, Zenon DEF Setup!MembershipKeyExact
<1>3. ASSUME NEW n \in Nodes, Setup!Restart(n)
      PROVE  Setup!MembershipKeyExact'
  <2>1. memberKey'[n] = None /\ \A x \in Nodes \ {n} : memberKey'[x] = memberKey[x]
    BY <1>3 DEF Setup!Restart, Setup!TypeOK
  <2> QED
    BY <2>1, Zenon DEF Setup!MembershipKeyExact
<1>4. CASE UNCHANGED memberKey
  BY <1>4, Zenon DEF Setup!MembershipKeyExact
<1> QED
  BY <1>2, <1>3, <1>4 DEF Setup!Next, Setup!vars, Setup!Call, Setup!Environment, Setup!StartEpoch,
    Setup!AllPeersSeen, Setup!HandlePhase, Setup!HandleParts, Setup!LeaveTopic,
    Setup!StartEpochFails, Setup!DropMessage, Setup!LoseMessage

ExactInv == restarts[First] = 0 => Setup!MembershipKeyExact

SInv == EInv /\ OnceInv /\ ExactInv

\* No step undoes a restart of node 0, so both hold as long as it was not restarted.
LEMMA NextSInv ==
  ASSUME Setup!Setting, OneCall, SInv, [Setup!Next]_(Setup!vars)
  PROVE  SInv'
<1>1. EInv' /\ EInv /\ Setup!TypeOK /\ Setup!TypeOK'
  BY NextEInv, Zenon DEF SInv, EInv
<1>2. restarts'[First] = 0 => restarts[First] = 0
  <2>1. restarts' = restarts \/ \E n \in Nodes : restarts' = [restarts EXCEPT ![n] = @ + 1]
    <3>1. \A n \in Nodes, c \in Calls : Setup!Call(n, c) => restarts' = restarts
      BY DEF Setup!Call, Setup!StartEpoch, Setup!AllPeersSeen, Setup!HandlePhase, Setup!HandleParts,
        Setup!BlsSetupReturns, Setup!LeaveTopic
    <3>2. \A n \in Nodes : Setup!Environment(n) =>
             restarts' = restarts \/ restarts' = [restarts EXCEPT ![n] = @ + 1]
      BY Zenon DEF Setup!Environment, Setup!StartEpochFails, Setup!DropMessage, Setup!LoseMessage, Setup!Restart
    <3>3. UNCHANGED Setup!vars => restarts' = restarts
      BY Zenon DEF Setup!vars
    <3> QED
      BY <3>1, <3>2, <3>3, Zenon DEF Setup!Next
  <2>2. restarts \in [Nodes -> Nat] /\ First \in Nodes
    BY <1>1 DEF Setup!TypeOK, Setup!Setting
  <2>3. ASSUME NEW n \in Nodes, restarts' = [restarts EXCEPT ![n] = @ + 1]
        PROVE  restarts'[First] = 0 => restarts[First] = 0
    BY <2>2, <2>3
  <2> QED
    BY <2>1, <2>3, ZenonT(30)
<1>3. CASE restarts'[First] # 0
  BY <1>1, <1>3, Zenon DEF SInv, OnceInv, ExactInv
<1>4. CASE restarts'[First] = 0
  <2>1. Once /\ Setup!MembershipKeyExact
    BY <1>2, <1>4, Zenon DEF SInv, OnceInv, ExactInv
  <2>2. Once'
    BY <1>1, <1>4, <2>1, NextOnce, Zenon
  <2>3. Setup!MembershipKeyExact'
    BY <1>1, <2>1, NextExact, Zenon
  <2> QED
    BY <1>1, <2>2, <2>3, Zenon DEF SInv, OnceInv, ExactInv
<1> QED
  BY <1>3, <1>4, Zenon

\* So with one call in each process only a restart of node 0 makes an inexact key.
LEMMA ExactInvariance == ASSUME Setup!Setting, OneCall PROVE Setup!Spec => []ExactInv
<1>1. Setup!Init => SInv
  <2> SUFFICES ASSUME Setup!Init PROVE SInv
    BY Zenon
  <2>1. EInv
    BY InitEInv, Zenon
  <2>2. /\ \A n \in Nodes, g \in Setup!Msgs : queue[n][g] = 0
        /\ \A n, m \in Nodes, c \in Calls : key[n][c][m] = 0
        /\ \A n \in Nodes : memberKey[n] = None
        /\ Phase \in Setup!Msgs /\ Nodes \subseteq Setup!Msgs
    BY Zenon DEF Setup!Init, Setup!Empty, Setup!ZeroSignature, Setup!Msgs
  <2>3. Once
    BY <2>2 DEF Once
  <2> QED
    BY <2>1, <2>2, <2>3, Zenon DEF SInv, OnceInv, ExactInv, Setup!MembershipKeyExact
<1>2. SInv => ExactInv
  BY Zenon DEF SInv
<1> QED
  BY <1>1, <1>2, NextSInv, PTL DEF Setup!Spec

\* With any number of nodes and of calls of StartEpoch in a process, and whatever is lost,
\* fails or is restarted: BlsSetup (node.go:536) leaves out the part of a node only when
\* another call of the process has left the topic under it; with one call in a process a
\* node installs the sum of exactly one part of every node unless node 0 was restarted.
THEOREM InexactKeysAreOverlaps ==
  ASSUME Setup!Setting PROVE Setup!Spec => []Setup!InexactNeedsOverlap
<1>1. CASE OneCall
  <2>1. ExactInv /\ Setup!ShortKeyNeedsOverlap => Setup!InexactNeedsOverlap
    BY Zenon DEF ExactInv, Setup!InexactNeedsOverlap
  <2> QED
    BY <1>1, <2>1, ExactInvariance, ShortKeysAreOverlaps, PTL
<1>2. CASE ~OneCall
  <2>1. Setup!ShortKeyNeedsOverlap => Setup!InexactNeedsOverlap
    BY <1>2, Zenon DEF OneCall, Setup!InexactNeedsOverlap
  <2> QED
    BY <2>1, ShortKeysAreOverlaps, PTL
<1> QED
  BY <1>1, <1>2, Zenon
=============================================================================
