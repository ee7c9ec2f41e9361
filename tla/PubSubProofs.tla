---------------------------- MODULE PubSubProofs ----------------------------
(***************************************************************************)
(* Proofs about PubSub for any number of handlers and any names.  The      *)
(* inductive invariant is the conjunction of four invariants of PubSub:    *)
(* MapsTrackLibrary is what makes DisturbedByNamesake inductive, since a   *)
(* handler finds its name gone from the map only if its object was closed. *)
(* History adds what ForeignMessages needs: a name's newest object is in   *)
(* the map, each older one was made by a handler and closed by another.    *)
(***************************************************************************)
EXTENDS PubSub, TLAPS

Inv == TypeOK /\ MapsTrackLibrary /\ MainTopicStays /\ DisturbedByNamesake

\* The main topic and the topics of the handlers are names.
LEMMA NamesFacts ==
  /\ Main \in Names
  /\ \A h \in Handlers : NameOf[h] \in Names /\ NameOf[h] # Main
BY NamesAreNotMain, Zenon DEF Names

\* What is in open is in the map.
LEMMA OpenIsJoined ==
  ASSUME MapsTrackLibrary, NEW n \in Names, NEW k
  PROVE  /\ <<n, k>> \in open <=> topics[n] # 0 /\ topics[n] = k
         /\ <<n, k>> \in live <=> subscriptions[n] # 0 /\ subscriptions[n] = k
BY Zenon DEF MapsTrackLibrary

\* NewPubSubWithTopic establishes the invariant.
LEMMA InitInv == Init => Inv
<1> SUFFICES ASSUME Init PROVE Inv
  BY Zenon
<1>1. /\ made \in [Names -> Nat]
      /\ \A n \in Names : made[n] = IF n = Main THEN 1 ELSE 0
  BY Zenon DEF Init
<1>2. TypeOK
  <2>1. topics = made /\ subscriptions = made
    BY Zenon DEF Init
  <2>2. \A n \in Names : topics[n] <= made[n]
    BY <1>1, <2>1
  <2>3. open \subseteq Names \X Nat /\ live \subseteq Names \X Nat
    BY NamesFacts DEF Init
  <2>4. /\ pc \in [Handlers -> States] /\ topic \in [Handlers -> Nat]
        /\ waitsOn \in [Handlers -> Nat] /\ disconnected \in BOOLEAN
    BY Zenon DEF Init, States
  <2> QED BY <1>1, <2>1, <2>2, <2>3, <2>4 DEF TypeOK
<1>3. MapsTrackLibrary
  <2>1. {x \in Names : made[x] # 0} = {Main}
    BY <1>1, NamesFacts
  <2>2. {<<n, made[n]>> : n \in {Main}} = {<<Main, 1>>}
    BY <1>1, NamesFacts, Zenon
  <2> QED BY <2>1, <2>2, Zenon DEF Init, MapsTrackLibrary
<1>4. MainTopicStays
  BY <1>1, NamesFacts DEF Init, MainTopicStays
<1>5. DisturbedByNamesake
  BY Zenon DEF Init, DisturbedByNamesake, Runs
<1> QED BY <1>2, <1>3, <1>4, <1>5 DEF Inv

\* The steps that leave the maps and the library alone.
LEMMA MapsUnchanged ==
  ASSUME MapsTrackLibrary, UNCHANGED <<topics, subscriptions, open, live>>
  PROVE  MapsTrackLibrary'
BY Zenon DEF MapsTrackLibrary

\* Closing topics, as LeaveTopic and Disconnect do, keeps maps and library together.
LEMMA CloseTracks ==
  ASSUME TypeOK, MapsTrackLibrary, NEW names \in SUBSET Names, CloseTopics(names)
  PROVE  /\ MapsTrackLibrary'
         /\ topics' \in [Names -> Nat] /\ subscriptions' \in [Names -> Nat]
         /\ \A n \in Names : topics'[n] <= topics[n]
         /\ open' \subseteq open /\ live' \subseteq live
         /\ \A n \in Names : n \notin names => topics'[n] = topics[n] /\ subscriptions'[n] = subscriptions[n]
         /\ \A n \in Names, k \in Nat : n \notin names => (<<n, k>> \in open' <=> <<n, k>> \in open)
<1>1. /\ topics' \in [Names -> Nat] /\ subscriptions' \in [Names -> Nat]
      /\ \A n \in Names : topics'[n] = IF n \in names THEN 0 ELSE topics[n]
      /\ \A n \in Names : subscriptions'[n] = IF n \in names THEN 0 ELSE subscriptions[n]
  BY Zenon DEF CloseTopics, TypeOK
<1>2. open' = {<<n, topics'[n]>> : n \in {x \in Names : topics'[x] # 0}}
  BY <1>1 DEF CloseTopics, MapsTrackLibrary
<1>3. live' = {<<n, subscriptions'[n]>> : n \in {x \in Names : subscriptions'[x] # 0}}
  BY <1>1 DEF CloseTopics, MapsTrackLibrary
<1>4. \A n \in Names : subscriptions'[n] # 0 => subscriptions'[n] = topics'[n]
  BY <1>1, Zenon DEF MapsTrackLibrary
<1>5. MapsTrackLibrary'
  BY <1>2, <1>3, <1>4, Zenon DEF MapsTrackLibrary, Names
<1>6. \A n \in Names : topics'[n] <= topics[n]
  BY <1>1 DEF TypeOK
<1>7. open' \subseteq open /\ live' \subseteq live
  BY Zenon DEF CloseTopics
<1>8. \A n \in Names, k \in Nat : n \notin names => (<<n, k>> \in open' <=> <<n, k>> \in open)
  BY Zenon DEF CloseTopics
<1> QED BY <1>1, <1>5, <1>6, <1>7, <1>8

-----------------------------------------------------------------------------
\* DisturbedByNamesake for one handler, and why a step keeps it: who has left
\* stays so, and a handler that is newly disturbed has a reason.
Disturbed(h) ==
  \/ Runs(h) /\ <<NameOf[h], topic[h]>> \notin open
  \/ h \in refused
  \/ h \in notJoined

Excused(h) == disconnected \/ \E g \in Namesakes(h) : Left(g)

\* DisturbedByNamesake, handler by handler.
LEMMA DisturbedForAll == DisturbedByNamesake <=> \A h \in Handlers : Disturbed(h) => Excused(h)
BY Zenon DEF DisturbedByNamesake, Disturbed, Excused

\* A handler whose own state and subscription stay keeps its excuse.
LEMMA DisturbedKept ==
  ASSUME DisturbedByNamesake,
         disconnected => disconnected',
         \A g \in Handlers : Left(g) => Left(g)',
         \A h \in Handlers : Disturbed(h)' => Disturbed(h) \/ Excused(h) \/ Excused(h)'
  PROVE  DisturbedByNamesake'
<1> SUFFICES ASSUME NEW h \in Handlers, Disturbed(h)' PROVE Excused(h)'
  BY Zenon DEF DisturbedByNamesake, Disturbed, Excused, Names
<1>1. Excused(h) \/ Excused(h)'
  BY DisturbedForAll, Zenon
<1>2. Excused(h) => Excused(h)'
  BY Zenon DEF Excused, Namesakes
<1> QED BY <1>1, <1>2

\* JoinTopic keeps the invariant.
LEMMA JoinInv == ASSUME Inv, NEW h \in Handlers, JoinTopic(h) PROVE Inv'
<1> DEFINE n == NameOf[h]
           k == IF topics[n] # 0 THEN topics[n] ELSE made[n] + 1
<1>0. TypeOK /\ MapsTrackLibrary /\ n \in Names /\ n # Main
  BY NamesFacts, Zenon DEF Inv
<1>1. topics[n] # 0 \/ CanJoin(n)
  BY <1>0, OpenIsJoined, Zenon DEF CanJoin
<1>2. /\ made' = [made EXCEPT ![n] = IF @ < k THEN k ELSE @]
      /\ topics' = [topics EXCEPT ![n] = k]
      /\ open' = IF topics[n] = 0 THEN open \cup {<<n, k>>} ELSE open
      /\ topic' = [topic EXCEPT ![h] = k]
      /\ pc' = [pc EXCEPT ![h] = "joined"]
      /\ UNCHANGED notJoined
  BY <1>1, Zenon DEF JoinTopic, Goto
<1>3. /\ UNCHANGED <<subscriptions, live, refused, waitsOn, disconnected>>
      /\ pc[h] = "idle"
  BY Zenon DEF JoinTopic, sending
<1>4. k \in Nat /\ k # 0 /\ (topics[n] # 0 => k = topics[n]) /\ made[n] \in Nat /\ topics[n] \in Nat
  BY <1>0 DEF TypeOK
<1> HIDE DEF k
<1>5. /\ topics' \in [Names -> Nat] /\ made' \in [Names -> Nat]
      /\ topics'[n] = k /\ \A m \in Names : m # n => topics'[m] = topics[m] /\ made'[m] = made[m]
      /\ made'[n] >= k
  BY <1>0, <1>2, <1>4 DEF TypeOK
<1> HIDE DEF n
<1>6. TypeOK'
  <2>1. \A m \in Names : topics'[m] <= made'[m]
    BY <1>0, <1>4, <1>5, Zenon DEF TypeOK
  <2>2. open' \subseteq Names \X Nat
    BY <1>0, <1>2, <1>4 DEF TypeOK
  <2>3. pc' \in [Handlers -> States] /\ topic' \in [Handlers -> Nat]
    BY <1>0, <1>2, <1>4, Zenon DEF TypeOK, States
  <2> QED BY <1>0, <1>3, <1>5, <2>1, <2>2, <2>3 DEF TypeOK, Names
<1>7. MapsTrackLibrary'
  <2>1. open' = {<<m, topics'[m]>> : m \in {x \in Names : topics'[x] # 0}}
    <3>1. CASE topics[n] # 0
      <4>1. topics' = topics /\ open' = open
        BY <3>1, <1>0, <1>2, <1>4, Zenon DEF TypeOK
      <4> QED BY <4>1, <1>0 DEF MapsTrackLibrary
    <3>2. CASE topics[n] = 0
      <4>1. open' = open \cup {<<n, k>>}
        BY <3>2, <1>2, Zenon
      <4>2. {x \in Names : topics'[x] # 0} = {x \in Names : topics[x] # 0} \cup {n}
        BY <3>2, <1>0, <1>4, <1>5, Zenon
      <4>3. \A m \in {x \in Names : topics[x] # 0} : topics'[m] = topics[m]
        BY <3>2, <1>5, Zenon
      <4> QED BY <4>1, <4>2, <4>3, <1>0, <1>5 DEF MapsTrackLibrary
    <3> QED BY <3>1, <3>2
  <2>2. \A m \in Names : subscriptions'[m] # 0 => subscriptions'[m] = topics'[m]
    BY <1>0, <1>3, <1>4, <1>5, Zenon DEF MapsTrackLibrary
  <2> QED BY <2>1, <2>2, <1>0, <1>3 DEF MapsTrackLibrary, Names
<1>8. MainTopicStays'
  <2>1. topics'[Main] = topics[Main] /\ open \subseteq open'
    BY <1>0, <1>2, <1>5, NamesFacts, Zenon
  <2> QED BY <2>1, <1>3 DEF Inv, MainTopicStays
<1>9. DisturbedByNamesake'
  <2>1. \A g \in Handlers : Left(g) => Left(g)'
    BY <1>0, <1>2, <1>3, Zenon DEF Left, TypeOK
  <2>2. ASSUME NEW g \in Handlers, Disturbed(g)' PROVE Disturbed(g)
    <3>1. CASE g = h
      <4>1. <<NameOf[h], topic'[h]>> \in open'
        BY <1>0, <1>2, <1>4, <1>5, <1>6, <1>7, OpenIsJoined, Zenon DEF TypeOK, n
      <4> QED BY <2>2, <3>1, <4>1, <1>2, <1>3 DEF Disturbed
    <3>2. CASE g # h
      <4>1. pc'[g] = pc[g] /\ topic'[g] = topic[g] /\ open \subseteq open'
        BY <3>2, <1>0, <1>2, Zenon DEF TypeOK
      <4> QED BY <2>2, <4>1, <1>2, <1>3 DEF Disturbed, Runs
    <3> QED BY <3>1, <3>2
  <2> QED BY <2>1, <2>2, <1>3, DisturbedKept DEF Inv
<1> QED BY <1>6, <1>7, <1>8, <1>9 DEF Inv

\* Subscribe keeps the invariant.
LEMMA SubscribeInv == ASSUME Inv, NEW h \in Handlers, Subscribe(h) PROVE Inv'
<1> DEFINE n == NameOf[h]
<1>0. TypeOK /\ MapsTrackLibrary /\ n \in Names /\ n # Main /\ pc[h] = "joined"
  BY NamesFacts, Zenon DEF Inv, Subscribe
<1>1. UNCHANGED <<made, topics, open, refused, topic, waitsOn, disconnected>>
  BY Zenon DEF Subscribe, sending
<1>2. CASE topics[n] = 0
  <2>1. /\ notJoined' = notJoined \cup {h} /\ pc' = [pc EXCEPT ![h] = "leaving"]
        /\ UNCHANGED <<subscriptions, live>>
    BY <1>2, Zenon DEF Subscribe, Goto
  <2>2. TypeOK'
    BY <1>0, <1>1, <2>1, Zenon DEF TypeOK, States, Names
  <2>3. Disturbed(h)
    BY <1>0, <1>2, OpenIsJoined, Zenon DEF Disturbed, Runs
  <2>4. \A g \in Handlers : (Left(g) => Left(g)') /\ (Disturbed(g)' => Disturbed(g))
    BY <1>0, <1>1, <2>1, <2>3, Zenon DEF Left, TypeOK, Disturbed, Runs
  <2>5. DisturbedByNamesake'
    BY <1>1, <2>4, DisturbedKept, Zenon DEF Inv
  <2>6. MainTopicStays'
    BY <1>1, <2>1, Zenon DEF Inv, MainTopicStays
  <2> QED BY <1>0, <1>1, <2>1, <2>2, <2>5, <2>6, MapsUnchanged DEF Inv
<1>3. CASE topics[n] # 0
  <2>1. /\ subscriptions' = [subscriptions EXCEPT ![n] = IF @ = 0 THEN topics[n] ELSE @]
        /\ live' = IF subscriptions[n] = 0 THEN live \cup {<<n, topics[n]>>} ELSE live
        /\ pc' = [pc EXCEPT ![h] = "running"] /\ UNCHANGED notJoined
    BY <1>3, Zenon DEF Subscribe, Goto
  <2>2. topics[n] \in Nat /\ subscriptions[n] \in Nat
    BY <1>0, Zenon DEF TypeOK
  <2>3. /\ subscriptions' \in [Names -> Nat] /\ subscriptions'[n] = topics[n]
        /\ \A m \in Names : m # n => subscriptions'[m] = subscriptions[m]
    BY <1>0, <2>1, <2>2, Zenon DEF TypeOK, MapsTrackLibrary
  <2>4. TypeOK'
    <3>1. live' \subseteq Names \X Nat
      BY <1>0, <2>1, <2>2 DEF TypeOK
    <3>2. pc' \in [Handlers -> States]
      BY <1>0, <2>1, Zenon DEF TypeOK, States
    <3> QED BY <1>0, <1>1, <2>3, <3>1, <3>2 DEF TypeOK, Names
  <2>5. MapsTrackLibrary'
    <3>1. live' = {<<m, subscriptions'[m]>> : m \in {x \in Names : subscriptions'[x] # 0}}
      <4>1. CASE subscriptions[n] # 0
        <5>1. subscriptions' = subscriptions /\ live' = live
          BY <4>1, <1>0, <2>1, Zenon DEF TypeOK
        <5> QED BY <5>1, <1>0 DEF MapsTrackLibrary
      <4>2. CASE subscriptions[n] = 0
        <5>1. live' = live \cup {<<n, topics[n]>>}
          BY <4>2, <2>1, Zenon
        <5>2. {x \in Names : subscriptions'[x] # 0} = {x \in Names : subscriptions[x] # 0} \cup {n}
          BY <4>2, <1>0, <1>3, <2>3, Zenon
        <5>3. \A m \in {x \in Names : subscriptions[x] # 0} : subscriptions'[m] = subscriptions[m]
          BY <4>2, <2>3, Zenon
        <5> QED BY <5>1, <5>2, <5>3, <1>0, <2>3 DEF MapsTrackLibrary
      <4> QED BY <4>1, <4>2
    <3>2. \A m \in Names : subscriptions'[m] # 0 => subscriptions'[m] = topics'[m]
      BY <1>0, <1>1, <2>3, Zenon DEF MapsTrackLibrary
    <3> QED BY <3>1, <3>2, <1>0, <1>1 DEF MapsTrackLibrary, Names
  <2>6. MainTopicStays'
    BY <1>0, <1>1, <2>3, NamesFacts, Zenon DEF Inv, MainTopicStays
  <2>7. \A g \in Handlers : (Left(g) => Left(g)') /\ (Disturbed(g)' => Disturbed(g))
    BY <1>0, <1>1, <2>1, Zenon DEF Left, TypeOK, Disturbed, Runs
  <2>8. DisturbedByNamesake'
    BY <1>1, <2>7, DisturbedKept DEF Inv
  <2> QED BY <2>4, <2>5, <2>6, <2>8 DEF Inv
<1> QED BY <1>2, <1>3

\* Steps that only move a handler or its messages.
LEMMA QuietInv ==
  ASSUME Inv, TypeOK', UNCHANGED <<topics, subscriptions, open, live, topic, notJoined, disconnected>>,
         \A g \in Handlers : Left(g) => Left(g)',
         \A g \in Handlers : Runs(g)' => Runs(g),
         \A g \in Handlers : g \in refused' => g \in refused \/ Disturbed(g)
  PROVE  Inv'
<1>1. \A g \in Handlers : Disturbed(g)' => Disturbed(g)
  BY Zenon DEF Disturbed
<1>2. DisturbedByNamesake'
  BY <1>1, DisturbedKept, Zenon DEF Inv
<1>3. MainTopicStays'
  BY Zenon DEF Inv, MainTopicStays
<1> QED BY <1>2, <1>3, MapsUnchanged DEF Inv

\* The steps of a handler that leave the maps alone keep it.
LEMMA HandlerInv ==
  ASSUME Inv, NEW h \in Handlers,
         \/ ReceiveFrom(h) \/ NextReturns(h) \/ SessionEnds(h) \/ BroadcastTo(h) \/ Publish(h)
  PROVE  Inv'
<1>1. TypeOK
  BY Zenon DEF Inv
<1>2. UNCHANGED <<made, topics, subscriptions, open, live, topic, notJoined, disconnected>>
  BY Zenon DEF ReceiveFrom, NextReturns, SessionEnds, BroadcastTo, Publish, maps
<1>3. waitsOn' \in [Handlers -> Nat]
  BY <1>1, NamesFacts DEF ReceiveFrom, NextReturns, SessionEnds, BroadcastTo, Publish, TypeOK
<1>4. /\ pc' \in [Handlers -> States]
      /\ \A g \in Handlers : (Left(g) => Left(g)') /\ (Runs(g)' => Runs(g))
  BY <1>1, Zenon DEF ReceiveFrom, NextReturns, SessionEnds, BroadcastTo, Publish, TypeOK, Goto, Left, Runs, States
<1>5. TypeOK'
  BY <1>1, <1>2, <1>3, <1>4, Zenon DEF TypeOK, Names
<1>6. \A g \in Handlers : g \in refused' => g \in refused \/ Disturbed(g)
  BY DEF ReceiveFrom, NextReturns, SessionEnds, BroadcastTo, Publish, sending, Disturbed, Runs
<1> QED BY <1>2, <1>4, <1>5, <1>6, QuietInv

\* LeaveTopic keeps it.
LEMMA LeaveInv == ASSUME Inv, NEW h \in Handlers, LeaveTopic(h) PROVE Inv'
<1> DEFINE n == NameOf[h]
<1>0. TypeOK /\ MapsTrackLibrary /\ n \in Names /\ n # Main
  BY NamesFacts DEF Inv
<1>1. /\ CloseTopics({n}) /\ pc' = [pc EXCEPT ![h] = "done"] /\ pc[h] = "leaving"
      /\ UNCHANGED <<made, refused, topic, waitsOn, notJoined, disconnected>>
  BY Zenon DEF LeaveTopic, Goto, sending
<1>2. {n} \in SUBSET Names
  BY <1>0, Zenon
<1> HIDE DEF n
<1>3. /\ MapsTrackLibrary'
      /\ topics' \in [Names -> Nat] /\ subscriptions' \in [Names -> Nat]
      /\ \A m \in Names : topics'[m] <= topics[m]
      /\ open' \subseteq open /\ live' \subseteq live
      /\ \A m \in Names : m # n => topics'[m] = topics[m] /\ subscriptions'[m] = subscriptions[m]
      /\ \A m \in Names, k \in Nat : m # n => (<<m, k>> \in open' <=> <<m, k>> \in open)
  BY <1>0, <1>1, <1>2, CloseTracks, Zenon
<1>4. TypeOK'
  <2>1. \A m \in Names : topics'[m] <= made'[m]
    BY <1>0, <1>1, <1>3 DEF TypeOK
  <2>2. pc' \in [Handlers -> States]
    BY <1>0, <1>1, Zenon DEF TypeOK, States
  <2> QED BY <1>0, <1>1, <1>3, <2>1, <2>2 DEF TypeOK, Names
<1>5. MainTopicStays'
  BY <1>0, <1>1, <1>3, NamesFacts, Zenon DEF Inv, MainTopicStays, TypeOK
<1>6. \A g \in Handlers : Left(g) => Left(g)'
  BY <1>0, <1>1, Zenon DEF TypeOK, Left
<1>7. ASSUME NEW g \in Handlers, Disturbed(g)' PROVE Disturbed(g) \/ Excused(g)'
  <2>1. CASE g = h
    BY <1>7, <2>1, <1>0, <1>1, Zenon DEF Disturbed, Runs, TypeOK
  <2>2. CASE g # h /\ NameOf[g] = n
    <3>1. h \in Namesakes(g) /\ Left(h)'
      BY <2>2, <1>0, <1>1, Zenon DEF Namesakes, Left, TypeOK, n
    <3> QED BY <3>1 DEF Excused, Namesakes
  <2>3. CASE g # h /\ NameOf[g] # n
    <3>1. pc'[g] = pc[g] /\ topic'[g] = topic[g] /\ topic[g] \in Nat /\ NameOf[g] \in Names
      BY <2>3, <1>0, <1>1, NamesFacts, Zenon DEF TypeOK
    <3>2. <<NameOf[g], topic[g]>> \in open' <=> <<NameOf[g], topic[g]>> \in open
      BY <2>3, <3>1, <1>3, Zenon
    <3> QED BY <1>7, <3>1, <3>2, <1>1 DEF Disturbed, Runs
  <2> QED BY <2>1, <2>2, <2>3
<1>8. DisturbedByNamesake'
  BY <1>1, <1>6, <1>7, DisturbedKept, Zenon DEF Inv
<1> QED BY <1>3, <1>4, <1>5, <1>8 DEF Inv

\* Disconnect keeps it.
LEMMA DisconnectInv == ASSUME Inv, Disconnect PROVE Inv'
<1>1. TypeOK /\ MapsTrackLibrary /\ CloseTopics(Names) /\ disconnected' = TRUE
  BY Zenon DEF Inv, Disconnect
<1>2. UNCHANGED <<made, pc, topic, waitsOn>>
  BY Zenon DEF Disconnect
<1>3. /\ MapsTrackLibrary'
      /\ topics' \in [Names -> Nat] /\ subscriptions' \in [Names -> Nat]
      /\ \A m \in Names : topics'[m] <= topics[m]
      /\ open' \subseteq open /\ live' \subseteq live
  BY <1>1, CloseTracks, Zenon
<1>4. TypeOK'
  <2>1. \A m \in Names : topics'[m] <= made'[m]
    BY <1>1, <1>2, <1>3, SMTT(30) DEF TypeOK
  <2> QED BY <1>1, <1>2, <1>3, <2>1 DEF TypeOK, Names
<1>5. MainTopicStays' /\ DisturbedByNamesake'
  BY <1>1, Zenon DEF MainTopicStays, DisturbedByNamesake
<1> QED BY <1>3, <1>4, <1>5 DEF Inv

\* Every step keeps it.
LEMMA NextInv == Inv /\ [Next]_vars => Inv'
<1> SUFFICES ASSUME Inv, [Next]_vars PROVE Inv'
  BY Zenon
<1>1. ASSUME NEW h \in Handlers, Step(h) PROVE Inv'
  BY <1>1, JoinInv, SubscribeInv, HandlerInv, LeaveInv, Zenon DEF Step
<1>2. ASSUME NEW h \in Handlers, NEW m \in Msgs, Deliver(NameOf[h], subscriptions[NameOf[h]], m) PROVE Inv'
  <2>1. UNCHANGED <<made, topics, subscriptions, open, live, topic, notJoined, disconnected, pc, waitsOn, refused>>
    BY <1>2, Zenon DEF Deliver, maps, sending
  <2>2. TypeOK'
    BY <2>1, Zenon DEF Inv, TypeOK, Names
  <2> QED BY <2>1, <2>2, QuietInv DEF Left, Runs
<1>3. CASE Disconnect
  BY <1>3, DisconnectInv, Zenon
<1>4. CASE UNCHANGED vars
  <2>1. UNCHANGED <<made, topics, subscriptions, open, live, topic, notJoined, disconnected, pc, waitsOn, refused>>
    BY <1>4, Zenon DEF vars, maps, sending
  <2>2. TypeOK'
    BY <2>1, Zenon DEF Inv, TypeOK, Names
  <2> QED BY <2>1, <2>2, QuietInv DEF Left, Runs
<1> QED BY <1>1, <1>2, <1>3, <1>4 DEF Next

\* The invariant holds in every reachable state.
LEMMA Invariance == Spec => []Inv
BY InitInv, NextInv, PTL DEF Spec

\* Protocol's maps never lose or keep a topic the library has not: every open
\* topic can be found, joined and left by its name.
THEOREM MapsTrack == Spec => []MapsTrackLibrary
BY Invariance, PTL DEF Inv

\* Whatever requests come and go, Broadcast and Receive have a main topic until
\* Disconnect.
THEOREM MainStays == Spec => []MainTopicStays
BY Invariance, PTL DEF Inv

\* A handler that has its name to itself keeps its topic from JoinTopic to its
\* own LeaveTopic: only a namesake or Disconnect can take it away.
THEOREM OnlyNamesakesDisturb == Spec => []DisturbedByNamesake
BY Invariance, PTL DEF Inv

-----------------------------------------------------------------------------
(***************************************************************************)
(* ForeignMessages is about the past: who made the object a message came   *)
(* through, and who closed the receiver's own.  Numbers keep that past.    *)
(* Objects of a name are made in the order of their numbers and only the   *)
(* newest can be in the map; a handler keeps the number of the object it   *)
(* joined, so every object has a handler that made it, and every closed    *)
(* one a handler, with the same number or a smaller one, that left.        *)
(***************************************************************************)
Joined(h) == pc[h] \in {"joined", "running", "waiting", "leaving"}

NewestInMap ==
  /\ \A n \in Names : topics[n] # 0 => topics[n] = made[n]
  /\ \A h \in Handlers :
       /\ topic[h] <= made[NameOf[h]]
       /\ pc[h] = "idle" => topic[h] = 0 /\ got[h] = {}
       /\ Joined(h) => topic[h] > 0
       /\ pc[h] = "waiting" => waitsOn[h] >= topic[h] /\ waitsOn[h] <= made[NameOf[h]]

ClosedBy(h, k) ==
  disconnected \/ \E f \in Handlers : NameOf[f] = NameOf[h] /\ Left(f) /\ topic[f] <= k

ObjectHistory ==
  \A h \in Handlers : \A k \in 1..made[NameOf[h]] :
    /\ \E g \in Handlers : NameOf[g] = NameOf[h] /\ topic[g] = k
    /\ k # topics[NameOf[h]] => ClosedBy(h, k)

GotOK == /\ got = [h \in Handlers |-> got[h]]
         /\ \A h \in Handlers : \A d \in got[h] : d[2] \in Nat \ {0}

History == Inv /\ NewestInMap /\ ObjectHistory /\ GotOK /\ ForeignMessages

\* No topic of a handler has been made yet.
LEMMA InitHistory == Init => History
<1> SUFFICES ASSUME Init PROVE History
  OBVIOUS
<1>1. Inv
  BY InitInv, Zenon
<1>2. \A h \in Handlers : made[NameOf[h]] = 0 /\ topic[h] = 0 /\ got[h] = {} /\ pc[h] = "idle"
  BY NamesFacts, Zenon DEF Init
<1>3. topics = made /\ got = [h \in Handlers |-> got[h]]
  BY Zenon DEF Init
<1>4. NewestInMap
  BY <1>2, <1>3 DEF NewestInMap, Joined
<1>5. ObjectHistory
  BY <1>2 DEF ObjectHistory
<1>6. GotOK /\ ForeignMessages
  BY <1>2, <1>3, Zenon DEF GotOK, ForeignMessages
<1> QED BY <1>1, <1>4, <1>5, <1>6 DEF History

\* What has been received stays explained while no handler takes another object.
LEMMA ForeignKept ==
  ASSUME ForeignMessages, UNCHANGED topic, disconnected => disconnected',
         \A g \in Handlers : Left(g) => Left(g)',
         NEW h \in Handlers, NEW d \in got[h], d[2] # topic[h]
  PROVE  \E g \in Namesakes(h) : /\ topic'[g] = d[2]
                                 /\ disconnected' \/ \E f \in Namesakes(h) \ {g} : Left(f)'
<1>1. PICK g \in Namesakes(h) :
        topic[g] = d[2] /\ (disconnected \/ \E f \in Namesakes(h) \ {g} : Left(f))
  BY Zenon DEF ForeignMessages
<1>2. disconnected' \/ \E f \in Namesakes(h) \ {g} : Left(f)'
  BY <1>1, Zenon DEF Namesakes
<1> QED BY <1>1, <1>2

\* The same of all handlers, for a step that receives nothing.
LEMMA ForeignUnchanged ==
  ASSUME ForeignMessages, UNCHANGED <<topic, got>>, disconnected => disconnected',
         \A g \in Handlers : Left(g) => Left(g)'
  PROVE  ForeignMessages'
<1> SUFFICES ASSUME NEW h \in Handlers, NEW d \in got[h], d[2] # topic[h]
             PROVE  \E g \in Namesakes(h) : /\ topic'[g] = d[2]
                                            /\ disconnected' \/ \E f \in Namesakes(h) \ {g} : Left(f)'
  BY Zenon DEF ForeignMessages, Namesakes
<1> QED BY ForeignKept

\* Objects keep their makers, and what closed them, when a step makes none and
\* has an excuse for those it takes out of the map.
LEMMA ObjectsKept ==
  ASSUME ObjectHistory, UNCHANGED <<made, topic>>, disconnected => disconnected',
         \A g \in Handlers : Left(g) => Left(g)',
         \A h \in Handlers : \A k \in 1..made[NameOf[h]] :
           k = topics[NameOf[h]] /\ k # topics'[NameOf[h]] => ClosedBy(h, k)'
  PROVE  ObjectHistory'
<1> SUFFICES ASSUME NEW h \in Handlers, NEW k \in 1..made[NameOf[h]]
             PROVE  /\ \E g \in Handlers : NameOf[g] = NameOf[h] /\ topic'[g] = k
                    /\ k # topics'[NameOf[h]] => ClosedBy(h, k)'
  BY Zenon DEF ObjectHistory
<1>1. \E g \in Handlers : NameOf[g] = NameOf[h] /\ topic'[g] = k
  BY DEF ObjectHistory
<1>2. ClosedBy(h, k) => ClosedBy(h, k)'
  BY Zenon DEF ClosedBy
<1>3. k # topics[NameOf[h]] => ClosedBy(h, k)
  BY Zenon DEF ObjectHistory
<1> QED BY <1>1, <1>2, <1>3

\* JoinTopic: a handler that makes an object is the one with its number.
LEMMA JoinHistory == ASSUME History, NEW h \in Handlers, JoinTopic(h) PROVE History'
<1> DEFINE n == NameOf[h]
           k == IF topics[n] # 0 THEN topics[n] ELSE made[n] + 1
<1>0. TypeOK /\ MapsTrackLibrary /\ n \in Names /\ Inv'
  BY JoinInv, NamesFacts, Zenon DEF History, Inv
<1>1. topics[n] # 0 \/ CanJoin(n)
  BY <1>0, OpenIsJoined, Zenon DEF CanJoin
<1>2. /\ made' = [made EXCEPT ![n] = IF @ < k THEN k ELSE @]
      /\ topics' = [topics EXCEPT ![n] = k]
      /\ topic' = [topic EXCEPT ![h] = k]
      /\ pc' = [pc EXCEPT ![h] = "joined"]
  BY <1>1, Zenon DEF JoinTopic, Goto
<1>3. UNCHANGED <<got, waitsOn, disconnected>> /\ pc[h] = "idle"
  BY Zenon DEF JoinTopic, inboxes
<1>4. k \in Nat /\ k > 0 /\ made[n] \in Nat /\ topics[n] \in Nat
  BY <1>0 DEF TypeOK
<1>5. /\ topics[n] # 0 => k = topics[n] /\ k = made[n]
      /\ topics[n] = 0 => k = made[n] + 1
  BY <1>0, Zenon DEF History, NewestInMap
<1> HIDE DEF k
<1>6. made'[n] = k /\ topics'[n] = k /\ topic'[h] = k /\ pc'[h] = "joined"
  BY <1>0, <1>2, <1>4, <1>5 DEF TypeOK
<1> HIDE DEF n
<1>7. \A m \in Names : m # n => made'[m] = made[m] /\ topics'[m] = topics[m]
  BY <1>0, <1>2, Zenon DEF TypeOK
<1>8. \A g \in Handlers : g # h => topic'[g] = topic[g] /\ pc'[g] = pc[g]
  BY <1>0, <1>2, Zenon DEF TypeOK
<1>9. topic[h] = 0 /\ got[h] = {}
  BY <1>3, Zenon DEF History, NewestInMap
<1>10. \A m \in Names : made[m] \in Nat /\ made'[m] \in Nat /\ made[m] <= made'[m]
  BY <1>0, <1>4, <1>5, <1>6, <1>7 DEF TypeOK, Inv
<1>11. \A g \in Handlers : Left(g) => g # h /\ Left(g)'
  BY <1>3, <1>8, Zenon DEF Left
<1>12. NewestInMap'
  <2>1. \A m \in Names : topics'[m] # 0 => topics'[m] = made'[m]
    BY <1>6, <1>7, Zenon DEF History, NewestInMap
  <2>2. ASSUME NEW g \in Handlers
        PROVE  /\ topic'[g] <= made'[NameOf[g]]
               /\ pc'[g] = "idle" => topic'[g] = 0 /\ got'[g] = {}
               /\ Joined(g)' => topic'[g] > 0
               /\ pc'[g] = "waiting" => waitsOn'[g] >= topic'[g] /\ waitsOn'[g] <= made'[NameOf[g]]
    <3>1. CASE g = h
      BY <3>1, <1>4, <1>6, SMTT(30) DEF n
    <3>2. CASE g # h
      <4>1. /\ NameOf[g] \in Names /\ topic[g] \in Nat /\ waitsOn[g] \in Nat
        BY <1>0, NamesFacts, Zenon DEF TypeOK
      <4>2. made[NameOf[g]] \in Nat /\ made'[NameOf[g]] \in Nat /\ made[NameOf[g]] <= made'[NameOf[g]]
        BY <4>1, <1>10, Zenon
      <4> QED BY <3>2, <4>1, <4>2, <1>3, <1>8 DEF History, NewestInMap, Joined
    <3> QED BY <3>1, <3>2
  <2> QED BY <2>1, <2>2 DEF NewestInMap, Names
<1>13. ObjectHistory'
  <2> SUFFICES ASSUME NEW g \in Handlers, NEW j \in 1..made'[NameOf[g]]
               PROVE  /\ \E x \in Handlers : NameOf[x] = NameOf[g] /\ topic'[x] = j
                      /\ j # topics'[NameOf[g]] => ClosedBy(g, j)'
    BY Zenon DEF ObjectHistory
  <2>1. NameOf[g] \in Names
    BY NamesFacts, Zenon
  <2>2. CASE NameOf[g] = n /\ j = k
    BY <2>2, <1>6, Zenon DEF n
  <2>3. CASE ~(NameOf[g] = n /\ j = k)
    <3>1. j \in 1..made[NameOf[g]]
      BY <2>1, <2>3, <1>4, <1>5, <1>6, <1>7, <1>10
    <3>2. PICK x \in Handlers : NameOf[x] = NameOf[g] /\ topic[x] = j
      BY <3>1, Zenon DEF History, ObjectHistory
    <3>3. x # h
      BY <3>1, <3>2, <1>9
    <3>4. j # topics'[NameOf[g]] => j # topics[NameOf[g]]
      BY <2>1, <2>3, <1>5, <1>6, <1>7, <3>1, <1>4, <1>10
    <3>5. j # topics[NameOf[g]] => ClosedBy(g, j)
      BY <3>1, Zenon DEF History, ObjectHistory
    <3>6. ClosedBy(g, j) => ClosedBy(g, j)'
      BY <1>3, <1>8, <1>11, Zenon DEF ClosedBy
    <3> QED BY <3>2, <3>3, <3>4, <3>5, <3>6, <1>8
  <2> QED BY <2>2, <2>3
<1>14. GotOK'
  BY <1>3, Zenon DEF History, GotOK
<1>15. ForeignMessages'
  <2> SUFFICES ASSUME NEW g \in Handlers, NEW d \in got[g], d[2] # topic'[g]
               PROVE  \E x \in Namesakes(g) : /\ topic'[x] = d[2]
                                              /\ disconnected' \/ \E f \in Namesakes(g) \ {x} : Left(f)'
    BY <1>3, Zenon DEF ForeignMessages, Namesakes
  <2>1. g # h /\ topic'[g] = topic[g] /\ d[2] \in Nat \ {0}
    BY <1>8, <1>9, Zenon DEF History, GotOK
  <2>2. PICK x \in Namesakes(g) :
          topic[x] = d[2] /\ (disconnected \/ \E f \in Namesakes(g) \ {x} : Left(f))
    BY <2>1, Zenon DEF History, ForeignMessages
  <2>3. x # h /\ topic'[x] = d[2]
    BY <2>1, <2>2, <1>8, <1>9, Zenon DEF Namesakes
  <2>4. disconnected' \/ \E f \in Namesakes(g) \ {x} : Left(f)'
    BY <2>2, <1>3, <1>11, Zenon DEF Namesakes
  <2> QED BY <2>2, <2>3, <2>4
<1> QED BY <1>0, <1>12, <1>13, <1>14, <1>15 DEF History

\* Steps that make, close and receive nothing.
LEMMA QuietHistory ==
  ASSUME History, Inv', UNCHANGED <<made, topics, topic, got, disconnected>>,
         \A g \in Handlers : Left(g) => Left(g)',
         \A g \in Handlers : pc'[g] = "idle" => pc[g] = "idle",
         \A g \in Handlers : Joined(g)' => Joined(g),
         \A g \in Handlers : pc'[g] = "waiting" =>
            \/ pc[g] = "waiting" /\ waitsOn'[g] = waitsOn[g]
            \/ waitsOn'[g] = made[NameOf[g]]
  PROVE  History'
<1>1. ForeignMessages' /\ ObjectHistory'
  BY ForeignUnchanged, ObjectsKept, Zenon DEF History
<1>2. NewestInMap'
  <2>1. \A g \in Handlers : made[NameOf[g]] \in Nat /\ topic[g] \in Nat
    BY NamesFacts, Zenon DEF History, Inv, TypeOK
  <2> QED BY <2>1 DEF History, NewestInMap, Names
<1>3. GotOK'
  BY Zenon DEF History, GotOK
<1> QED BY <1>1, <1>2, <1>3 DEF History

\* A message comes through the subscription that Next waits on: if that is not
\* of the handler's own object, the own one was closed and a namesake made this.
LEMMA ReceiveHistory == ASSUME History, NEW h \in Handlers, NextReturns(h) PROVE History'
<1> DEFINE n == NameOf[h]
<1>0. TypeOK /\ n \in Names /\ Inv' /\ pc[h] = "waiting"
  BY HandlerInv, NamesFacts, Zenon DEF History, Inv, NextReturns
<1>1. UNCHANGED <<made, topics, topic, disconnected>>
  BY Zenon DEF NextReturns, maps
<1>2. CASE UNCHANGED got /\ Goto(h, "leaving")
  BY <1>0, <1>1, <1>2, QuietHistory, Zenon DEF Goto, TypeOK, Left, Joined, NextReturns
<1>3. ASSUME NEW d \in Pending(n, waitsOn[h]), got' = [got EXCEPT ![h] = @ \cup {d}], Goto(h, "running")
      PROVE  History'
  <2>1. d[2] = waitsOn[h]
    BY Zenon DEF Pending
  <2>2. /\ waitsOn[h] \in Nat /\ topic[h] \in Nat /\ made[n] \in Nat /\ topics[n] \in Nat
        /\ topic[h] > 0 /\ waitsOn[h] >= topic[h] /\ waitsOn[h] <= made[n]
        /\ topics[n] # 0 => topics[n] = made[n]
    BY <1>0, Zenon DEF History, NewestInMap, Joined, TypeOK
  <2>3. /\ pc' = [pc EXCEPT ![h] = "running"] /\ waitsOn' = [waitsOn EXCEPT ![h] = 0]
    BY <1>3, Zenon DEF Goto, NextReturns
  <2>4. \A g \in Handlers : (Left(g) => Left(g)') /\ (Joined(g)' => Joined(g))
    BY <1>0, <2>3, Zenon DEF TypeOK, Left, Joined
  <2>5. /\ got'[h] = got[h] \cup {d}
        /\ \A g \in Handlers : g # h => got'[g] = got[g] /\ pc'[g] = pc[g] /\ waitsOn'[g] = waitsOn[g]
        /\ got' = [g \in Handlers |-> got'[g]]
    BY <1>0, <1>3, <2>3, Zenon DEF TypeOK, History, GotOK
  <2>6. ObjectHistory'
    BY <1>1, <2>4, ObjectsKept, Zenon DEF History
  <2>7. NewestInMap'
    <3>1. pc'[h] = "running"
      BY <1>0, <2>3, Zenon DEF TypeOK
    <3> QED BY <1>1, <2>2, <2>4, <2>5, <3>1 DEF History, NewestInMap, Names
  <2>8. GotOK'
    <3>1. \A g \in Handlers : \A x \in got'[g] : x[2] \in Nat \ {0}
      BY <2>1, <2>2, <2>5 DEF History, GotOK
    <3> QED BY <2>5, <3>1 DEF GotOK
  <2>9. ForeignMessages'
    <3> SUFFICES ASSUME NEW g \in Handlers, NEW x \in got'[g], x[2] # topic[g]
                 PROVE  \E y \in Namesakes(g) : /\ topic'[y] = x[2]
                                                /\ disconnected' \/ \E f \in Namesakes(g) \ {y} : Left(f)'
      BY <1>1, Zenon DEF ForeignMessages, Namesakes
    <3>1. CASE x \in got[g]
      BY <3>1, <1>1, <2>4, ForeignKept, Zenon DEF History
    <3>2. CASE x \notin got[g]
      <4>1. g = h /\ x = d
        BY <3>2, <2>5, Zenon
      <4>2. waitsOn[h] > topic[h] /\ topic[h] # topics[n]
        BY <4>1, <2>1, <2>2
      <4>3. PICK y \in Handlers : NameOf[y] = n /\ topic[y] = waitsOn[h]
        BY <2>2, SMTT(30) DEF History, ObjectHistory
      <4>4. y \in Namesakes(h)
        BY <4>2, <4>3, <2>2 DEF Namesakes
      <4>5. ClosedBy(h, topic[h])
        BY <4>2, <2>2 DEF History, ObjectHistory
      <4>6. disconnected \/ \E f \in Namesakes(h) \ {y} : Left(f)
        <5>1. ASSUME NEW f \in Handlers, NameOf[f] = n, Left(f), topic[f] <= topic[h]
              PROVE  f \in Namesakes(h) \ {y}
          BY <5>1, <1>0, <4>2, <4>3, <2>2, SMTT(30) DEF Namesakes, Left
        <5> QED BY <4>5, <5>1 DEF ClosedBy
      <4>7. disconnected' \/ \E f \in Namesakes(h) \ {y} : Left(f)'
        BY <4>6, <1>1, <2>4, Zenon DEF Namesakes
      <4> QED BY <4>1, <4>3, <4>4, <4>7, <1>1, <2>1
    <3> QED BY <3>1, <3>2
  <2> QED BY <1>0, <2>6, <2>7, <2>8, <2>9 DEF History
<1> QED BY <1>2, <1>3, SMTT(30) DEF NextReturns

\* The other steps of a handler that make and close nothing.
LEMMA HandlerHistory ==
  ASSUME History, NEW h \in Handlers,
         Subscribe(h) \/ ReceiveFrom(h) \/ SessionEnds(h) \/ BroadcastTo(h) \/ Publish(h)
  PROVE  History'
<1>0. TypeOK /\ MapsTrackLibrary /\ NameOf[h] \in Names /\ Inv'
  BY SubscribeInv, HandlerInv, NamesFacts, Zenon DEF History, Inv
<1>1. UNCHANGED <<made, topics, topic, got, disconnected>>
  BY Zenon DEF Subscribe, ReceiveFrom, SessionEnds, BroadcastTo, Publish, maps, inboxes
<1>2. \A g \in Handlers : /\ Left(g) => Left(g)'
                          /\ pc'[g] = "idle" => pc[g] = "idle"
                          /\ Joined(g)' => Joined(g)
  BY <1>0, Zenon DEF Subscribe, ReceiveFrom, SessionEnds, BroadcastTo, Publish, Goto, TypeOK, Left, Joined
<1>3. ASSUME NEW g \in Handlers, pc'[g] = "waiting"
      PROVE  (pc[g] = "waiting" /\ waitsOn'[g] = waitsOn[g]) \/ waitsOn'[g] = made[NameOf[g]]
  <2>1. CASE ReceiveFrom(h) /\ g = h
    <3>1. subscriptions[NameOf[h]] # 0 /\ waitsOn'[h] = subscriptions[NameOf[h]]
      BY <1>0, <1>3, <2>1, Zenon DEF ReceiveFrom, Goto, TypeOK
    <3> QED BY <1>0, <2>1, <3>1 DEF MapsTrackLibrary, History, NewestInMap
  <2>2. CASE ReceiveFrom(h) /\ g # h
    BY <1>0, <1>3, <2>2, Zenon DEF ReceiveFrom, Goto, TypeOK
  <2>3. CASE Subscribe(h) \/ SessionEnds(h) \/ BroadcastTo(h) \/ Publish(h)
    BY <1>0, <1>3, <2>3, Zenon DEF Subscribe, SessionEnds, BroadcastTo, Publish, Goto, TypeOK
  <2> QED BY <2>1, <2>2, <2>3, Zenon
<1> QED BY <1>0, <1>1, <1>2, <1>3, QuietHistory

\* LeaveTopic closes an object no older than the leaver's own.
LEMMA LeaveHistory == ASSUME History, NEW h \in Handlers, LeaveTopic(h) PROVE History'
<1>0. TypeOK /\ Inv' /\ pc[h] = "leaving"
  BY LeaveInv, Zenon DEF History, Inv, LeaveTopic
<1>1. /\ UNCHANGED <<made, topic, got, waitsOn, disconnected>>
      /\ pc' = [pc EXCEPT ![h] = "done"]
      /\ topics' = [n \in Names |-> IF n \in {NameOf[h]} THEN 0 ELSE topics[n]]
  BY Zenon DEF LeaveTopic, inboxes, Goto, CloseTopics
<1>2. /\ pc'[h] = "done" /\ \A g \in Handlers : g # h => pc'[g] = pc[g]
      /\ \A g \in Handlers : Left(g) => Left(g)'
  BY <1>0, <1>1, Zenon DEF TypeOK, Left
<1>3. ForeignMessages'
  BY <1>1, <1>2, ForeignUnchanged, Zenon DEF History
<1>4. ASSUME NEW g \in Handlers, NEW k \in 1..made[NameOf[g]],
             k = topics[NameOf[g]], k # topics'[NameOf[g]]
      PROVE  ClosedBy(g, k)'
  <2>1. NameOf[g] = NameOf[h]
    BY <1>1, <1>4, NamesFacts, Zenon
  <2>2. topic[h] <= k
    BY <1>4, <2>1, NamesFacts, SMTT(30) DEF History, NewestInMap
  <2>3. Left(h)'
    BY <1>2, Zenon DEF Left
  <2> QED BY <1>1, <2>1, <2>2, <2>3 DEF ClosedBy
<1>5. ObjectHistory'
  BY <1>1, <1>2, <1>4, ObjectsKept, Zenon DEF History
<1>6. NewestInMap'
  <2>1. \A n \in Names : topics'[n] # 0 => topics'[n] = topics[n]
    BY <1>1, Zenon
  <2> QED BY <1>1, <1>2, <2>1, ZenonT(30) DEF History, NewestInMap, Joined, Names
<1>7. GotOK'
  BY <1>1, Zenon DEF History, GotOK
<1> QED BY <1>0, <1>3, <1>5, <1>6, <1>7, SMTT(30) DEF History

\* Disconnect closes them all, and says so.
LEMMA DisconnectHistory == ASSUME History, Disconnect PROVE History'
<1>0. Inv' /\ UNCHANGED <<made, topic, got, waitsOn, pc>> /\ disconnected' = TRUE
  BY DisconnectInv, Zenon DEF History, Disconnect, inboxes
<1>1. \A n \in Names : topics'[n] = 0
  BY Zenon DEF Disconnect, CloseTopics
<1>2. ForeignMessages'
  BY <1>0, ForeignUnchanged, Zenon DEF History, Left
<1>3. ObjectHistory'
  BY <1>0, ObjectsKept, Zenon DEF History, Left, ClosedBy
<1>4. NewestInMap'
  BY <1>0, <1>1, Zenon DEF History, NewestInMap, Joined, Names
<1>5. GotOK'
  BY <1>0, Zenon DEF History, GotOK
<1> QED BY <1>0, <1>2, <1>3, <1>4, <1>5 DEF History

\* Every step keeps the history.
LEMMA NextHistory == History /\ [Next]_vars => History'
<1> SUFFICES ASSUME History, [Next]_vars PROVE History'
  OBVIOUS
<1>0. Inv'
  BY NextInv, Zenon DEF History
<1>1. ASSUME NEW h \in Handlers, Step(h) PROVE History'
  BY <1>1, JoinHistory, ReceiveHistory, HandlerHistory, LeaveHistory, Zenon DEF Step
<1>2. ASSUME NEW h \in Handlers, NEW m \in Msgs, Deliver(NameOf[h], subscriptions[NameOf[h]], m)
      PROVE  History'
  <2>1. UNCHANGED <<made, topics, topic, got, disconnected, pc, waitsOn>>
    BY <1>2, Zenon DEF Deliver, maps
  <2> QED BY <1>0, <2>1, QuietHistory, SMTT(30) DEF Left, Joined
<1>3. CASE Disconnect
  BY <1>3, DisconnectHistory
<1>4. CASE UNCHANGED vars
  <2>1. UNCHANGED <<made, topics, topic, got, disconnected, pc, waitsOn>>
    BY <1>4, Zenon DEF vars, maps, inboxes
  <2> QED BY <1>0, <2>1, QuietHistory DEF Left, Joined
<1> QED BY <1>1, <1>2, <1>3, <1>4 DEF Next

\* A handler gets a message that came for another topic object than its own only
\* if two namesakes made it so: one, or Disconnect, closed the handler's object
\* and another opened the name anew.
THEOREM OnlyReopenedTopicsMix == Spec => []ForeignMessages
<1>1. Init => History
  BY InitHistory, Zenon
<1>2. History /\ [Next]_vars => History'
  BY NextHistory, Zenon
<1>3. History => ForeignMessages
  BY Zenon DEF History
<1> QED BY <1>1, <1>2, <1>3, PTL DEF Spec
=============================================================================
