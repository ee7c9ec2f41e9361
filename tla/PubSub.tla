------------------------------- MODULE PubSub -------------------------------
(***************************************************************************)
(* The topics of a node: Protocol in consensus/consensus.go, with its maps *)
(* from topic names to topic and subscription objects, and the handlers    *)
(* that share them (HandleOracleRequest and StartEpoch in                  *)
(* node/bridge/node.go).  Handlers whose requests have the same name share *)
(* one topic object, and the first to end closes it for all of them.       *)
(* Every method of Protocol holds mx while it reads or changes the maps,   *)
(* so it is one action; ReceiveFrom gives it up before it waits.           *)
(***************************************************************************)
EXTENDS Integers, FiniteSets

CONSTANTS
  Handlers,   \* the goroutines of HandleOracleRequest and StartEpoch
  NameOf,     \* the topic name of each
  Main,       \* the main topic
  Msgs        \* messages that can arrive on a subscription

ASSUME NamesAreNotMain ==
  /\ NameOf \in [Handlers -> {NameOf[h] : h \in Handlers}]
  /\ Main \notin {NameOf[h] : h \in Handlers}

Names == {NameOf[h] : h \in Handlers} \cup {Main}

VARIABLES
  made,           \* how many topic objects of a name the library has made
  topics,         \* Protocol.topics: the object's number, 0 for none
  subscriptions,  \* Protocol.subscriptions: the number of its topic object
  open,           \* topic objects <<name, number>> not closed (library)
  live,           \* subscriptions not cancelled (library)
  delivered,      \* messages <<name, number, message>> put into subscriptions
  pc,             \* where each handler is
  topic,          \* the object a handler has joined
  waitsOn,        \* the subscription its Next waits on
  got,            \* messages it has received
  outbox,         \* handlers with a BroadcastTo goroutine that has not run yet
  refused,        \* handlers whose publish met a closed topic while they ran
  notJoined,      \* handlers whose Subscribe or Join returned an error
  disconnected    \* Disconnect was called

maps == <<made, topics, subscriptions, open, live>>
inboxes == <<delivered, got>>
sending == <<outbox, refused>>
vars == <<maps, inboxes, sending, pc, topic, waitsOn, notJoined, disconnected>>

\* NewPubSubWithTopic: the main topic is joined and subscribed to.
Init ==
  /\ made = [n \in Names |-> IF n = Main THEN 1 ELSE 0]
  /\ topics = made /\ subscriptions = made
  /\ open = {<<Main, 1>>} /\ live = {<<Main, 1>>}
  /\ delivered = {}
  /\ pc = [h \in Handlers |-> "idle"]
  /\ topic = [h \in Handlers |-> 0] /\ waitsOn = [h \in Handlers |-> 0]
  /\ got = [h \in Handlers |-> {}]
  /\ outbox = {} /\ refused = {} /\ notJoined = {}
  /\ disconnected = FALSE

Goto(h, l) == pc' = [pc EXCEPT ![h] = l]

\* The library refuses to join a name one of whose topics is open (external).
CanJoin(n) == \A k \in 1..made[n] : <<n, k>> \notin open

\* Mutants: the object is not the library's newest, the caller gets what the map
\* held before, the map is not looked at.
JoinTopicNumber(h) ==
  LET n == NameOf[h]
  IN /\ pc[h] = "idle" /\ CanJoin(n)
     /\ topics' = [topics EXCEPT ![n] = made[n] + 1]
     /\ open' = open \cup {<<n, made[n] + 1>>}
     /\ topic' = [topic EXCEPT ![h] = made[n] + 1]
     /\ Goto(h, "joined")
     /\ UNCHANGED <<made, subscriptions, live, inboxes, sending, waitsOn, notJoined, disconnected>>
JoinTopicFound(h) ==
  LET n == NameOf[h]
      k == IF topics[n] # 0 THEN topics[n] ELSE made[n] + 1
  IN /\ pc[h] = "idle" /\ (topics[n] # 0 \/ CanJoin(n))
     /\ made' = [made EXCEPT ![n] = IF @ < k THEN k ELSE @]
     /\ topics' = [topics EXCEPT ![n] = k]
     /\ open' = IF topics[n] = 0 THEN open \cup {<<n, k>>} ELSE open
     /\ topic' = [topic EXCEPT ![h] = topics[n]]
     /\ Goto(h, "joined")
     /\ UNCHANGED <<subscriptions, live, inboxes, sending, waitsOn, notJoined, disconnected>>

JoinTopicAnew(h) ==
  LET n == NameOf[h]
      k == made[n] + 1
  IN /\ pc[h] = "idle"
     /\ IF CanJoin(n)
        THEN /\ made' = [made EXCEPT ![n] = k] /\ topics' = [topics EXCEPT ![n] = k]
             /\ open' = open \cup {<<n, k>>} /\ topic' = [topic EXCEPT ![h] = k]
             /\ Goto(h, "joined") /\ UNCHANGED notJoined
        ELSE /\ notJoined' = notJoined \cup {h} /\ Goto(h, "done")
             /\ UNCHANGED <<made, topics, open, topic>>
     /\ UNCHANGED <<subscriptions, live, inboxes, sending, waitsOn, disconnected>>

\* JoinTopic: the topic in the map, or a new one from the library.
JoinTopic(h) ==
  LET n == NameOf[h]
      k == IF topics[n] # 0 THEN topics[n] ELSE made[n] + 1
      ok == topics[n] # 0 \/ CanJoin(n)
  IN /\ pc[h] = "idle"
     /\ IF ok
        THEN /\ made' = [made EXCEPT ![n] = IF @ < k THEN k ELSE @]
             /\ topics' = [topics EXCEPT ![n] = k]
             /\ open' = IF topics[n] = 0 THEN open \cup {<<n, k>>} ELSE open
             /\ topic' = [topic EXCEPT ![h] = k]
             /\ Goto(h, "joined")
             /\ UNCHANGED notJoined
        ELSE /\ notJoined' = notJoined \cup {h}
             /\ Goto(h, "done")
             /\ UNCHANGED <<made, topics, open, topic>>
     /\ UNCHANGED <<subscriptions, live, inboxes, sending, waitsOn, disconnected>>

\* Subscribe: nothing to do for a name that has a subscription, an error for
\* one that is no longer in the map.
Subscribe(h) ==
  LET n == NameOf[h]
  IN /\ pc[h] = "joined"
     /\ IF topics[n] = 0
        THEN /\ notJoined' = notJoined \cup {h}
             /\ Goto(h, "leaving")
             /\ UNCHANGED <<subscriptions, live>>
        ELSE /\ subscriptions' = [subscriptions EXCEPT ![n] = IF @ = 0 THEN topics[n] ELSE @]
             /\ live' = IF subscriptions[n] = 0 THEN live \cup {<<n, topics[n]>>} ELSE live
             /\ Goto(h, "running")
             /\ UNCHANGED notJoined
     /\ UNCHANGED <<made, topics, open, inboxes, sending, topic, waitsOn, disconnected>>

\* ReceiveFrom looks the subscription up by name; with none it returns nil,
\* which ends the session or BlsSetup.
ReceiveFrom(h) ==
  LET n == NameOf[h]
  IN /\ pc[h] = "running"
     /\ Goto(h, IF subscriptions[n] = 0 THEN "leaving" ELSE "waiting")
     /\ waitsOn' = [waitsOn EXCEPT ![h] = subscriptions[n]]
     /\ UNCHANGED <<maps, inboxes, sending, topic, notJoined, disconnected>>

\* Messages in a subscription that no handler has taken.
Pending(n, k) ==
  {d \in delivered : d[1] = n /\ d[2] = k /\ \A h \in Handlers : d \notin got[h]}

\* Next returns a message of the subscription it waits on; once that is
\* cancelled and empty it returns an error.
NextReturns(h) ==
  LET n == NameOf[h]
      inbox == Pending(n, waitsOn[h])
  IN /\ pc[h] = "waiting"
     /\ \/ \E d \in inbox : got' = [got EXCEPT ![h] = @ \cup {d}] /\ Goto(h, "running")
        \/ /\ inbox = {} /\ <<n, waitsOn[h]>> \notin live
           /\ Goto(h, "leaving") /\ UNCHANGED got
     /\ waitsOn' = [waitsOn EXCEPT ![h] = 0]
     /\ UNCHANGED <<maps, delivered, sending, topic, notJoined, disconnected>>

\* The session has what it waited for, or its time is up: its context ends Next.
SessionEnds(h) ==
  /\ pc[h] = "waiting"
  /\ Goto(h, "leaving") /\ waitsOn' = [waitsOn EXCEPT ![h] = 0]
  /\ UNCHANGED <<maps, inboxes, sending, topic, notJoined, disconnected>>

\* BroadcastTo starts a goroutine that publishes to the handler's own object.
BroadcastTo(h) ==
  /\ pc[h] = "running" /\ h \notin outbox
  /\ outbox' = outbox \cup {h}
  /\ UNCHANGED <<maps, inboxes, refused, pc, topic, waitsOn, notJoined, disconnected>>

\* The goroutine: ErrTopicClosed is only logged.
Publish(h) ==
  LET closed == <<NameOf[h], topic[h]>> \notin open
  IN /\ h \in outbox
     /\ outbox' = outbox \ {h}
     /\ refused' = IF closed /\ pc[h] \in {"running", "waiting"} THEN refused \cup {h} ELSE refused
     /\ UNCHANGED <<maps, inboxes, pc, topic, waitsOn, notJoined, disconnected>>

\* A message of a peer, or of the node itself, reaches a subscription (external).
Deliver(n, k, m) ==
  /\ <<n, k>> \in live /\ <<n, k, m>> \notin delivered
  /\ delivered' = delivered \cup {<<n, k, m>>}
  /\ UNCHANGED <<maps, got, sending, pc, topic, waitsOn, notJoined, disconnected>>

\* What LeaveTopic and Disconnect do to the objects of a set of names.
CloseTopics(names) ==
  /\ topics' = [n \in Names |-> IF n \in names THEN 0 ELSE topics[n]]
  /\ subscriptions' = [n \in Names |-> IF n \in names THEN 0 ELSE subscriptions[n]]
  /\ open' = open \ {<<n, topics[n]>> : n \in names}
  /\ live' = live \ {<<n, subscriptions[n]>> : n \in names}

\* The deferred LeaveTopic of a handler: whatever object its name now stands for.
LeaveTopic(h) ==
  /\ pc[h] = "leaving" /\ Goto(h, "done")
  /\ CloseTopics({NameOf[h]})
  /\ UNCHANGED <<made, inboxes, sending, topic, waitsOn, notJoined, disconnected>>

\* Disconnect, deferred by RunNode: every topic, the main one included.
Disconnect ==
  /\ ~disconnected /\ disconnected' = TRUE
  /\ CloseTopics(Names)
  /\ UNCHANGED <<made, inboxes, sending, pc, topic, waitsOn, notJoined>>

Step(h) ==
  \/ JoinTopic(h) \/ Subscribe(h) \/ ReceiveFrom(h) \/ NextReturns(h)
  \/ SessionEnds(h) \/ BroadcastTo(h) \/ Publish(h) \/ LeaveTopic(h)

Next ==
  \/ \E h \in Handlers : Step(h)
  \/ \E h \in Handlers, m \in Msgs : Deliver(NameOf[h], subscriptions[NameOf[h]], m)
  \/ Disconnect

Spec == Init /\ [][Next]_vars

-----------------------------------------------------------------------------
States == {"idle", "joined", "running", "waiting", "leaving", "done"}
Left(h) == pc[h] = "done"
Runs(h) == pc[h] \in {"joined", "running", "waiting"}
Namesakes(h) == {g \in Handlers : g # h /\ NameOf[g] = NameOf[h]}

\* The type invariant of the maps and of the handlers.
TypeOK ==
  /\ made \in [Names -> Nat] /\ topics \in [Names -> Nat] /\ subscriptions \in [Names -> Nat]
  /\ \A n \in Names : topics[n] <= made[n]
  /\ open \subseteq Names \X Nat /\ live \subseteq Names \X Nat
  /\ pc \in [Handlers -> States]
  /\ topic \in [Handlers -> Nat] /\ waitsOn \in [Handlers -> Nat]
  /\ disconnected \in BOOLEAN

\* The maps and the library agree: the open topics are the ones in the map, and
\* the subscriptions not cancelled are in the map, under a joined topic.  (A
\* topic the map had lost could never be joined again, nor closed.)
MapsTrackLibrary ==
  /\ open = {<<n, topics[n]>> : n \in {x \in Names : topics[x] # 0}}
  /\ live = {<<n, subscriptions[n]>> : n \in {x \in Names : subscriptions[x] # 0}}
  /\ \A n \in Names : subscriptions[n] # 0 => subscriptions[n] = topics[n]

\* Requests may come and go: until Disconnect the main topic is joined and
\* subscribed to, so Broadcast never publishes to nil.
MainTopicStays ==
  ~disconnected => topics[Main] # 0 /\ subscriptions[Main] = topics[Main] /\ <<Main, topics[Main]>> \in open

\* A running handler's topic is closed, its publish refused or its Subscribe
\* fails only if a handler of the same name has left, or the node disconnects.
DisturbedByNamesake ==
  \A h \in Handlers :
    \/ Runs(h) /\ <<NameOf[h], topic[h]>> \notin open
    \/ h \in refused
    \/ h \in notJoined
    => disconnected \/ \E g \in Namesakes(h) : Left(g)

\* A handler receives what came for another topic object than its own only
\* after a namesake closed its topic and a second one opened it anew.
ForeignMessages ==
  \A h \in Handlers : \A d \in got[h] :
    d[2] # topic[h] =>
      \E g \in Namesakes(h) : topic[g] = d[2] /\ (disconnected \/ \E f \in Namesakes(h) \ {g} : Left(f))
=============================================================================
