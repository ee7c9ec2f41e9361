---------------------------- MODULE QuitHandlers ----------------------------
(***************************************************************************)
(* The register of quit channels of a node (node/bridge/quit_handlers.go)  *)
(* and its users: StartEpoch registers a channel for the epoch's topic and *)
(* starts SpreadNewEpoch, which waits its turn (Id * 5 s) before it sends  *)
(* UpdateEpoch to every chain; a NewEpoch event cancels the waiting; a new *)
(* set-up of the same epoch replaces it.  The goroutines meet in two maps  *)
(* and in the channels, and closing a channel twice would panic.           *)
(***************************************************************************)
EXTENDS Integers, FiniteSets

CONSTANTS
  Topics,    \* epoch topic names
  Channels,  \* quit channels; bounds the number of set-ups
  NoTopic, NoChannel,
  NodeId     \* the node's Id: node 0 does not wait

ASSUME NoTopicIsNone == NoTopic \notin Topics
ASSUME NoChannelIsNone == NoChannel \notin Channels

VARIABLES
  handlers,  \* topic -> channel
  topics,    \* channel -> topic
  closed,    \* closed channels
  spread,    \* the SpreadNewEpoch goroutine of each channel
  updates,   \* channels whose goroutine went on to send UpdateEpoch
  panicked   \* a closed channel was closed again

vars == <<handlers, topics, closed, spread, updates, panicked>>

Init ==
  /\ handlers = [t \in Topics |-> NoChannel]
  /\ topics = [ch \in Channels |-> NoTopic]
  /\ closed = {}
  /\ spread = [ch \in Channels |-> "unused"]
  /\ updates = {}
  /\ panicked = FALSE

\* close(ch) for the channels in chs (at most one): a goroutine blocked in the
\* select on it takes the quit case and returns.
Close(chs) ==
  /\ closed' = closed \cup chs
  /\ panicked' = (panicked \/ chs \cap closed # {})

Woken(chs) ==
  [ch \in Channels |-> IF ch \in chs /\ spread[ch] = "select" THEN "returning" ELSE spread[ch]]

\* The last line of StartEpoch: AddQuitHandler and go SpreadNewEpoch.
AddQuitHandler(t, ch) ==
  LET old == {handlers[t]} \ {NoChannel}
  IN /\ spread[ch] = "unused"
     /\ Close(old)
     /\ handlers' = [handlers EXCEPT ![t] = ch]
     /\ topics' = [c \in Channels |-> CASE c = ch -> t
                                       [] c \in old -> NoTopic
                                       [] OTHER -> topics[c]]
     /\ spread' = [Woken(old) EXCEPT ![ch] = "starting"]
     /\ UNCHANGED updates

\* Mutants: the handler is closed without looking it up, or is left registered.
RemoveQuitHandlerBlind(ch) ==
  /\ spread[ch] = "returning"
  /\ spread' = [spread EXCEPT ![ch] = "done"]
  /\ Close({ch})
  /\ handlers' = [t \in Topics |-> IF handlers[t] = ch THEN NoChannel ELSE handlers[t]]
  /\ topics' = [topics EXCEPT ![ch] = NoTopic]
  /\ UNCHANGED updates
RemoveQuitHandlerNever(ch) ==
  /\ spread[ch] = "returning"
  /\ spread' = [spread EXCEPT ![ch] = "done"]
  /\ UNCHANGED <<handlers, topics, closed, updates, panicked>>

\* The deferred RemoveQuitHandler of SpreadNewEpoch.
RemoveQuitHandler(ch) ==
  LET found == {t \in Topics : topics[ch] = t /\ handlers[t] = ch}
  IN /\ spread[ch] = "returning"
     /\ spread' = [spread EXCEPT ![ch] = "done"]
     /\ Close({ch : t \in found})
     /\ handlers' = [t \in Topics |-> IF t \in found THEN NoChannel ELSE handlers[t]]
     /\ topics' = [topics EXCEPT ![ch] = IF found = {} THEN @ ELSE NoTopic]
     /\ UNCHANGED updates

\* HandleNewEpoch: the event names the topic whose waiting is cancelled.
RemoveTopicHandler(t) ==
  LET ch == {handlers[t]} \ {NoChannel}
  IN /\ Close(ch)
     /\ handlers' = [handlers EXCEPT ![t] = NoChannel]
     /\ topics' = [c \in Channels |-> IF c \in ch THEN NoTopic ELSE topics[c]]
     /\ spread' = Woken(ch)
     /\ UNCHANGED updates

\* Mutant: the goroutine sleeps without looking at quit.
EnterSelectBlind(ch) ==
  /\ spread[ch] = "starting"
  /\ spread' = [spread EXCEPT ![ch] = "select"]
  /\ UNCHANGED <<handlers, topics, closed, updates, panicked>>

\* SpreadNewEpoch reaches its select; the timer is made only there.
EnterSelect(ch) ==
  /\ spread[ch] = "starting"
  /\ spread' = [spread EXCEPT ![ch] = IF ch \in closed THEN "returning" ELSE "select"]
  /\ UNCHANGED <<handlers, topics, closed, updates, panicked>>

\* The timer fires: UpdateEpoch is sent to every chain, in goroutines that
\* SpreadNewEpoch does not wait for. Node 0's timer of 0 s may be ready at once.
SendUpdate(ch) ==
  /\ spread[ch] = "select" \/ (NodeId = 0 /\ spread[ch] = "starting")
  /\ spread' = [spread EXCEPT ![ch] = "returning"]
  /\ updates' = updates \cup {ch}
  /\ UNCHANGED <<handlers, topics, closed, panicked>>

Next ==
  \/ \E t \in Topics, ch \in Channels : AddQuitHandler(t, ch)
  \/ \E t \in Topics : RemoveTopicHandler(t)
  \/ \E ch \in Channels : RemoveQuitHandler(ch) \/ EnterSelect(ch) \/ SendUpdate(ch)

Spec == Init /\ [][Next]_vars

\* The goroutines run and their timers expire.
FairSpec ==
  /\ Spec
  /\ \A ch \in Channels : WF_vars(RemoveQuitHandler(ch) \/ EnterSelect(ch) \/ SendUpdate(ch))

-----------------------------------------------------------------------------
\* The type invariant of the two maps and the goroutines.
TypeOK ==
  /\ handlers \in [Topics -> Channels \cup {NoChannel}]
  /\ topics \in [Channels -> Topics \cup {NoTopic}]
  /\ closed \in SUBSET Channels
  /\ spread \in [Channels -> {"unused", "starting", "select", "returning", "done"}]
  /\ updates \in SUBSET Channels
  /\ panicked \in BOOLEAN

\* No channel is closed twice, although three functions close channels that
\* two maps and two goroutines refer to (a panic would stop the whole relayer).
NeverPanics == ~panicked

\* The maps are inverse to each other and hold open channels only.
MapsInverse ==
  /\ \A t \in Topics : handlers[t] # NoChannel =>
       topics[handlers[t]] = t /\ handlers[t] \notin closed
  /\ \A ch \in Channels : topics[ch] # NoTopic => handlers[topics[ch]] = ch

\* Of all SpreadNewEpoch goroutines of an epoch only the newest waits to send:
\* any other has been told to quit.
OnlyNewestWaits ==
  \A ch \in Channels :
    spread[ch] \in {"starting", "select"} =>
      \/ ch \in closed
      \/ \E t \in Topics : handlers[t] = ch

\* A goroutine that was cancelled while it waited for its turn never sends
\* UpdateEpoch: only one whose timer is ready as it reaches the select may pass
\* over its closed channel (node 0's, which has no turn to wait for).
CancelledNeverSends ==
  [][\A ch \in closed : ch \in updates' \ updates => spread[ch] = "starting"]_vars

\* Every handler is removed and its channel closed in the end, whether the
\* update was sent, cancelled or replaced.
HandlersReleased ==
  \A ch \in Channels : spread[ch] # "unused" ~> topics[ch] = NoTopic /\ ch \in closed
=============================================================================
