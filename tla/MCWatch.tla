------------------------------ MODULE MCWatch -------------------------------
(* Instances of what connects a node to a chain: EthClient keeps its watchers subscribed,
   LogDelivery hands the logs of the subscriptions of one watcher to its handler. A
   behaviour is one of an instance, named by part; the variables of the other module stay
   as they are. *)
EXTENDS LogDelivery

CONSTANTS w1, w2, a, Loop, Close, Remove, None

VARIABLES
  part,
  up, lost, losses, refusals, badLogs, ethClient, dialled, connected, recreated, mx, subLoopMx,
  wmx, subLoopInitialized, reSubWatchers, reconnectOnTimer, cancelled, watchers, subscribed,
  sub, made, pc, conn, on, todo

Log(b, t) == [block |-> b, tx |-> t]

\* A block of its own, a block with two transactions of which one has two logs, a last block.
FiveLogs == <<Log(1, 1), Log(2, 2), Log(2, 2), Log(2, 3), Log(3, 4)>>

\* One subscription at a time and logs that unpack.
Clean == INSTANCE LogDelivery WITH MaxLive <- 1, BadLogs <- {}
\* Two watchers and a caller before the endpoint answers; a watcher whose connection is
\* lost while a caller calls; two watchers of a client that is closed.
Start == INSTANCE EthClient WITH
  Watchers <- {w1, w2}, Callers <- {a}, Closers <- {}, InitiallyUp <- FALSE,
  MaxLosses <- 0, MaxRefusals <- 0, MaxBadLogs <- 0, MaxSubs <- 3
Loss == INSTANCE EthClient WITH
  Watchers <- {w1}, Callers <- {a}, Closers <- {}, InitiallyUp <- TRUE,
  MaxLosses <- 1, MaxRefusals <- 0, MaxBadLogs <- 1, MaxSubs <- 6
Closing == INSTANCE EthClient WITH
  Watchers <- {w1, w2}, Callers <- {}, Closers <- {Close, Remove}, InitiallyUp <- TRUE,
  MaxLosses <- 0, MaxRefusals <- 1, MaxBadLogs <- 0, MaxSubs <- 4

\* The goroutines of each client are told apart.
ASSUME ClientSettings == Start!Setting /\ Loss!Setting /\ Closing!Setting

client ==
  <<up, lost, losses, refusals, badLogs, ethClient, dialled, connected, recreated, mx, subLoopMx,
    wmx, subLoopInitialized, reSubWatchers, reconnectOnTimer, cancelled, watchers, subscribed,
    sub, made, pc, conn, on, todo>>
LogParts == {"clean", "overlap"}
all == <<part, vars, client>>

MCInit ==
  /\ Init
  /\ \/ part \in LogParts \cup {"start"} /\ Start!Init
     \/ part = "loss" /\ Loss!Init
     \/ part = "closing" /\ Closing!Init

MCNext ==
  \/ part = "clean" /\ Clean!Next /\ UNCHANGED <<part, client>>
  \/ part = "overlap" /\ Next /\ UNCHANGED <<part, client>>
  \/ part = "start" /\ Start!Next /\ UNCHANGED <<part, vars>>
  \/ part = "loss" /\ Loss!Next /\ UNCHANGED <<part, vars>>
  \/ part = "closing" /\ Closing!Next /\ UNCHANGED <<part, vars>>

\* The fairness of LogDelivery and of EthClient.
MCSpec ==
  /\ MCInit /\ [][MCNext]_all
  /\ WF_all(part = "clean" /\ Emit /\ UNCHANGED <<part, client>>)
  /\ \A s \in Subs : WF_all(part = "clean" /\ Clean!Receive(s) /\ UNCHANGED <<part, client>>)
  /\ WF_all(part = "clean" /\ (\E s \in Subs : Clean!WatchLogs(s)) /\ UNCHANGED <<part, client>>)
  /\ WF_all(part = "start" /\ Start!Restore /\ UNCHANGED <<part, vars>>)
  /\ WF_all(/\ \/ part = "start" /\ ~Start!Panicked /\ Start!LoopStep
               \/ part = "closing" /\ ~Closing!Panicked /\ Closing!LoopStep
            /\ UNCHANGED <<part, vars>>)
  /\ SF_all(/\ \/ part = "start" /\ ~Start!Panicked /\ Start!TakeSignal
               \/ part = "closing" /\ ~Closing!Panicked /\ Closing!StopSubLoop
            /\ UNCHANGED <<part, vars>>)
  /\ \A w \in {w1, w2} :
       /\ WF_all(/\ \/ part = "start" /\ ~Start!Panicked /\ Start!AddStep(w)
                    \/ part = "closing" /\ ~Closing!Panicked /\ Closing!AddStep(w)
                 /\ UNCHANGED <<part, vars>>)
       /\ WF_all(/\ \/ /\ part = "start" /\ ~Start!Panicked
                       /\ \E i \in 1..3 : Start!GoroutineStep(<<w, i>>)
                    \/ /\ part = "closing" /\ ~Closing!Panicked
                       /\ \E i \in 1..4 : Closing!GoroutineStep(<<w, i>>)
                 /\ UNCHANGED <<part, vars>>)
  /\ WF_all(part = "start" /\ ~Start!Panicked /\ Start!CallStep(a) /\ UNCHANGED <<part, vars>>)
  /\ \A c \in {Close, Remove} :
       WF_all(part = "closing" /\ ~Closing!Panicked /\ Closing!CloseStep(c) /\ UNCHANGED <<part, vars>>)

-----------------------------------------------------------------------------
\* The type invariants of the log cache and of the client.
TypesOK ==
  /\ TypeOK
  /\ part \in LogParts \cup {"start"} => Start!TypeOK
  /\ part = "loss" => Loss!TypeOK
  /\ part = "closing" => Closing!TypeOK

\* With one subscription at a time and an endpoint that replays from FromBlock
\* (watcher.go:136), a log that is emitted while no subscription runs is handled, or one of
\* its transaction is, once a subscription is made again.
SingleCatchesUp == part = "clean" => CaughtUp

\* While the client has a working connection, a watcher that lost its subscription has a
\* signal, a timer or a goroutine that will renew it (client.go:204), whatever call finds
\* the loss first, as long as no endpoint refuses and nothing is being closed.
UnsubscribedIsRenewed ==
  /\ part = "start" => Start!UnsubscribedIsRenewed
  /\ part = "loss" => Loss!UnsubscribedIsRenewed
  /\ part = "closing" => Closing!UnsubscribedIsRenewed

\* Every watcher is in the end subscribed on a working connection, although AddWatcher
\* failed for it before the endpoint answered (client.go:216).
AllWatched == <>[](part = "start" => \A w \in {w1, w2} : \E i \in 1..3 : Start!Live(<<w, i>>))

\* After Close cancelled the context subLoop stops, whatever it was doing (client.go:252).
LoopStops ==
  part = "closing" /\ cancelled
    ~> pc[Loop] \in {"idle", "stopped"} \/ (part = "closing" /\ Closing!Panicked)
=============================================================================
