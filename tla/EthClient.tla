----------------------------- MODULE EthClient -----------------------------
(***************************************************************************)
(* The connection of a node to one chain (extChains/eth/client.go,         *)
(* watcher.go, client_methods.go).  Callers of RPC methods, AddWatcher     *)
(* calls, the subscription goroutines of the watchers and the goroutine    *)
(* subLoop share the connection behind the mutex mx, and wake subLoop      *)
(* through a channel of capacity 1 that is filled under subLoopMx.  Every  *)
(* watcher has a mutex of its own, held while it subscribes.               *)
(*                                                                         *)
(* getClient asks the network while it holds mx; nothing else can happen   *)
(* to the fields meanwhile, so that is one step, up to the point where a   *)
(* new connection is announced and getClient blocks with mx held.          *)
(***************************************************************************)
EXTENDS Integers, FiniteSets

CONSTANTS
  Watchers,      \* each is added once, by its own AddWatcher call
  Callers,       \* goroutines that call RPC methods
  Loop,          \* the goroutine subLoop
  Close, Remove, \* calls of Close and of RemoveWatcher ...
  Closers,       \* ... those of them that are made
  InitiallyUp,   \* whether the endpoints answer at the start
  MaxLosses,     \* how often all connections are lost (bound)
  MaxRefusals,   \* how often a live endpoint refuses SubscribeFilterLogs (bound)
  MaxBadLogs,    \* how many logs do not unpack (bound)
  MaxSubs,       \* subscriptions made for one watcher (bound)
  None

VARIABLES
  up, lost, losses, refusals, badLogs,  \* the network: connections up to `lost` are dead
  ethClient, dialled,                   \* the client's connection (0 is nil); the last one dialled
  connected, recreated,                 \* the flags getClient leaves for subLoop
  mx, subLoopMx, wmx,                   \* holders of the mutexes
  subLoopInitialized, reSubWatchers,    \* the signal channel holds 0 or 1
  reconnectOnTimer, cancelled,
  watchers, subscribed, sub, made,      \* registered watchers, their flag, w.sub and the last made
  pc, conn, on, todo                    \* the goroutines: position, connection, watchers at hand

network == <<up, lost, losses, refusals, badLogs>>
locks == <<mx, subLoopMx, wmx>>
client == <<ethClient, dialled, connected, recreated>>
loopVars == <<subLoopInitialized, reSubWatchers, reconnectOnTimer, cancelled>>
watch == <<watchers, subscribed, sub, made>>
vars == <<network, locks, client, loopVars, watch, pc, conn, on, todo>>

\* Goroutines are told apart, and none is nobody.
Setting ==
  /\ None \notin Watchers /\ Loop \notin Watchers \cup Callers \cup Closers
  /\ Callers \cap Closers = {} /\ Watchers \cap (Callers \cup Closers) = {}
  /\ MaxSubs \in Nat
  /\ ({Loop} \cup Closers \cup Watchers \cup Callers) \cap (Watchers \X (1..MaxSubs)) = {}

Procs == {Loop} \cup Closers \cup Watchers \cup Callers
Goroutines == Watchers \X (1..MaxSubs)

\* NewClient: nothing is dialled before the first call.
Init ==
  /\ up = InitiallyUp /\ lost = 0 /\ losses = 0 /\ refusals = 0 /\ badLogs = 0
  /\ ethClient = 0 /\ dialled = 0 /\ connected = FALSE /\ recreated = FALSE
  /\ mx = None /\ subLoopMx = None /\ wmx = [w \in Watchers |-> None]
  /\ subLoopInitialized = FALSE /\ reSubWatchers = 0
  /\ reconnectOnTimer = FALSE /\ cancelled = FALSE
  /\ watchers = {} /\ subscribed = [w \in Watchers |-> FALSE]
  /\ sub = [w \in Watchers |-> 0] /\ made = [w \in Watchers |-> 0]
  /\ pc = [p \in Procs \cup Goroutines |-> "idle"]
  /\ conn = [p \in Procs \cup Goroutines |-> 0]
  /\ on = [p \in {Loop} \cup Closers \cup Watchers |-> IF p \in Watchers THEN p ELSE None]
  /\ todo = [p \in {Loop} \cup Closers |-> {}]

Goto(p, label) == pc' = [pc EXCEPT ![p] = label]
Reachable == up /\ ~cancelled

-----------------------------------------------------------------------------
\* The network (external): all connections are lost, and endpoints come back.
Lose ==
  /\ losses < MaxLosses
  /\ losses' = losses + 1
  /\ lost' = dialled
  /\ up' \in BOOLEAN
  /\ UNCHANGED <<refusals, badLogs, client, locks, loopVars, watch, pc, conn, on, todo>>

Restore ==
  /\ ~up
  /\ up' = TRUE
  /\ UNCHANGED <<lost, losses, refusals, badLogs, client, locks, loopVars, watch, pc, conn, on, todo>>

-----------------------------------------------------------------------------
\* getClient: a connection that still knows its chain id is kept; a broken
\* one is dropped and getClient starts again; without one every url is dialled.
GetClient(p) ==
  /\ pc[p] = "get" /\ mx = None
  /\ \/ /\ ethClient > lost /\ ~cancelled
        /\ connected' = TRUE /\ recreated' = FALSE
        /\ Goto(p, "return")
        /\ UNCHANGED <<ethClient, dialled, mx, conn>>
     \/ /\ ethClient # 0 /\ (ethClient <= lost \/ cancelled)
        /\ ethClient' = 0 /\ connected' = FALSE
        /\ UNCHANGED <<dialled, recreated, mx, conn, pc>>
     \/ /\ ethClient = 0 /\ Reachable
        /\ ethClient' = dialled + 1 /\ dialled' = dialled + 1
        /\ connected' = TRUE /\ recreated' = TRUE
        /\ mx' = p
        /\ conn' = [conn EXCEPT ![p] = dialled + 1]
        /\ Goto(p, "signal")
     \/ /\ ethClient = 0 /\ ~Reachable
        /\ connected' = FALSE
        /\ Goto(p, "failed")
        /\ UNCHANGED <<ethClient, dialled, recreated, mx, conn>>
  /\ UNCHANGED <<network, subLoopMx, wmx, loopVars, watch, on, todo>>

\* The connection that is kept is returned after mx is released: nil if another
\* goroutine has dropped it by then. Whoever uses nil ends the process; the
\* ticker of subLoop does not use it.
ReturnClient(p) ==
  /\ pc[p] = "return"
  /\ conn' = [conn EXCEPT ![p] = ethClient]
  /\ Goto(p, IF ethClient = 0 /\ ~(p = Loop /\ on[Loop] = None) THEN "panic" ELSE "got")
  /\ UNCHANGED <<network, locks, client, loopVars, watch, on, todo>>
Panicked == \E p \in Procs : pc[p] = "panic"

\* SendResubscribeSignal, by getClient (which returns and releases mx after
\* it) or by the goroutine of a subscription (which ends after it).
AfterSignal(p) == IF p \in Goroutines THEN "ended" ELSE "got"
Unlocked(p) == IF mx = p THEN None ELSE mx

LockSubLoop(p) ==
  /\ pc[p] = "signal" /\ subLoopMx = None
  /\ IF subLoopInitialized
     THEN subLoopMx' = p /\ Goto(p, "send") /\ UNCHANGED mx
     ELSE mx' = Unlocked(p) /\ Goto(p, AfterSignal(p)) /\ UNCHANGED subLoopMx
  /\ UNCHANGED <<network, wmx, client, loopVars, watch, conn, on, todo>>

\* Mutant: the capacity of the channel is ignored.
SendUnbounded(p) ==
  /\ pc[p] = "send"
  /\ reSubWatchers' = reSubWatchers + 1
  /\ subLoopMx' = None
  /\ mx' = Unlocked(p)
  /\ Goto(p, AfterSignal(p))
  /\ UNCHANGED <<network, wmx, client, subLoopInitialized, reconnectOnTimer, cancelled,
                 watch, conn, on, todo>>

Send(p) ==
  /\ pc[p] = "send" /\ reSubWatchers = 0
  /\ reSubWatchers' = 1
  /\ subLoopMx' = None
  /\ mx' = Unlocked(p)
  /\ Goto(p, AfterSignal(p))
  /\ UNCHANGED <<network, wmx, client, subLoopInitialized, reconnectOnTimer, cancelled,
                 watch, conn, on, todo>>

-----------------------------------------------------------------------------
\* AddWatcher registers the watcher, starts subLoop if it is the first, and
\* subscribes. (A second call for a registered watcher changes nothing.)
\* Watchers are not added once they are being closed: RunNode does both.
AddWatcher(w) ==
  /\ pc[w] = "idle" /\ mx = None
  /\ \A c \in Closers : pc[c] = "idle"
  /\ watchers' = watchers \cup {w}
  /\ Goto(w, "start")
  /\ UNCHANGED <<network, locks, client, loopVars, subscribed, sub, made, conn, on, todo>>

\* Mutant: the loop is marked as started and does not run.
StartSubLoopNever(w) ==
  /\ pc[w] = "start" /\ subLoopMx = None
  /\ subLoopInitialized' = TRUE
  /\ Goto(w, "lock")
  /\ UNCHANGED <<network, locks, client, reSubWatchers, reconnectOnTimer, cancelled, watch,
                 conn, on, todo>>

StartSubLoop(w) ==
  /\ pc[w] = "start" /\ subLoopMx = None
  /\ subLoopInitialized' = TRUE
  /\ pc' = [pc EXCEPT ![w] = "lock", ![Loop] = IF subLoopInitialized THEN @ ELSE "select"]
  /\ UNCHANGED <<network, locks, client, reSubWatchers, reconnectOnTimer, cancelled, watch,
                 conn, on, todo>>

\* Subscribe, Resubscribe and Close take the mutex of the watcher.
LockWatcher(p) ==
  /\ pc[p] = "lock" /\ wmx[on[p]] = None
  /\ wmx' = [wmx EXCEPT ![on[p]] = p]
  /\ Goto(p, IF p \in Closers THEN "unsubscribe" ELSE "get")
  /\ UNCHANGED <<network, mx, subLoopMx, client, loopVars, watch, conn, on, todo>>

\* The connection works and the context of the watcher is not cancelled.
Accepts(p) == conn[p] > lost /\ ~cancelled /\ on[p] \in watchers

\* watchEvents after getClient succeeded: SubscribeFilterLogs is accepted and
\* the goroutine of the subscription runs before the flag is set. A former
\* subscription is replaced without being cancelled.
SubscribeFilterLogs(p) ==
  LET w == on[p]
      g == <<w, made[w] + 1>>
  IN /\ pc[p] = "got" /\ p \in Watchers \cup {Loop} /\ w # None
     /\ Accepts(p) /\ made[w] < MaxSubs
     /\ made' = [made EXCEPT ![w] = @ + 1]
     /\ sub' = [sub EXCEPT ![w] = made[w] + 1]
     /\ conn' = [conn EXCEPT ![g] = conn[p]]
     /\ pc' = [pc EXCEPT ![p] = "flag", ![g] = "watching"]
     /\ UNCHANGED <<network, locks, client, loopVars, watchers, subscribed, on, todo>>

SetSubscribed(p) ==
  LET w == on[p]
  IN /\ pc[p] = "flag"
     /\ subscribed' = [subscribed EXCEPT ![w] = TRUE]
     /\ wmx' = [wmx EXCEPT ![w] = None]
     /\ Goto(p, IF p = Loop THEN "each" ELSE "done")
     /\ UNCHANGED <<network, mx, subLoopMx, client, loopVars, watchers, sub, made, conn, on, todo>>

\* getClient failed, the connection broke or the endpoint refused: w.sub becomes
\* nil. AddWatcher only logs it; subLoop gives up the remaining watchers and
\* leaves the rest to its ticker.
SubscribeFails(p) ==
  LET w == on[p]
      refused == pc[p] = "got" /\ Accepts(p)
  IN /\ pc[p] \in {"got", "failed"} /\ p \in Watchers \cup {Loop} /\ w # None
     /\ refused => refusals < MaxRefusals
     /\ refusals' = IF refused THEN refusals + 1 ELSE refusals
     /\ sub' = [sub EXCEPT ![w] = 0]
     /\ subscribed' = [subscribed EXCEPT ![w] = FALSE]
     /\ wmx' = [wmx EXCEPT ![w] = None]
     /\ Goto(p, IF p = Loop THEN "select" ELSE "error")
     /\ reconnectOnTimer' = (reconnectOnTimer \/ p = Loop)
     /\ on' = [on EXCEPT ![Loop] = IF p = Loop THEN None ELSE @]
     /\ todo' = [todo EXCEPT ![Loop] = IF p = Loop THEN {} ELSE @]
     /\ UNCHANGED <<up, lost, losses, badLogs, mx, subLoopMx, client, subLoopInitialized,
                    reSubWatchers, cancelled, watchers, made, conn>>

-----------------------------------------------------------------------------
\* The goroutine of a subscription. Mutant: the loss is not signalled.
SubErrSilent(g) ==
  /\ pc[g] = "watching" /\ conn[g] <= lost
  /\ subscribed' = [subscribed EXCEPT ![g[1]] = FALSE]
  /\ Goto(g, "ended")
  /\ UNCHANGED <<network, locks, client, loopVars, watchers, sub, made, conn, on, todo>>

\* The connection is lost: the flag is cleared and the loss signalled.
SubErr(g) ==
  /\ pc[g] = "watching" /\ conn[g] <= lost
  /\ subscribed' = [subscribed EXCEPT ![g[1]] = FALSE]
  /\ Goto(g, "signal")
  /\ UNCHANGED <<network, locks, client, loopVars, watchers, sub, made, conn, on, todo>>

\* A log does not unpack: the goroutine returns, and nobody reads its error.
UnpackFails(g) ==
  /\ pc[g] = "watching" /\ conn[g] > lost /\ badLogs < MaxBadLogs
  /\ badLogs' = badLogs + 1
  /\ Goto(g, "ended")
  /\ UNCHANGED <<up, lost, losses, refusals, locks, client, loopVars, watch, conn, on, todo>>

\* Unsubscribe of the watcher's latest subscription is waiting for it.
Quit(g) ==
  /\ pc[g] = "watching"
  /\ \E c \in Closers : pc[c] = "unsubscribe" /\ on[c] = g[1] /\ sub[g[1]] = g[2]
  /\ Goto(g, "ended")
  /\ UNCHANGED <<network, locks, client, loopVars, watch, conn, on, todo>>

-----------------------------------------------------------------------------
\* subLoop. It takes a signal ...
TakeSignal ==
  /\ pc[Loop] = "select" /\ reSubWatchers = 1
  /\ reSubWatchers' = 0
  /\ Goto(Loop, "decide")
  /\ UNCHANGED <<network, locks, client, subLoopInitialized, reconnectOnTimer, cancelled, watch,
                 conn, on, todo>>

\* ... looks at the flags ...
Decide ==
  /\ pc[Loop] = "decide" /\ mx = None
  /\ reconnectOnTimer' = ~connected
  /\ Goto(Loop, CASE connected /\ recreated -> "all"
                    [] connected /\ ~recreated -> "unsubscribed"
                    [] OTHER -> "select")
  /\ UNCHANGED <<network, locks, client, subLoopInitialized, reSubWatchers, cancelled, watch,
                 conn, on, todo>>

\* ... lists the watchers, getAllWatchers or getUnsubscribedWatchers, ...
ListWatchers ==
  /\ pc[Loop] \in {"all", "unsubscribed"} /\ mx = None
  /\ todo' = [todo EXCEPT ![Loop] = {w \in watchers : pc[Loop] = "all" \/ ~subscribed[w]}]
  /\ Goto(Loop, "each")
  /\ UNCHANGED <<network, locks, client, loopVars, watch, conn, on>>

\* ... and resubscribes one after the other.
ResubscribeNext ==
  /\ pc[Loop] = "each"
  /\ \/ /\ todo[Loop] = {}
        /\ on' = [on EXCEPT ![Loop] = None]
        /\ Goto(Loop, "select")
        /\ UNCHANGED todo
     \/ \E w \in todo[Loop] :
          /\ on' = [on EXCEPT ![Loop] = w]
          /\ todo' = [todo EXCEPT ![Loop] = @ \ {w}]
          /\ Goto(Loop, "lock")
  /\ UNCHANGED <<network, locks, client, loopVars, watch, conn>>

\* The ticker, if it has something to do, calls getClient ...
Tick ==
  /\ pc[Loop] = "select" /\ reconnectOnTimer
  /\ Goto(Loop, "get")
  /\ UNCHANGED <<network, locks, client, loopVars, watch, conn, on, todo>>

\* ... and is satisfied with any connection.
TickReturns ==
  /\ pc[Loop] \in {"got", "failed"} /\ on[Loop] = None
  /\ reconnectOnTimer' = (pc[Loop] = "failed")
  /\ Goto(Loop, "select")
  /\ UNCHANGED <<network, locks, client, subLoopInitialized, reSubWatchers, cancelled, watch,
                 conn, on, todo>>

\* Mutant: break leaves the select and not the loop.
StopSubLoopBreaks ==
  /\ pc[Loop] = "select" /\ cancelled
  /\ Goto(Loop, "select")
  /\ UNCHANGED <<network, locks, client, loopVars, watch, conn, on, todo>>

StopSubLoop ==
  /\ pc[Loop] = "select" /\ cancelled
  /\ Goto(Loop, "stopped")
  /\ UNCHANGED <<network, locks, client, loopVars, watch, conn, on, todo>>

-----------------------------------------------------------------------------
\* The RPC methods get the client and hand the call to it, or return its error.
Call(p) ==
  /\ pc[p] \in {"idle", "got", "failed"}
  /\ Goto(p, IF pc[p] = "idle" THEN "get" ELSE "idle")
  /\ UNCHANGED <<network, locks, client, loopVars, watch, conn, on, todo>>

\* Close and RemoveWatcher keep mx while they close the watchers.
BeginClose(c) ==
  /\ pc[c] = "idle" /\ mx = None
  /\ \A w \in Watchers : pc[w] \in {"idle", "done", "error"}
  /\ ~cancelled /\ \A d \in Closers : pc[d] \in {"idle", "done"}
  /\ mx' = c
  /\ \E some \in SUBSET watchers :
       /\ c = Close => some = watchers
       /\ c = Remove => Cardinality(some) <= 1
       /\ todo' = [todo EXCEPT ![c] = some]
  /\ Goto(c, "closing")
  /\ UNCHANGED <<network, subLoopMx, wmx, client, loopVars, watch, conn, on>>

CloseNext(c) ==
  /\ pc[c] = "closing"
  /\ \E w \in todo[c] :
       /\ on' = [on EXCEPT ![c] = w]
       /\ todo' = [todo EXCEPT ![c] = @ \ {w}]
  /\ Goto(c, "lock")
  /\ UNCHANGED <<network, locks, client, loopVars, watch, conn>>

\* clientWatcher.Close: Unsubscribe returns when the goroutine has ended.
CloseWatcher(c) ==
  LET w == on[c]
  IN /\ pc[c] = "unsubscribe"
     /\ sub[w] # 0 => pc[<<w, sub[w]>>] = "ended"
     /\ watchers' = watchers \ {w}
     /\ wmx' = [wmx EXCEPT ![w] = None]
     /\ Goto(c, "closing")
     /\ UNCHANGED <<network, mx, subLoopMx, client, loopVars, subscribed, sub, made, conn, on, todo>>

\* The watchers are closed: mx is released; Close cancels the context and waits
\* for the wait group, in which subLoop is counted and never discounted.
EndClose(c) ==
  /\ pc[c] = "closing" /\ todo[c] = {}
  /\ mx' = None
  /\ cancelled' = (cancelled \/ c = Close)
  /\ Goto(c, IF c = Close THEN "wait" ELSE "done")
  /\ UNCHANGED <<network, subLoopMx, wmx, client, subLoopInitialized, reSubWatchers,
                 reconnectOnTimer, watch, conn, on, todo>>

WaitGroup == IF subLoopInitialized THEN 1 ELSE 0
CloseReturns(c) ==
  /\ pc[c] = "wait" /\ WaitGroup = 0 /\ subLoopMx = None
  /\ Goto(c, "done")
  /\ UNCHANGED <<network, locks, client, loopVars, watch, conn, on, todo>>

-----------------------------------------------------------------------------
ClientStep(p) == GetClient(p) \/ ReturnClient(p) \/ LockSubLoop(p) \/ Send(p)
SubscribeStep(p) ==
  LockWatcher(p) \/ SubscribeFilterLogs(p) \/ SetSubscribed(p) \/ SubscribeFails(p)
LoopStep ==
  \/ ClientStep(Loop) \/ SubscribeStep(Loop)
  \/ TakeSignal \/ Decide \/ ListWatchers \/ ResubscribeNext
  \/ Tick \/ TickReturns \/ StopSubLoop
AddStep(w) == AddWatcher(w) \/ StartSubLoop(w) \/ ClientStep(w) \/ SubscribeStep(w)
GoroutineStep(g) == SubErr(g) \/ Quit(g) \/ LockSubLoop(g) \/ Send(g)
CallStep(p) == Call(p) \/ ClientStep(p)
CloseStep(c) ==
  \/ BeginClose(c) \/ CloseNext(c) \/ LockWatcher(c)
  \/ CloseWatcher(c) \/ EndClose(c) \/ CloseReturns(c)

Next ==
  /\ ~Panicked
  /\ \/ Lose \/ Restore
     \/ LoopStep
     \/ \E w \in Watchers : AddStep(w)
     \/ \E g \in Goroutines : GoroutineStep(g) \/ UnpackFails(g)
     \/ \E p \in Callers : CallStep(p)
     \/ \E c \in Closers : CloseStep(c)

Spec == Init /\ [][Next]_vars

\* Goroutines that can run do run, and an endpoint comes back. An instance takes
\* a mutex finitely often before it is free or held for good, so weak fairness
\* grants it; the select of subLoop picks a ready case at random.
FairSpec ==
  /\ Spec
  /\ WF_vars(~Panicked /\ Restore)
  /\ WF_vars(~Panicked /\ LoopStep)
  /\ SF_vars(~Panicked /\ TakeSignal) /\ SF_vars(~Panicked /\ StopSubLoop)
  /\ \A w \in Watchers : WF_vars(~Panicked /\ AddStep(w))
  /\ \A w \in Watchers : WF_vars(~Panicked /\ \E i \in 1..MaxSubs : GoroutineStep(<<w, i>>))
  /\ \A p \in Callers : WF_vars(~Panicked /\ CallStep(p))
  /\ \A c \in Closers : WF_vars(~Panicked /\ CloseStep(c))

-----------------------------------------------------------------------------
\* The type invariant of the client, its watchers and the goroutines.
TypeOK ==
  /\ lost <= dialled /\ ethClient \in 0..dialled
  /\ reSubWatchers \in {0, 1}
  /\ mx \in Procs \cup {None} /\ subLoopMx \in Procs \cup Goroutines \cup {None}
  /\ \A w \in Watchers : wmx[w] \in Procs \cup {None} /\ sub[w] \in 0..made[w]
  /\ watchers \subseteq Watchers
  /\ \A w \in Watchers : made[w] < MaxSubs

Live(g) == pc[g] = "watching" /\ conn[g] > lost
Watched(w) == \E i \in 1..MaxSubs : Live(<<w, i>>)

\* Nobody is about to renew the subscription of w: no signal, no timer, subLoop
\* and AddWatcher idle, no goroutine of w with a loss to report.
Unattended(w) ==
  /\ reSubWatchers = 0 /\ ~reconnectOnTimer
  /\ pc[Loop] = "select" /\ pc[w] = "done"  \* not "error": see AllWatched
  /\ \A p \in Procs \cup Goroutines : pc[p] \notin {"signal", "send"}
  /\ \A i \in 1..MaxSubs : pc[<<w, i>>] # "watching"

\* While the client has a working connection, a watcher whose flag says that it
\* is not subscribed is not forgotten, however stale `recreated` is when subLoop
\* looks at it. (Without one, the next RPC call dials and signals; see getClient.)
\* An endpoint that works and refuses, or a watcher that is being closed, makes
\* subLoop give up the watchers it has not come to.
Undisturbed == refusals = 0 /\ \A c \in Closers : pc[c] = "idle"
UnsubscribedIsRenewed ==
  Undisturbed /\ ethClient > lost => \A w \in watchers : ~subscribed[w] => ~Unattended(w)

\* A signal put into the channel is taken out again by subLoop: no goroutine
\* waits for ever to send one with mx in its hands (unless the process ends).
SignalsTaken == reSubWatchers = 1 ~> reSubWatchers = 0 \/ Panicked

\* In the end every watcher is subscribed on a working connection, whether the
\* endpoint answered when it was added or only later, to some RPC call.
AllWatched == <>[](\A w \in Watchers : Watched(w))

\* After Close cancelled the context subLoop stops, whatever it was doing, unless
\* the process ends first.
LoopStops == cancelled ~> pc[Loop] \in {"idle", "stopped"} \/ Panicked
=============================================================================
