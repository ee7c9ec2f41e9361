------------------------------ MODULE WatchProofs ----------------------------
(***************************************************************************)
(* Proofs about what connects a node to a chain.                           *)
(*                                                                         *)
(* LogDelivery, for any logs and any number of subscriptions: the cache    *)
(* alone gives Remembered and RepeatOnlyBelow, however the subscriptions   *)
(* overlap.  That no log is handled twice also needs that one subscription *)
(* runs at a time: then nothing below the cache's block is still to come   *)
(* (NothingOldAhead).                                                      *)
(*                                                                         *)
(* EthClient, for any watchers, callers and losses: a watcher that lost    *)
(* its subscription is not forgotten while the connection works, because   *)
(* a signal is on its way to subLoop or subLoop is coming to it (Renewed). *)
(***************************************************************************)
EXTENDS LogDelivery, TLAPS

\* What a pair in the cache stands for: a log that was handled or did not unpack.
PairsSeen ==
  \A d \in data : \E j \in Index :
    Logs[j].tx = d[2] /\ (handled[j] > 0 \/ j \in BadLogs)

CacheInv == TypeOK /\ Remembered /\ PairsSeen /\ SkippedTxSeen

\* The list of logs has a length.
LEMMA LenType == Len(Logs) \in Nat
BY LogsInOrder

\* The elements of a sequence.
LEMMA ElementIn == ASSUME NEW S, NEW q \in Seq(S), NEW i \in 1..Len(q) PROVE q[i] \in S
OBVIOUS

\* A log of the list is one the chain emits.
LEMMA LogType ==
  ASSUME NEW i \in Index
  PROVE  /\ Logs[i].block \in Nat /\ Logs[i].block > 0 /\ Logs[i].tx \in Nat
         /\ i \in Nat /\ i >= 1 /\ i <= Len(Logs)
<1>1. Logs \in Seq([block : Nat \ {0}, tx : Nat])
  BY LogsInOrder, Zenon
<1>2. Logs[i] \in [block : Nat \ {0}, tx : Nat]
  BY <1>1, ElementIn, Zenon DEF Index
<1>3. i \in Nat /\ i >= 1 /\ i <= Len(Logs)
  BY LenType DEF Index
<1> QED BY <1>2, <1>3

\* Blocks of the list do not decrease.
LEMMA Ordered ==
  ASSUME NEW i \in Index, NEW j \in Index, i <= j
  PROVE  Logs[i].block <= Logs[j].block
<1>1. CASE i = j
  BY <1>1, LogType
<1>2. CASE i < j
  BY <1>2, LogsInOrder, Zenon DEF Index
<1> QED BY <1>1, <1>2, LogType

\* The invariant of the cache holds at the start.
LEMMA CacheInit == Init => CacheInv
BY LenType DEF Init, CacheInv, TypeOK, Remembered, PairsSeen, SkippedTxSeen, Index

\* What Exists leaves in the cache, whatever log it is called for.
LEMMA ExistsEffect ==
  ASSUME TypeOK, NEW i \in Index, Exists(Logs[i])
  PROVE  /\ blockNumber' \in Nat /\ data' \subseteq Nat \X Nat
         /\ blockNumber' >= blockNumber /\ blockNumber' >= Logs[i].block
         /\ blockNumber' = blockNumber \/ blockNumber' = Logs[i].block
         /\ <<Logs[i].block, Logs[i].tx>> \in data'
         /\ \A d \in data : d[1] >= blockNumber' => d \in data'
         /\ \A d \in data' : d \in data \/ d = <<Logs[i].block, Logs[i].tx>>
BY LogType DEF TypeOK, Exists, Cleaned

\* Receiving a log, with Exists and its cleanup, keeps it.
LEMMA CacheReceive ==
  ASSUME CacheInv, NEW s \in Subs, Receive(s)
  PROVE  CacheInv'
<1> DEFINE i == next[s]
<1>1. i \in Index /\ i + 1 \in 0..(Len(Logs) + 1) /\ 0 \in 0..(Len(Logs) + 1)
  BY LenType DEF CacheInv, TypeOK, Receive, Live, Index
<1>2. Exists(Logs[i])
  BY Zenon DEF Receive
<1>3. TypeOK
  BY Zenon DEF CacheInv
<1> HIDE DEF i
<1>4. handled' = (IF Known(Logs[i]) \/ i \in BadLogs THEN handled ELSE [handled EXCEPT ![i] = @ + 1])
  BY Zenon DEF Receive, i
<1>5. skipped' = IF Known(Logs[i]) THEN skipped \cup {i} ELSE skipped
  BY Zenon DEF Receive, i
<1>6. /\ handled' \in [Index -> Nat]
      /\ \A j \in Index : handled'[j] >= handled[j] /\ (j # i => handled'[j] = handled[j])
      /\ ~Known(Logs[i]) => handled'[i] > 0 \/ i \in BadLogs
      /\ Known(Logs[i]) \/ i \in BadLogs => handled' = handled
  BY <1>1, <1>3, <1>4 DEF TypeOK
<1>7. TypeOK'
  <2>1. next' \in [Subs -> 0..(Len(Logs) + 1)]
    BY <1>1, <1>3, Zenon DEF TypeOK, Receive, i
  <2>2. skipped' \subseteq Index
    BY <1>1, <1>3, <1>5, Zenon DEF TypeOK
  <2>3. head' = head /\ used' = used
    BY Zenon DEF Receive
  <2> QED BY <1>1, <1>2, <1>3, <1>6, <2>1, <2>2, <2>3, ExistsEffect, Zenon DEF TypeOK
<1>8. Remembered'
  <2> SUFFICES ASSUME NEW j \in Index, handled'[j] > 0, Logs[j].block >= blockNumber'
               PROVE  <<Logs[j].block, Logs[j].tx>> \in data'
    BY Zenon DEF Remembered
  <2>1. CASE j = i
    BY <2>1, <1>1, <1>2, <1>3, ExistsEffect, Zenon
  <2>2. CASE j # i
    <3>1. handled[j] > 0
      BY <2>2, <1>6, Zenon
    <3>2. Logs[j].block >= blockNumber
      <4>1. blockNumber' >= blockNumber /\ blockNumber' \in Nat
        BY <1>1, <1>2, <1>3, ExistsEffect, Zenon
      <4>2. Logs[j].block \in Nat /\ blockNumber \in Nat
        BY <1>3, LogType, Zenon DEF TypeOK
      <4> QED BY <4>1, <4>2
    <3>3. <<Logs[j].block, Logs[j].tx>> \in data
      BY <3>1, <3>2, Zenon DEF CacheInv, Remembered
    <3> QED BY <3>3, <1>1, <1>2, <1>3, ExistsEffect, Zenon
  <2> QED BY <2>1, <2>2
<1>9. Known(Logs[i]) => <<Logs[i].block, Logs[i].tx>> \in data
  BY Zenon DEF Known
<1>10. PairsSeen'
  <2> SUFFICES ASSUME NEW d \in data'
               PROVE  \E j \in Index : Logs[j].tx = d[2] /\ (handled'[j] > 0 \/ j \in BadLogs)
    BY Zenon DEF PairsSeen, Index
  <2>1. CASE d \in data
    <3>1. PICK j \in Index : Logs[j].tx = d[2] /\ (handled[j] > 0 \/ j \in BadLogs)
      BY <2>1, Zenon DEF CacheInv, PairsSeen
    <3> QED BY <3>1, <1>3, <1>6 DEF TypeOK
  <2>2. CASE d \notin data
    <3>1. d = <<Logs[i].block, Logs[i].tx>>
      BY <2>2, <1>1, <1>2, <1>3, ExistsEffect, Zenon
    <3>2. ~Known(Logs[i])
      BY <2>2, <3>1, Zenon DEF Known
    <3> QED BY <1>1, <1>6, <3>1, <3>2
  <2> QED BY <2>1, <2>2
<1>11. SkippedTxSeen'
  <2> SUFFICES ASSUME NEW k \in skipped'
               PROVE  \E j \in Index : Logs[j].tx = Logs[k].tx /\ (handled'[j] > 0 \/ j \in BadLogs)
    BY Zenon DEF SkippedTxSeen, Index
  <2>1. CASE k \in skipped
    <3>1. PICK j \in Index : Logs[j].tx = Logs[k].tx /\ (handled[j] > 0 \/ j \in BadLogs)
      BY <2>1, Zenon DEF CacheInv, SkippedTxSeen
    <3> QED BY <3>1, <1>3, <1>6 DEF TypeOK
  <2>2. CASE k \notin skipped
    <3>1. k = i /\ <<Logs[i].block, Logs[i].tx>> \in data
      BY <2>2, <1>5, <1>9, Zenon
    <3>2. PICK j \in Index : Logs[j].tx = <<Logs[i].block, Logs[i].tx>>[2] /\ (handled[j] > 0 \/ j \in BadLogs)
      BY <3>1, Zenon DEF CacheInv, PairsSeen
    <3> QED BY <3>1, <3>2, <1>3, <1>6 DEF TypeOK
  <2> QED BY <2>1, <2>2
<1> QED BY <1>7, <1>8, <1>10, <1>11 DEF CacheInv

\* Every step keeps it.
LEMMA CacheStep == CacheInv /\ [Next]_vars => CacheInv'
<1> SUFFICES ASSUME CacheInv, [Next]_vars PROVE CacheInv'
  BY Zenon
<1>1. CASE Emit
  BY <1>1, LenType, SMTT(30) DEF Emit, CacheInv, TypeOK, Remembered, PairsSeen, SkippedTxSeen, Index
<1>2. ASSUME NEW s \in Subs, WatchLogs(s) PROVE CacheInv'
  BY <1>2, LenType, SMTT(30) DEF WatchLogs, CacheInv, TypeOK, Remembered, PairsSeen, SkippedTxSeen, Index
<1>3. ASSUME NEW s \in Subs, Receive(s) PROVE CacheInv'
  BY <1>3, CacheReceive, Zenon
<1>4. ASSUME NEW s \in Subs, Drop(s) PROVE CacheInv'
  <2>1. next' \in [Subs -> 0..(Len(Logs) + 1)]
    BY <1>4, LenType DEF Drop, CacheInv, TypeOK
  <2>2. UNCHANGED <<head, used, blockNumber, data, handled, skipped>>
    BY <1>4, Zenon DEF Drop
  <2> QED BY <2>1, <2>2 DEF CacheInv, TypeOK, Remembered, PairsSeen, SkippedTxSeen, Index
<1>5. CASE UNCHANGED vars
  BY <1>5, Zenon DEF vars, CacheInv, TypeOK, Remembered, PairsSeen, SkippedTxSeen, Index
<1> QED BY <1>1, <1>2, <1>3, <1>4, <1>5 DEF Next

\* However its subscriptions overlap, a watcher's cache knows every handled log
\* of its block or a later one, and a log is skipped only if one of its
\* transaction was seen (LogCache.Exists and watchEvents).
THEOREM CacheCorrect == Spec => [](Remembered /\ SkippedTxSeen)
<1>1. Spec => []CacheInv
  BY CacheInit, CacheStep, PTL DEF Spec
<1>2. CacheInv => Remembered /\ SkippedTxSeen
  BY Zenon DEF CacheInv
<1> QED BY <1>1, <1>2, PTL

\* A log reaches the handler again only when its block is below the cache's.
THEOREM RepeatsAreOld == Spec => RepeatOnlyBelow
<1> DEFINE Old == \A i \in Index : handled'[i] > handled[i] /\ handled[i] > 0 => Logs[i].block < blockNumber
<1>1. CacheInv /\ [Next]_vars => [Old]_vars
  <2> SUFFICES ASSUME CacheInv, Next, NEW i \in Index, handled'[i] > handled[i], handled[i] > 0
               PROVE  Logs[i].block < blockNumber
    BY Zenon
  <2>1. PICK s \in Subs : Receive(s)
    BY DEF Next, Emit, WatchLogs, Drop, CacheInv, TypeOK
  <2>2. next[s] = i /\ ~Known(Logs[i])
    BY <2>1, LenType DEF Receive, CacheInv, TypeOK, Live, Index
  <2> QED BY <2>2, LogType DEF Known, CacheInv, Remembered, TypeOK
<1>2. Spec => []CacheInv
  BY CacheInit, CacheStep, PTL DEF Spec
<1>3. Spec => [][Old]_vars
  BY <1>1, <1>2, PTL DEF Spec
<1> QED BY <1>3 DEF RepeatOnlyBelow

-----------------------------------------------------------------------------
\* With one subscription at a time.
OneRuns == \A s, t \in Live : s = t

BlockWasEmitted == blockNumber = 0 \/ \E k \in Index : k <= head /\ Logs[k].block = blockNumber

NothingOldAhead ==
  \A s \in Live : \A j \in Index : j >= next[s] => Logs[j].block >= blockNumber

OnceInv == CacheInv /\ OneRuns /\ BlockWasEmitted /\ NothingOldAhead /\ HandledOnce

\* The invariant of single delivery holds at the start.
LEMMA OnceInit == Init => OnceInv
BY CacheInit DEF Init, OnceInv, OneRuns, BlockWasEmitted, NothingOldAhead, HandledOnce, Live, Index

\* A new subscription keeps it, when it is the only one.
LEMMA OnceWatch ==
  ASSUME OnceInv, NEW s \in Subs, WatchLogs(s), Live = {}
  PROVE  OnceInv'
<1>2. PICK i \in 1..(head + 1) : Starts(i, blockNumber) /\ next' = [next EXCEPT ![s] = i]
  BY Zenon DEF WatchLogs
<1>3. Live' = {s} /\ next'[s] = i
  BY <1>2 DEF Live, OnceInv, CacheInv, TypeOK
<1>4. CacheInv'
  BY CacheStep, Zenon DEF OnceInv, Next
<1>5. head' = head /\ blockNumber' = blockNumber /\ handled' = handled
  BY Zenon DEF WatchLogs
<1>6. ASSUME NEW j \in Index, j >= i PROVE Logs[j].block >= blockNumber
  <2>1. CASE i <= head
    <3>1. i \in Index
      BY <2>1, LenType DEF OnceInv, CacheInv, TypeOK, Index
    <3>2. Logs[i].block >= blockNumber
      BY <1>2, <2>1, LenType DEF Starts, OnceInv, CacheInv, TypeOK
    <3>3. Logs[i].block <= Logs[j].block
      BY <1>6, <3>1, Ordered, Zenon
    <3> QED BY <3>1, <3>2, <3>3, LogType DEF OnceInv, CacheInv, TypeOK
  <2>2. CASE i = head + 1
    <3>1. CASE blockNumber = 0
      BY <3>1, LogType
    <3>2. CASE blockNumber # 0
      <4>1. PICK k \in Index : k <= head /\ Logs[k].block = blockNumber
        BY <3>2, Zenon DEF OnceInv, BlockWasEmitted
      <4>2. k < j
        BY <4>1, <2>2, <1>6, LogType DEF OnceInv, CacheInv, TypeOK
      <4> QED BY <4>1, <4>2, LogType, Ordered
    <3> QED BY <3>1, <3>2
  <2> QED BY <1>2, <2>1, <2>2 DEF OnceInv, CacheInv, TypeOK
<1>7. NothingOldAhead'
  BY <1>3, <1>5, <1>6, Zenon DEF NothingOldAhead, Index
<1> QED BY <1>3, <1>4, <1>5, <1>7 DEF OnceInv, OneRuns, BlockWasEmitted, HandledOnce, Index

\* So does receiving a log.
LEMMA OnceReceive ==
  ASSUME OnceInv, NEW s \in Subs, Receive(s)
  PROVE  OnceInv'
<1> DEFINE i == next[s]
<1>1. i \in Index /\ i <= head /\ s \in Live
  BY LenType DEF OnceInv, CacheInv, TypeOK, Receive, Live, Index
<1>2. CacheInv /\ TypeOK /\ Exists(Logs[i])
  BY Zenon DEF Receive, OnceInv, CacheInv
<1>3. CacheInv'
  BY CacheStep, <1>2, Zenon DEF Next
<1>4. head' = head /\ (next'[s] = 0 \/ next'[s] = i + 1) /\ \A t \in Subs : t # s => next'[t] = next[t]
  BY <1>2, Zenon DEF Receive, TypeOK
<1>5. Logs[i].block >= blockNumber
  BY <1>1, LogType DEF OnceInv, NothingOldAhead
<1>6. blockNumber' = Logs[i].block
  BY <1>2, <1>5, Zenon DEF Exists
<1>7. handled' = (IF Known(Logs[i]) \/ i \in BadLogs THEN handled ELSE [handled EXCEPT ![i] = @ + 1])
  BY DEF Receive
<1> HIDE DEF i
<1>8. Live' \subseteq Live
  BY <1>1, <1>4, Zenon DEF Live
<1>9. OneRuns'
  BY <1>8, Zenon DEF OneRuns, OnceInv
<1>10. BlockWasEmitted'
  BY <1>1, <1>4, <1>6, Zenon DEF BlockWasEmitted, Index
<1>11. NothingOldAhead'
  <2> SUFFICES ASSUME NEW t \in Live', NEW j \in Index, j >= next'[t] PROVE Logs[j].block >= blockNumber'
    BY Zenon DEF NothingOldAhead, Index
  <2>1. t = s
    BY <1>1, <1>8, Zenon DEF OnceInv, OneRuns
  <2>2. next'[t] = i + 1
    BY <2>1, <1>4, Zenon DEF Live
  <2> QED BY <2>2, <1>1, <1>6, LogType, Ordered
<1>12. HandledOnce'
  <2>1. ~Known(Logs[i]) => handled[i] = 0
    BY <1>1, <1>2, <1>5, LogType DEF CacheInv, Remembered, Known, TypeOK
  <2> QED BY <2>1, <1>1, <1>2, <1>7 DEF HandledOnce, OnceInv, TypeOK, Index
<1> QED BY <1>3, <1>9, <1>10, <1>11, <1>12 DEF OnceInv

\* With one subscription at a time every step keeps it.
LEMMA OnceStep ==
  ASSUME OnceInv, [Next]_vars, \A s \in Subs : WatchLogs(s) => Live = {}
  PROVE  OnceInv'
<1>0. CacheInv'
  BY CacheStep, Zenon DEF OnceInv
<1>1. CASE Emit
  <2>1. /\ Live' = Live /\ next' = next /\ blockNumber' = blockNumber /\ handled' = handled /\ head' = head + 1
    BY <1>1, Zenon DEF Emit, Live
  <2>2. BlockWasEmitted'
    BY <2>1, LogType DEF OnceInv, BlockWasEmitted, CacheInv, TypeOK, Index
  <2> QED BY <1>0, <2>1, <2>2 DEF OnceInv, OneRuns, NothingOldAhead, HandledOnce, Index
<1>2. ASSUME NEW s \in Subs, WatchLogs(s) PROVE OnceInv'
  BY <1>2, OnceWatch, Zenon
<1>3. ASSUME NEW s \in Subs, Receive(s) PROVE OnceInv'
  BY <1>3, OnceReceive, Zenon
<1>4. ASSUME NEW s \in Subs, Drop(s) PROVE OnceInv'
  <2>1. /\ Live' \subseteq Live /\ \A t \in Live' : next'[t] = next[t]
        /\ blockNumber' = blockNumber /\ handled' = handled /\ head' = head
    BY <1>4, Zenon DEF Drop, Live, OnceInv, CacheInv, TypeOK
  <2> QED BY <1>0, <2>1 DEF OnceInv, OneRuns, BlockWasEmitted, NothingOldAhead, HandledOnce, Index
<1>5. CASE UNCHANGED vars
  BY <1>0, <1>5, Zenon DEF vars, OnceInv, OneRuns, BlockWasEmitted, NothingOldAhead, HandledOnce, Live, Index
<1> QED BY <1>1, <1>2, <1>3, <1>4, <1>5 DEF Next

-----------------------------------------------------------------------------
\* The client and its watchers: EthClient, for any watchers, callers and closers.
CONSTANTS
  Watchers, Callers, Loop, Close, Remove, Closers, InitiallyUp, MaxLosses, MaxRefusals,
  MaxBadLogs, MaxSubs, None
VARIABLES
  up, lost, losses, refusals, badLogs, ethClient, dialled, connected, recreated, mx, subLoopMx,
  wmx, subLoopInitialized, reSubWatchers, reconnectOnTimer, cancelled, watchers, subscribed,
  sub, made, pc, conn, on, todo

Client == INSTANCE EthClient

clientVars == <<Client!network, Client!locks, Client!client, Client!loopVars, Client!watch,
                pc, conn, on, todo>>

Everyone == Client!Procs \cup Client!Goroutines
Handlers == {Loop} \cup Closers \cup Watchers

\* The types of EthClient; a subscription that was not made has no goroutine.
CTypes ==
  /\ refusals \in Nat /\ lost \in Nat /\ dialled \in Nat
  /\ ethClient \in Nat /\ ethClient <= dialled
  /\ watchers \subseteq Watchers /\ subscribed \in [Watchers -> BOOLEAN]
  /\ made \in [Watchers -> Nat]
  /\ pc = [p \in Everyone |-> pc[p]] /\ conn \in [Everyone -> Nat]
  /\ on \in [Handlers -> Watchers \cup {None}] /\ todo \in [{Loop} \cup Closers -> SUBSET Watchers]
  /\ \A w \in Watchers : on[w] = w
Unmade == \A w \in Watchers, i \in 1..MaxSubs : i > made[w] => pc[<<w, i>>] = "idle"

\* The loop runs when a watcher waits for it, and knows whether there is a connection.
Started ==
  /\ ~cancelled /\ (connected \/ ethClient = 0)
  /\ pc[Loop] # "idle" => subLoopInitialized
  /\ \A w \in Watchers : pc[w] \notin {"idle", "start"} => subLoopInitialized

\* The watchers the loop has at hand.
AtHand ==
  /\ on[Loop] \in watchers \cup {None} /\ todo[Loop] \subseteq watchers
  /\ pc[Loop] \in {"idle", "select", "decide", "all", "unsubscribed"} => on[Loop] = None
  /\ pc[Loop] # "each" /\ on[Loop] = None => todo[Loop] = {}
  /\ pc[Loop] \in {"lock", "flag"} => on[Loop] # None

\* A signal on its way to the loop, or taken and not yet followed.
Pending == \/ reSubWatchers = 1
           \/ \E p \in Everyone : pc[p] \in {"signal", "send"}
           \/ pc[Loop] \in {"decide", "all", "unsubscribed"}

\* A watcher that was subscribed and is no more, and one the loop is coming to.
Needy(w) == w \in watchers /\ ~subscribed[w] /\ pc[w] = "done"
Coming(w) == /\ pc[Loop] \in {"each", "lock", "get", "return", "got", "flag"}
             /\ w \in todo[Loop] \/ (w = on[Loop] /\ pc[Loop] # "each")

\* With a working connection a signal is pending, or the loop is coming to every needy
\* watcher, with that connection.
Attended ==
  /\ \A w \in Watchers : Needy(w) => Coming(w)
  /\ on[Loop] # None => pc[Loop] # "failed" /\ (pc[Loop] = "got" => conn[Loop] > lost)
Renewed == ethClient > lost => Pending \/ Attended

CInv == CTypes /\ Unmade /\ (Client!Undisturbed => Started /\ AtHand /\ Renewed)

\* The goroutines of EthClient.
LEMMA ClientSetting ==
  ASSUME Client!Setting
  PROVE  /\ None \notin Watchers /\ Loop \notin Watchers \cup Callers \cup Closers
         /\ Callers \cap Closers = {} /\ Watchers \cap (Callers \cup Closers) = {}
         /\ MaxSubs \in Nat
         /\ Client!Procs \cap Client!Goroutines = {}
         /\ Client!Procs = {Loop} \cup Closers \cup Watchers \cup Callers
         /\ Loop \in Everyone /\ Watchers \subseteq Everyone /\ Callers \subseteq Everyone
         /\ Closers \subseteq Everyone
BY Zenon DEF Client!Setting, Client!Procs, Client!Goroutines, Everyone

\* Nothing has been dialled.
LEMMA ClientInit == ASSUME Client!Setting PROVE Client!Init => CInv
<1> SUFFICES ASSUME Client!Init PROVE CInv
  BY Zenon
<1>1. /\ refusals = 0 /\ lost = 0 /\ dialled = 0 /\ ethClient = 0 /\ watchers = {} /\ ~cancelled
      /\ subscribed = [w \in Watchers |-> FALSE] /\ made = [w \in Watchers |-> 0]
      /\ pc = [p \in Everyone |-> "idle"] /\ conn = [p \in Everyone |-> 0]
      /\ on = [p \in Handlers |-> IF p \in Watchers THEN p ELSE None]
      /\ todo = [p \in {Loop} \cup Closers |-> {}]
  BY Zenon DEF Client!Init, Everyone, Handlers
<1>2. 0 \in Nat /\ 0 <= 0 /\ ~(0 > 0)
  OBVIOUS
<1>3. CTypes
  BY <1>1, <1>2, Zenon DEF CTypes, Handlers
<1>4. Unmade
  BY <1>1, Zenon DEF Unmade, Everyone, Client!Goroutines
<1>5. Started /\ AtHand
  BY <1>1, ClientSetting, Zenon DEF Started, AtHand, Handlers
<1> QED BY <1>1, <1>2, <1>3, <1>4, <1>5, Zenon DEF CInv, Renewed

\* One goroutine goes on.
LEMMA Moves ==
  ASSUME CTypes, NEW p \in Everyone, NEW l, Client!Goto(p, l)
  PROVE  /\ pc' = [q \in Everyone |-> pc'[q]] /\ pc'[p] = l
         /\ \A q \in Everyone \ {p} : pc'[q] = pc[q]
BY Zenon DEF CTypes, Client!Goto

\* A step of another goroutine than the loop, that leaves the signals and the watchers of the
\* loop as they are or signals itself.
LEMMA OthersKeep ==
  ASSUME Started, AtHand, Renewed, Loop \in Everyone,
         pc'[Loop] = pc[Loop], conn'[Loop] = conn[Loop], UNCHANGED <<on, todo, cancelled>>,
         watchers \subseteq watchers', lost' = lost \/ ~(ethClient' > lost'),
         Pending' \/ (ethClient' > lost' => ethClient > lost),
         Pending => Pending',
         \A w \in Watchers : Needy(w)' => Needy(w) \/ Pending',
         connected' \/ ethClient' = 0,
         subLoopInitialized => subLoopInitialized',
         \A w \in Watchers : pc'[w] \notin {"idle", "start"} => subLoopInitialized'
  PROVE  Started' /\ AtHand' /\ Renewed'
<1>1. Started'
  BY Zenon DEF Started
<1>2. AtHand'
  BY Zenon DEF AtHand
<1>3. Renewed'
  <2> SUFFICES ASSUME ethClient' > lost', ~Pending' PROVE Attended'
    BY Zenon DEF Renewed
  <2>1. Attended /\ lost' = lost
    BY Zenon DEF Renewed
  <2> QED BY <2>1, Zenon DEF Attended, Coming
<1> QED BY <1>1, <1>2, <1>3, Zenon

\* What has no goroutine is not moved.
LEMMA UnmadeKept ==
  ASSUME Client!Setting, Unmade, made' = made,
         NEW p \in Everyone, p \in Client!Procs \/ pc[p] # "idle",
         \A q \in Everyone \ {p} : pc'[q] = pc[q]
  PROVE  Unmade'
<1> SUFFICES ASSUME NEW w \in Watchers, NEW i \in 1..MaxSubs, i > made[w]
             PROVE  pc'[<<w, i>>] = "idle"
  BY Zenon DEF Unmade
<1>1. <<w, i>> \in Client!Goroutines /\ pc[<<w, i>>] = "idle"
  BY Zenon DEF Client!Goroutines, Unmade
<1> QED BY <1>1, ClientSetting, Zenon DEF Everyone

\* Only a closer or a refusal disturbs.
LEMMA Calm ==
  ASSUME Client!Setting, CTypes, refusals' = refusals \/ refusals' = refusals + 1,
         NEW p \in Everyone \ Closers, \A q \in Everyone \ {p} : pc'[q] = pc[q],
         Client!Undisturbed'
  PROVE  Client!Undisturbed /\ refusals' = refusals
<1>1. refusals \in Nat /\ refusals' = 0
  BY Zenon DEF CTypes, Client!Undisturbed
<1>2. refusals = 0 /\ refusals' = refusals
  BY <1>1
<1> QED BY <1>2, ClientSetting, Zenon DEF Client!Undisturbed

\* A signal stays until the loop takes it.
LEMMA StillPending ==
  ASSUME NEW p \in Everyone \ {Loop}, pc[p] \notin {"signal", "send"}, Loop \in Everyone,
         \A q \in Everyone \ {p} : pc'[q] = pc[q], reSubWatchers' = reSubWatchers
  PROVE  Pending => Pending'
BY Zenon DEF Pending

\* No connection is none that works.
LEMMA Zero == ASSUME CTypes PROVE ~(0 > lost)
BY DEF CTypes

-----------------------------------------------------------------------------
\* Connections are lost: what is known is dead.
LEMMA LoseKeeps == ASSUME Client!Setting, CInv, Client!Lose PROVE CInv'
<1>1. /\ lost' = dialled
      /\ UNCHANGED <<refusals, ethClient, dialled, connected, subLoopInitialized, reSubWatchers,
                     cancelled, watchers, subscribed, made, pc, conn, on, todo>>
  BY Zenon DEF Client!Lose, Client!client, Client!loopVars, Client!watch
<1>2. CTypes' /\ Unmade'
  BY <1>1, Zenon DEF CInv, CTypes, Unmade
<1>3. ~(ethClient' > lost')
  BY <1>1 DEF CInv, CTypes
<1>4. Client!Undisturbed' => Started' /\ AtHand'
  BY <1>1, Zenon DEF CInv, Started, AtHand, Client!Undisturbed
<1> QED BY <1>2, <1>3, <1>4, Zenon DEF CInv, Renewed

\* The endpoint answers again.
LEMMA RestoreKeeps == ASSUME Client!Setting, CInv, Client!Restore PROVE CInv'
<1>1. UNCHANGED <<lost, refusals, ethClient, dialled, connected, subLoopInitialized, reSubWatchers,
                  cancelled, watchers, subscribed, made, pc, conn, on, todo>>
  BY Zenon DEF Client!Restore, Client!client, Client!loopVars, Client!watch
<1> QED BY <1>1, Zenon DEF CInv, CTypes, Unmade, Started, AtHand, Renewed, Attended, Pending,
                           Needy, Coming, Client!Undisturbed

\* getClient dials and has a signal to send, or has no connection, or keeps the one it has.
LEMMA GetClientKeeps ==
  ASSUME Client!Setting, CInv, NEW p \in {Loop} \cup Watchers \cup Callers, Client!GetClient(p)
  PROVE  CInv'
<1>0. p \in Everyone /\ p \notin Closers /\ p \in Client!Procs /\ Loop \in Everyone
  BY ClientSetting, Zenon
<1>1. /\ pc[p] = "get" /\ UNCHANGED <<lost, refusals, subLoopInitialized, reSubWatchers, cancelled,
                                     watchers, subscribed, made, on, todo>>
  BY Zenon DEF Client!GetClient, Client!network, Client!loopVars, Client!watch
<1> DEFINE New == /\ pc' = [pc EXCEPT ![p] = "signal"] /\ connected'
                  /\ ethClient' = dialled + 1 /\ dialled' = dialled + 1
                  /\ conn' = [conn EXCEPT ![p] = dialled + 1]
           Nil == /\ ethClient' = 0 /\ UNCHANGED <<dialled, conn>>
                  /\ pc' = pc \/ pc' = [pc EXCEPT ![p] = "failed"]
           Kept == /\ pc' = [pc EXCEPT ![p] = "return"] /\ connected'
                   /\ UNCHANGED <<ethClient, dialled, conn>>
<1>2. New \/ Nil \/ Kept
  BY Zenon DEF Client!GetClient, Client!Goto
<1>3. /\ pc' = [q \in Everyone |-> pc'[q]] /\ \A q \in Everyone \ {p} : pc'[q] = pc[q]
      /\ pc'[p] \in {"signal", "get", "failed", "return"}
  BY <1>0, <1>1, <1>2, Zenon DEF CInv, CTypes
<1>4. CTypes'
  <2>1. CASE New
    <3>1. dialled + 1 \in Nat /\ dialled + 1 <= dialled + 1
      BY DEF CInv, CTypes
    <3> QED BY <1>0, <1>1, <1>3, <2>1, <3>1, Zenon DEF CInv, CTypes
  <2>2. CASE Nil
    <3>1. 0 \in Nat /\ 0 <= dialled
      BY DEF CInv, CTypes
    <3> QED BY <1>0, <1>1, <1>3, <2>2, <3>1, Zenon DEF CInv, CTypes
  <2>3. CASE Kept
    BY <1>0, <1>1, <1>3, <2>3, Zenon DEF CInv, CTypes
  <2> QED BY <1>2, <2>1, <2>2, <2>3, Zenon
<1>5. Unmade'
  BY <1>0, <1>1, <1>3, UnmadeKept, Zenon DEF CInv
<1> SUFFICES ASSUME Client!Undisturbed' PROVE Started' /\ AtHand' /\ Renewed'
  BY <1>4, <1>5, Zenon DEF CInv
<1>6. Started /\ AtHand /\ Renewed
  BY <1>0, <1>1, <1>3, Calm, Zenon DEF CInv
<1>7. connected' \/ ethClient' = 0
  BY <1>2, Zenon
<1>8. Started'
  BY <1>0, <1>1, <1>3, <1>6, <1>7, ClientSetting, Zenon DEF Started
<1>9. AtHand'
  BY <1>0, <1>1, <1>3, <1>6, Zenon DEF AtHand
<1>10. Renewed'
  <2>1. CASE New
    BY <1>0, <2>1, Zenon DEF Renewed, Pending, CInv, CTypes
  <2>2. CASE Nil
    BY <1>1, <2>2, Zero, Zenon DEF Renewed, CInv
  <2>3. CASE Kept
    <3>1. pc'[p] = "return"
      BY <1>0, <2>3, Zenon DEF CInv, CTypes
    <3>2. Pending => Pending'
      BY <1>0, <1>1, <1>3, <3>1, Zenon DEF Pending
    <3>3. ASSUME NEW w \in Watchers, Needy(w)' PROVE Needy(w)
      BY <1>1, <1>3, <3>1, <3>3, ClientSetting, Zenon DEF Needy
    <3>4. Attended => Attended'
      BY <1>0, <1>1, <1>3, <2>3, <3>1, <3>3, Zenon DEF Attended, Coming
    <3> QED BY <1>1, <1>6, <2>3, <3>2, <3>4, Zenon DEF Renewed
  <2> QED BY <1>2, <2>1, <2>2, <2>3, Zenon
<1> QED BY <1>8, <1>9, <1>10, Zenon

\* getClient returns the connection as it is by then.
LEMMA ReturnKeeps ==
  ASSUME Client!Setting, CInv, NEW p \in {Loop} \cup Watchers \cup Callers, Client!ReturnClient(p)
  PROVE  CInv'
<1>0. p \in Everyone /\ p \notin Closers /\ p \in Client!Procs /\ Loop \in Everyone
  BY ClientSetting, Zenon
<1>1. /\ pc[p] = "return" /\ conn' = [conn EXCEPT ![p] = ethClient]
      /\ UNCHANGED <<lost, refusals, ethClient, dialled, connected, subLoopInitialized,
                     reSubWatchers, cancelled, watchers, subscribed, made, on, todo>>
  BY Zenon DEF Client!ReturnClient, Client!network, Client!client, Client!loopVars, Client!watch
<1>2. \/ pc' = [pc EXCEPT ![p] = "panic"] /\ ethClient = 0
      \/ pc' = [pc EXCEPT ![p] = "got"]
  BY Zenon DEF Client!ReturnClient, Client!Goto
<1>3. /\ pc' = [q \in Everyone |-> pc'[q]] /\ \A q \in Everyone \ {p} : pc'[q] = pc[q]
      /\ (pc'[p] = "panic" /\ ethClient = 0) \/ pc'[p] = "got"
  BY <1>0, <1>2, Zenon DEF CInv, CTypes
<1>4. CTypes' /\ Unmade'
  BY <1>0, <1>1, <1>3, UnmadeKept, Zenon DEF CInv, CTypes
<1> SUFFICES ASSUME Client!Undisturbed' PROVE Started' /\ AtHand' /\ Renewed'
  BY <1>4, Zenon DEF CInv
<1>5. Started /\ AtHand /\ Renewed
  BY <1>0, <1>1, <1>3, Calm, Zenon DEF CInv
<1>6. Started'
  BY <1>0, <1>1, <1>3, <1>5, ClientSetting, Zenon DEF Started
<1>7. AtHand'
  BY <1>0, <1>1, <1>3, <1>5, Zenon DEF AtHand
<1>8. Renewed'
  <2> SUFFICES ASSUME ethClient > lost PROVE Pending' \/ Attended'
    BY <1>1, Zenon DEF Renewed
  <2>1. pc'[p] = "got"
    BY <1>3, Zero, Zenon DEF CInv
  <2>2. Pending => Pending'
    BY <1>0, <1>1, <1>3, <2>1, Zenon DEF Pending
  <2>3. ASSUME NEW w \in Watchers, Needy(w)' PROVE Needy(w)
    BY <1>1, <1>3, <2>1, <2>3, ClientSetting, Zenon DEF Needy
  <2>4. conn'[p] = ethClient /\ \A q \in Everyone \ {p} : conn'[q] = conn[q]
    BY <1>0, <1>1, Zenon DEF CInv, CTypes
  <2>5. Attended => Attended'
    BY <1>0, <1>1, <1>3, <2>1, <2>3, <2>4, Zenon DEF Attended, Coming
  <2> QED BY <1>5, <2>2, <2>5, Zenon DEF Renewed
<1> QED BY <1>6, <1>7, <1>8, Zenon

\* A signal is dropped only when no loop runs that could take it.
LEMMA LockSubLoopKeeps ==
  ASSUME Client!Setting, CInv, NEW p \in {Loop} \cup Watchers \cup Callers \cup Client!Goroutines,
         Client!LockSubLoop(p)
  PROVE  CInv'
<1>0. p \in Everyone /\ p \notin Closers /\ Loop \in Everyone
  BY ClientSetting, Zenon DEF Everyone
<1>1. /\ pc[p] = "signal"
      /\ UNCHANGED <<lost, refusals, ethClient, dialled, connected, subLoopInitialized,
                     reSubWatchers, cancelled, watchers, subscribed, made, conn, on, todo>>
  BY Zenon DEF Client!LockSubLoop, Client!network, Client!client, Client!loopVars, Client!watch
<1>2. \/ pc' = [pc EXCEPT ![p] = "send"] /\ subLoopInitialized
      \/ \E l \in {"ended", "got"} : pc' = [pc EXCEPT ![p] = l] /\ ~subLoopInitialized
  BY Zenon DEF Client!LockSubLoop, Client!Goto, Client!AfterSignal
<1>3. /\ pc' = [q \in Everyone |-> pc'[q]] /\ \A q \in Everyone \ {p} : pc'[q] = pc[q]
      /\ IF subLoopInitialized THEN pc'[p] = "send" ELSE pc'[p] \in {"ended", "got"}
  BY <1>0, <1>2, Zenon DEF CInv, CTypes
<1>4. CTypes' /\ Unmade'
  BY <1>0, <1>1, <1>3, UnmadeKept, Zenon DEF CInv, CTypes
<1> SUFFICES ASSUME Client!Undisturbed' PROVE Started' /\ AtHand' /\ Renewed'
  BY <1>4, Zenon DEF CInv
<1>5. Started /\ AtHand /\ Renewed
  BY <1>0, <1>1, <1>3, Calm, Zenon DEF CInv
<1>6. Started'
  BY <1>0, <1>1, <1>3, <1>5, ClientSetting, Zenon DEF Started
<1>7. AtHand'
  BY <1>0, <1>1, <1>3, <1>5, Zenon DEF AtHand
<1>8. Renewed'
  <2>1. CASE subLoopInitialized
    BY <1>0, <1>3, <2>1, Zenon DEF Renewed, Pending
  <2>2. CASE ~subLoopInitialized
    <3>1. pc[Loop] = "idle" /\ on[Loop] = None /\ p # Loop
          /\ \A w \in Watchers : pc[w] \in {"idle", "start"} /\ p # w
      BY <1>1, <1>5, <2>2, Zenon DEF Started, AtHand
    <3> QED BY <1>0, <1>1, <1>3, <3>1, ClientSetting, Zenon DEF Renewed, Attended, Needy
  <2> QED BY <2>1, <2>2, Zenon
<1> QED BY <1>6, <1>7, <1>8, Zenon

\* The signal is in the channel.
LEMMA SendKeeps ==
  ASSUME Client!Setting, CInv, NEW p \in {Loop} \cup Watchers \cup Callers \cup Client!Goroutines,
         Client!Send(p)
  PROVE  CInv'
<1>0. p \in Everyone /\ p \notin Closers /\ Loop \in Everyone
  BY ClientSetting, Zenon DEF Everyone
<1>1. /\ pc[p] = "send" /\ reSubWatchers' = 1
      /\ UNCHANGED <<lost, refusals, ethClient, dialled, connected, subLoopInitialized,
                     cancelled, watchers, subscribed, made, conn, on, todo>>
  BY Zenon DEF Client!Send, Client!network, Client!client, Client!watch
<1>2. \E l \in {"ended", "got"} : pc' = [pc EXCEPT ![p] = l]
  BY Zenon DEF Client!Send, Client!Goto, Client!AfterSignal
<1>3. /\ pc' = [q \in Everyone |-> pc'[q]] /\ \A q \in Everyone \ {p} : pc'[q] = pc[q]
      /\ pc'[p] \in {"ended", "got"}
  BY <1>0, <1>2, Zenon DEF CInv, CTypes
<1>4. CTypes' /\ Unmade'
  BY <1>0, <1>1, <1>3, UnmadeKept, Zenon DEF CInv, CTypes
<1> SUFFICES ASSUME Client!Undisturbed' PROVE Started' /\ AtHand' /\ Renewed'
  BY <1>4, Zenon DEF CInv
<1>5. Started /\ AtHand /\ Renewed
  BY <1>0, <1>1, <1>3, Calm, Zenon DEF CInv
<1>6. Started' /\ AtHand'
  BY <1>0, <1>1, <1>3, <1>5, ClientSetting, Zenon DEF Started, AtHand
<1>7. Renewed'
  BY <1>1, Zenon DEF Renewed, Pending
<1> QED BY <1>6, <1>7, Zenon

-----------------------------------------------------------------------------
\* A watcher is added, its subscription is under way.
LEMMA AddWatcherKeeps ==
  ASSUME Client!Setting, CInv, NEW p \in Watchers, Client!AddWatcher(p)
  PROVE  CInv'
<1>0. p \in Everyone /\ p \notin Closers /\ p # Loop /\ p \in Client!Procs /\ Loop \in Everyone
  BY ClientSetting, Zenon
<1>1. /\ pc[p] = "idle" /\ watchers' = watchers \cup {p} /\ pc' = [pc EXCEPT ![p] = "start"]
      /\ UNCHANGED <<lost, refusals, ethClient, dialled, connected, subLoopInitialized,
                     reSubWatchers, cancelled, subscribed, made, conn, on, todo>>
  BY Zenon DEF Client!AddWatcher, Client!network, Client!client, Client!loopVars, Client!Goto
<1>2. /\ pc' = [q \in Everyone |-> pc'[q]] /\ \A q \in Everyone \ {p} : pc'[q] = pc[q]
      /\ pc'[p] = "start"
  BY <1>0, <1>1, Zenon DEF CInv, CTypes
<1>3. CTypes' /\ Unmade'
  BY <1>0, <1>1, <1>2, UnmadeKept, Zenon DEF CInv, CTypes
<1> SUFFICES ASSUME Client!Undisturbed' PROVE Started' /\ AtHand' /\ Renewed'
  BY <1>3, Zenon DEF CInv
<1>4. Started /\ AtHand /\ Renewed
  BY <1>0, <1>1, <1>2, Calm, Zenon DEF CInv
<1>5. Pending => Pending'
  BY <1>0, <1>1, <1>2, StillPending, Zenon
<1>6. \A w \in Watchers : Needy(w)' => Needy(w)
  BY <1>1, <1>2, ClientSetting, Zenon DEF Needy
<1>7. \A w \in Watchers : pc'[w] \notin {"idle", "start"} => subLoopInitialized'
  BY <1>1, <1>2, <1>4, ClientSetting, Zenon DEF Started
<1> QED BY <1>0, <1>1, <1>2, <1>4, <1>5, <1>6, <1>7, OthersKeep, Zenon DEF Started

\* The first watcher starts the loop.
LEMMA StartSubLoopKeeps ==
  ASSUME Client!Setting, CInv, NEW p \in Watchers, Client!StartSubLoop(p)
  PROVE  CInv'
<1>0. p \in Everyone /\ p \notin Closers /\ p # Loop /\ p \in Client!Procs /\ Loop \in Everyone
  BY ClientSetting, Zenon
<1>1. /\ pc[p] = "start" /\ subLoopInitialized'
      /\ pc' = [pc EXCEPT ![p] = "lock", ![Loop] = IF subLoopInitialized THEN @ ELSE "select"]
      /\ UNCHANGED <<lost, refusals, ethClient, dialled, connected, reSubWatchers, cancelled,
                     watchers, subscribed, made, conn, on, todo>>
  BY Zenon DEF Client!StartSubLoop, Client!network, Client!client, Client!watch
<1>2. /\ pc' = [q \in Everyone |-> pc'[q]] /\ \A q \in Everyone \ {p, Loop} : pc'[q] = pc[q]
      /\ pc'[p] = "lock" /\ pc'[Loop] = IF subLoopInitialized THEN pc[Loop] ELSE "select"
  BY <1>0, <1>1, Zenon DEF CInv, CTypes
<1>3. CTypes'
  BY <1>0, <1>1, <1>2, Zenon DEF CInv, CTypes
<1>4. Unmade'
  <2>1. \A q \in Client!Goroutines : pc'[q] = pc[q]
    BY <1>0, <1>2, ClientSetting, Zenon DEF Everyone
  <2>2. \A w \in Watchers, i \in 1..MaxSubs : <<w, i>> \in Client!Goroutines
    BY Zenon DEF Client!Goroutines
  <2> QED BY <1>1, <2>1, <2>2, Zenon DEF CInv, Unmade
<1> SUFFICES ASSUME Client!Undisturbed' PROVE Started' /\ AtHand' /\ Renewed'
  BY <1>3, <1>4, Zenon DEF CInv
<1>5. Client!Undisturbed
  BY <1>0, <1>1, <1>2, ClientSetting, Zenon DEF Client!Undisturbed
<1>6. Started /\ AtHand /\ Renewed
  BY <1>5, Zenon DEF CInv
<1>7. \A w \in Watchers : Needy(w)' => Needy(w)
  BY <1>1, <1>2, ClientSetting, Zenon DEF Needy
<1>8. CASE subLoopInitialized
  <2>1. \A q \in Everyone \ {p} : pc'[q] = pc[q]
    BY <1>2, <1>8, Zenon
  <2>2. Pending => Pending'
    BY <1>0, <1>1, <2>1, StillPending, Zenon
  <2> QED BY <1>0, <1>1, <1>2, <1>6, <1>7, <1>8, <2>1, <2>2, OthersKeep, Zenon DEF Started
<1>9. CASE ~subLoopInitialized
  <2>1. /\ pc[Loop] = "idle" /\ on[Loop] = None /\ todo[Loop] = {} /\ pc'[Loop] = "select"
        /\ \A w \in Watchers : pc[w] # "done"
    BY <1>2, <1>6, <1>9, Zenon DEF Started, AtHand
  <2>2. Started' /\ AtHand'
    BY <1>1, <1>6, <2>1, Zenon DEF Started, AtHand
  <2>3. Attended'
    BY <1>1, <1>7, <2>1, Zenon DEF Attended, Needy
  <2> QED BY <2>2, <2>3, Zenon DEF Renewed
<1> QED BY <1>8, <1>9, Zenon

\* Subscribe and Resubscribe take the mutex of the watcher.
LEMMA LockWatcherKeeps ==
  ASSUME Client!Setting, CInv, NEW p \in {Loop} \cup Watchers, Client!LockWatcher(p)
  PROVE  CInv'
<1>0. p \in Everyone /\ p \notin Closers /\ p \in Client!Procs /\ Loop \in Everyone
  BY ClientSetting, Zenon
<1>1. /\ pc[p] = "lock" /\ pc' = [pc EXCEPT ![p] = "get"]
      /\ UNCHANGED <<lost, refusals, ethClient, dialled, connected, subLoopInitialized,
                     reSubWatchers, cancelled, watchers, subscribed, made, conn, on, todo>>
  BY <1>0, Zenon DEF Client!LockWatcher, Client!network, Client!client, Client!loopVars,
                     Client!watch, Client!Goto
<1>2. /\ pc' = [q \in Everyone |-> pc'[q]] /\ \A q \in Everyone \ {p} : pc'[q] = pc[q]
      /\ pc'[p] = "get"
  BY <1>0, <1>1, Zenon DEF CInv, CTypes
<1>3. CTypes' /\ Unmade'
  BY <1>0, <1>1, <1>2, UnmadeKept, Zenon DEF CInv, CTypes
<1> SUFFICES ASSUME Client!Undisturbed' PROVE Started' /\ AtHand' /\ Renewed'
  BY <1>3, Zenon DEF CInv
<1>4. Started /\ AtHand /\ Renewed
  BY <1>0, <1>1, <1>2, Calm, Zenon DEF CInv
<1>5. Started' /\ AtHand'
  BY <1>0, <1>1, <1>2, <1>4, ClientSetting, Zenon DEF Started, AtHand
<1>6. Pending => Pending'
  BY <1>0, <1>1, <1>2, Zenon DEF Pending
<1>7. \A w \in Watchers : Needy(w)' => Needy(w)
  BY <1>1, <1>2, ClientSetting, Zenon DEF Needy
<1>8. Attended => Attended'
  BY <1>0, <1>1, <1>2, <1>7, Zenon DEF Attended, Coming
<1> QED BY <1>1, <1>4, <1>5, <1>6, <1>8, Zenon DEF Renewed

\* A subscription is made, with a goroutine of its own.
LEMMA SubscribeKeeps ==
  ASSUME Client!Setting, CInv, NEW p \in {Loop} \cup Watchers, Client!SubscribeFilterLogs(p)
  PROVE  CInv'
<1> DEFINE w == on[p]
           g == <<w, made[w] + 1>>
<1>0. /\ p \in Everyone /\ p \notin Closers /\ p \in Client!Procs /\ Loop \in Everyone
      /\ w \in Watchers \cup {None}
  BY ClientSetting, Zenon DEF CInv, CTypes, Handlers
<1>1. /\ pc[p] = "got" /\ w # None /\ made[w] < MaxSubs
      /\ made' = [made EXCEPT ![w] = @ + 1] /\ conn' = [conn EXCEPT ![g] = conn[p]]
      /\ pc' = [pc EXCEPT ![p] = "flag", ![g] = "watching"]
      /\ UNCHANGED <<lost, refusals, ethClient, dialled, connected, subLoopInitialized,
                     reSubWatchers, cancelled, watchers, subscribed, on, todo>>
  BY Zenon DEF Client!SubscribeFilterLogs, Client!network, Client!client, Client!loopVars
<1>2. w \in Watchers /\ made[w] \in Nat
  BY <1>0, <1>1, Zenon DEF CInv, CTypes
<1>3. made[w] + 1 \in 1..MaxSubs /\ made[w] + 1 > made[w] /\ made[w] + 1 \in Nat
  BY <1>1, <1>2, ClientSetting
<1>4. g \in Client!Goroutines /\ pc[g] = "idle"
  BY <1>2, <1>3, Zenon DEF Client!Goroutines, CInv, Unmade
<1>5. g \in Everyone /\ g \notin Client!Procs /\ p # g
  BY <1>0, <1>4, ClientSetting, Zenon DEF Everyone
<1> HIDE DEF g, w
<1>6. /\ pc' = [q \in Everyone |-> pc'[q]] /\ \A q \in Everyone \ {p, g} : pc'[q] = pc[q]
      /\ pc'[p] = "flag" /\ pc'[g] = "watching"
      /\ conn' \in [Everyone -> Nat] /\ \A q \in Everyone \ {g} : conn'[q] = conn[q]
  BY <1>0, <1>1, <1>5, Zenon DEF CInv, CTypes
<1>7. CTypes'
  BY <1>1, <1>2, <1>3, <1>6, Zenon DEF CInv, CTypes
<1>8. Unmade'
  <2> SUFFICES ASSUME NEW v \in Watchers, NEW i \in 1..MaxSubs, i > made'[v]
               PROVE  pc'[<<v, i>>] = "idle"
    BY Zenon DEF Unmade
  <2>1. made \in [Watchers -> Nat]
    BY Zenon DEF CInv, CTypes
  <2>2. made'[v] = IF v = w THEN made[w] + 1 ELSE made[v]
    BY <1>1, <2>1, Zenon
  <2>3. i > made[v] /\ ~(v = w /\ i = made[w] + 1)
    BY <1>3, <2>1, <2>2
  <2>4. <<v, i>> # g
    BY <2>3 DEF g
  <2>5. <<v, i>> \in Client!Goroutines
    BY Zenon DEF Client!Goroutines
  <2>6. pc[<<v, i>>] = "idle"
    BY <2>3, Zenon DEF CInv, Unmade
  <2> QED BY <1>0, <1>6, <2>4, <2>5, <2>6, ClientSetting, Zenon DEF Everyone
<1> SUFFICES ASSUME Client!Undisturbed' PROVE Started' /\ AtHand' /\ Renewed'
  BY <1>7, <1>8, Zenon DEF CInv
<1>9. \A q \in Client!Procs \ {p} : pc'[q] = pc[q]
  BY <1>5, <1>6, Zenon DEF Everyone
<1>10. Client!Undisturbed
  BY <1>0, <1>1, <1>9, Zenon DEF Client!Undisturbed, Client!Procs
<1>11. Started /\ AtHand /\ Renewed
  BY <1>10, Zenon DEF CInv
<1>12. Watchers \subseteq Client!Procs /\ Loop \in Client!Procs /\ Loop # g
  BY <1>5, Zenon DEF Client!Procs
<1>13. on[Loop] # None \/ p # Loop
  BY <1>1, Zenon DEF w
<1>14. Started' /\ AtHand'
  BY <1>1, <1>6, <1>9, <1>11, <1>12, <1>13, Zenon DEF Started, AtHand
<1>15. Pending => Pending'
  BY <1>0, <1>1, <1>4, <1>6, <1>9, <1>12, Zenon DEF Pending
<1>16. \A v \in Watchers : Needy(v)' => Needy(v)
  BY <1>1, <1>6, <1>9, <1>12, Zenon DEF Needy
<1>17. Attended => Attended'
  BY <1>0, <1>1, <1>6, <1>9, <1>12, <1>16, Zenon DEF Attended, Coming
<1> QED BY <1>1, <1>11, <1>14, <1>15, <1>17, Zenon DEF Renewed

\* The flag is set after it.
LEMMA SetSubscribedKeeps ==
  ASSUME Client!Setting, CInv, NEW p \in {Loop} \cup Watchers, Client!SetSubscribed(p)
  PROVE  CInv'
<1>0. p \in Everyone /\ p \notin Closers /\ p \in Client!Procs /\ Loop \in Everyone
  BY ClientSetting, Zenon
<1>1. /\ pc[p] = "flag" /\ subscribed' = [subscribed EXCEPT ![on[p]] = TRUE]
      /\ pc' = [pc EXCEPT ![p] = IF p = Loop THEN "each" ELSE "done"]
      /\ UNCHANGED <<lost, refusals, ethClient, dialled, connected, subLoopInitialized,
                     reSubWatchers, cancelled, watchers, made, conn, on, todo>>
  BY Zenon DEF Client!SetSubscribed, Client!network, Client!client, Client!loopVars, Client!Goto
<1>2. /\ pc' = [q \in Everyone |-> pc'[q]] /\ \A q \in Everyone \ {p} : pc'[q] = pc[q]
      /\ pc'[p] = IF p = Loop THEN "each" ELSE "done"
  BY <1>0, <1>1, Zenon DEF CInv, CTypes
<1>3. /\ subscribed' \in [Watchers -> BOOLEAN]
      /\ \A v \in Watchers : subscribed'[v] = (v = on[p] \/ subscribed[v])
  BY <1>1, Zenon DEF CInv, CTypes
<1>4. CTypes' /\ Unmade'
  BY <1>0, <1>1, <1>2, <1>3, UnmadeKept, Zenon DEF CInv, CTypes
<1> SUFFICES ASSUME Client!Undisturbed' PROVE Started' /\ AtHand' /\ Renewed'
  BY <1>4, Zenon DEF CInv
<1>5. Started /\ AtHand /\ Renewed
  BY <1>0, <1>1, <1>2, Calm, Zenon DEF CInv
<1>6. Started' /\ AtHand'
  BY <1>0, <1>1, <1>2, <1>5, ClientSetting, Zenon DEF Started, AtHand
<1>7. Pending => Pending'
  BY <1>0, <1>1, <1>2, Zenon DEF Pending
<1>8. \A v \in Watchers : Needy(v)' => Needy(v) /\ v # on[p]
  <2>1. p \in Watchers => on[p] = p
    BY Zenon DEF CInv, CTypes
  <2> TAKE v \in Watchers
  <2>2. v # p => pc'[v] = pc[v]
    BY <1>2, ClientSetting, Zenon
  <2>3. v = p => on[p] = v
    BY <2>1, Zenon
  <2>4. Needy(v)' => ~subscribed[v] /\ v # on[p]
    BY <1>3, Zenon DEF Needy
  <2> QED BY <1>1, <2>2, <2>3, <2>4, Zenon DEF Needy
<1>9. Attended => Attended'
  <2>1. CASE p = Loop
    <3>1. \A v \in Watchers : v # on[Loop] /\ Coming(v) => Coming(v)'
      BY <1>1, <1>2, <2>1, Zenon DEF Coming
    <3>2. pc'[Loop] = "each"
      BY <1>2, <2>1, Zenon
    <3> QED BY <1>1, <1>8, <2>1, <3>1, <3>2, Zenon DEF Attended
  <2>2. CASE p # Loop
    <3>1. pc'[Loop] = pc[Loop]
      BY <1>0, <1>2, <2>2, Zenon
    <3> QED BY <1>1, <1>8, <3>1, Zenon DEF Attended, Coming
  <2> QED BY <2>1, <2>2, Zenon
<1> QED BY <1>1, <1>5, <1>6, <1>7, <1>9, Zenon DEF Renewed

\* It is not made: subLoop gives up the watchers it has not come to, for which a signal is
\* pending, since the connection it tried is dead.
LEMMA SubscribeFailsKeeps ==
  ASSUME Client!Setting, CInv, NEW p \in {Loop} \cup Watchers, Client!SubscribeFails(p)
  PROVE  CInv'
<1>0. p \in Everyone /\ p \notin Closers /\ p \in Client!Procs /\ Loop \in Everyone
  BY ClientSetting, Zenon
<1> DEFINE refused == pc[p] = "got" /\ Client!Accepts(p)
<1>1. /\ pc[p] \in {"got", "failed"} /\ on[p] # None
      /\ refusals' = IF refused THEN refusals + 1 ELSE refusals
      /\ subscribed' = [subscribed EXCEPT ![on[p]] = FALSE]
      /\ pc' = [pc EXCEPT ![p] = IF p = Loop THEN "select" ELSE "error"]
      /\ on' = [on EXCEPT ![Loop] = IF p = Loop THEN None ELSE @]
      /\ todo' = [todo EXCEPT ![Loop] = IF p = Loop THEN {} ELSE @]
      /\ UNCHANGED <<lost, ethClient, dialled, connected, subLoopInitialized, reSubWatchers,
                     cancelled, watchers, made, conn>>
  BY Zenon DEF Client!SubscribeFails, Client!client, Client!Goto
<1>2. /\ pc' = [q \in Everyone |-> pc'[q]] /\ \A q \in Everyone \ {p} : pc'[q] = pc[q]
      /\ pc'[p] = IF p = Loop THEN "select" ELSE "error"
  BY <1>0, <1>1, Zenon DEF CInv, CTypes
<1>3. /\ on' \in [Handlers -> Watchers \cup {None}]
      /\ todo' \in [{Loop} \cup Closers -> SUBSET Watchers]
      /\ \A q \in Handlers \ {Loop} : on'[q] = on[q]
      /\ IF p = Loop THEN on'[Loop] = None /\ todo'[Loop] = {}
                     ELSE on'[Loop] = on[Loop] /\ todo'[Loop] = todo[Loop]
  BY <1>1, Zenon DEF CInv, CTypes, Handlers
<1>4. /\ subscribed' \in [Watchers -> BOOLEAN]
      /\ \A v \in Watchers \ {on[p]} : subscribed'[v] = subscribed[v]
  BY <1>1, Zenon DEF CInv, CTypes
<1>5. refusals' \in Nat /\ (refused => refusals' # refusals)
  <2>1. refusals \in Nat
    BY Zenon DEF CInv, CTypes
  <2>2. refusals + 1 \in Nat /\ refusals + 1 # refusals
    BY <2>1
  <2> QED BY <1>1, <2>1, <2>2, Zenon
<1>6. CTypes' /\ Unmade'
  <2>1. \A w \in Watchers : on'[w] = w
    <3>1. Watchers \subseteq Handlers \ {Loop}
      BY ClientSetting, Zenon DEF Handlers
    <3>2. \A w \in Watchers : on[w] = w
      BY Zenon DEF CInv, CTypes
    <3> QED BY <1>3, <3>1, <3>2, Zenon
  <2> QED BY <1>0, <1>1, <1>2, <1>3, <1>4, <1>5, <2>1, UnmadeKept, Zenon DEF CInv, CTypes
<1> SUFFICES ASSUME Client!Undisturbed' PROVE Started' /\ AtHand' /\ Renewed'
  BY <1>6, Zenon DEF CInv
<1>7. ~refused /\ Started /\ AtHand /\ Renewed
  BY <1>0, <1>1, <1>2, <1>5, Calm, Zenon DEF CInv
<1>8. Started'
  BY <1>0, <1>1, <1>2, <1>7, ClientSetting, Zenon DEF Started
<1>9. AtHand'
  <2>1. CASE p = Loop
    BY <1>2, <1>3, <2>1, Zenon DEF AtHand
  <2>2. CASE p # Loop
    BY <1>0, <1>1, <1>2, <1>3, <1>7, <2>2, Zenon DEF AtHand
  <2> QED BY <2>1, <2>2, Zenon
<1>10. Pending => Pending'
  BY <1>0, <1>1, <1>2, Zenon DEF Pending
<1>11. CASE p # Loop
  <2>1. on[p] = p
    BY <1>11, Zenon DEF CInv, CTypes
  <2>2. \A v \in Watchers : Needy(v)' => Needy(v)
    <3> TAKE v \in Watchers
    <3>1. v = p => ~Needy(v)'
      BY <1>2, <1>11, Zenon DEF Needy
    <3>2. v # p => pc'[v] = pc[v]
      BY <1>2, ClientSetting, Zenon
    <3>3. v # p => subscribed'[v] = subscribed[v]
      <4>1. v # p => v \in Watchers \ {on[p]}
        BY <2>1, Zenon
      <4> QED BY <1>4, <4>1, Zenon
    <3> QED BY <1>1, <3>1, <3>2, <3>3, Zenon DEF Needy
  <2>3. Attended => Attended'
    BY <1>0, <1>1, <1>2, <1>3, <1>11, <2>2, Zenon DEF Attended, Coming
  <2> QED BY <1>1, <1>7, <1>8, <1>9, <1>10, <2>3, Zenon DEF Renewed
<1>12. CASE p = Loop
  <2>1. Attended => ~(pc[p] = "got" /\ ~(conn[p] > lost)) /\ pc[p] # "failed"
    BY <1>1, <1>12, Zenon DEF Attended
  <2>2. pc[p] = "got" => ~(conn[p] > lost)
    BY <1>1, <1>7, <1>12, Zenon DEF Client!Accepts, Started, AtHand
  <2>3. ~Attended
    BY <1>1, <2>1, <2>2, Zenon
  <2> QED BY <1>1, <1>7, <1>8, <1>9, <1>10, <2>3, Zenon DEF Renewed
<1> QED BY <1>11, <1>12, Zenon

-----------------------------------------------------------------------------
\* A step of a goroutine that neither dials nor subscribes changes its place only.
LEMMA MovesKeep ==
  ASSUME Client!Setting, CInv, NEW p \in Client!Goroutines \cup Callers,
         p \in Callers \/ pc[p] = "watching", pc[p] \notin {"signal", "send"},
         NEW l, Client!Goto(p, l),
         UNCHANGED <<lost, refusals, ethClient, dialled, connected, subLoopInitialized,
                     reSubWatchers, cancelled, watchers, subscribed, made, conn, on, todo>>
  PROVE  CInv'
<1>0. p \in Everyone \ Closers /\ p \notin Watchers /\ p # Loop /\ Loop \in Everyone
      /\ (p \in Client!Procs \/ pc[p] # "idle")
  BY ClientSetting, Zenon DEF Everyone
<1>1. /\ pc' = [q \in Everyone |-> pc'[q]] /\ \A q \in Everyone \ {p} : pc'[q] = pc[q]
  BY <1>0, Moves, Zenon DEF CInv
<1>2. CTypes' /\ Unmade'
  BY <1>0, <1>1, UnmadeKept, Zenon DEF CInv, CTypes
<1> SUFFICES ASSUME Client!Undisturbed' PROVE Started' /\ AtHand' /\ Renewed'
  BY <1>2, Zenon DEF CInv
<1>3. Started /\ AtHand /\ Renewed
  BY <1>0, <1>1, Calm, Zenon DEF CInv
<1>4. Pending => Pending'
  BY <1>0, <1>1, StillPending, Zenon
<1>5. pc'[Loop] = pc[Loop] /\ \A w \in Watchers : pc'[w] = pc[w]
  BY <1>0, <1>1, ClientSetting, Zenon
<1>6. \A w \in Watchers : Needy(w)' => Needy(w)
  BY <1>5, Zenon DEF Needy
<1> QED BY <1>0, <1>3, <1>4, <1>5, <1>6, OthersKeep, Zenon DEF Started

\* An RPC call.
LEMMA CallKeeps ==
  ASSUME Client!Setting, CInv, NEW p \in Callers, Client!Call(p) PROVE CInv'
<1>1. pc[p] \in {"idle", "got", "failed"} /\ \E l \in {"get", "idle"} : Client!Goto(p, l)
  BY Zenon DEF Client!Call
<1>2. UNCHANGED <<lost, refusals, ethClient, dialled, connected, subLoopInitialized,
                  reSubWatchers, cancelled, watchers, subscribed, made, conn, on, todo>>
  BY Zenon DEF Client!Call, Client!network, Client!client, Client!loopVars, Client!watch
<1> QED BY <1>1, <1>2, MovesKeep, Zenon

\* A log that does not unpack or a closer ends a goroutine.
LEMMA EndedKeeps ==
  ASSUME Client!Setting, CInv, NEW g \in Client!Goroutines, Client!UnpackFails(g) \/ Client!Quit(g)
  PROVE  CInv'
<1>1. pc[g] = "watching" /\ Client!Goto(g, "ended")
  BY Zenon DEF Client!UnpackFails, Client!Quit
<1>2. UNCHANGED <<lost, refusals, ethClient, dialled, connected, subLoopInitialized,
                  reSubWatchers, cancelled, watchers, subscribed, made, conn, on, todo>>
  BY Zenon DEF Client!UnpackFails, Client!Quit, Client!network, Client!client, Client!loopVars,
               Client!watch
<1> QED BY <1>1, <1>2, MovesKeep, Zenon

\* A subscription fails: its watcher becomes needy and the loop is signalled.
LEMMA SubErrKeeps ==
  ASSUME Client!Setting, CInv, NEW g \in Client!Goroutines, Client!SubErr(g)
  PROVE  CInv'
<1>0. g \in Everyone \ Closers /\ g \notin Watchers /\ g # Loop /\ Loop \in Everyone
  BY ClientSetting, Zenon DEF Everyone
<1>1. /\ pc[g] = "watching" /\ Client!Goto(g, "signal")
      /\ subscribed' = [subscribed EXCEPT ![g[1]] = FALSE]
      /\ UNCHANGED <<lost, refusals, ethClient, dialled, connected, subLoopInitialized,
                     reSubWatchers, cancelled, watchers, made, conn, on, todo>>
  BY Zenon DEF Client!SubErr, Client!network, Client!client, Client!loopVars
<1>2. /\ pc' = [q \in Everyone |-> pc'[q]] /\ \A q \in Everyone \ {g} : pc'[q] = pc[q]
      /\ pc'[g] = "signal"
  BY <1>0, <1>1, Moves, Zenon DEF CInv
<1>3. subscribed' \in [Watchers -> BOOLEAN]
  BY <1>1, Zenon DEF CInv, CTypes
<1>4. CTypes' /\ Unmade'
  BY <1>0, <1>1, <1>2, <1>3, UnmadeKept, Zenon DEF CInv, CTypes
<1> SUFFICES ASSUME Client!Undisturbed' PROVE Started' /\ AtHand' /\ Renewed'
  BY <1>4, Zenon DEF CInv
<1>5. Started /\ AtHand /\ Renewed
  BY <1>0, <1>1, <1>2, Calm, Zenon DEF CInv
<1>6. Pending'
  BY <1>0, <1>2, Zenon DEF Pending
<1>7. pc'[Loop] = pc[Loop] /\ \A w \in Watchers : pc'[w] = pc[w]
  BY <1>0, <1>2, ClientSetting, Zenon
<1> QED BY <1>0, <1>1, <1>5, <1>6, <1>7, OthersKeep, Zenon DEF Started

-----------------------------------------------------------------------------
\* A step of the loop alone leaves the connection and the watchers as they are.
LEMMA LoopMoves ==
  ASSUME Client!Setting, CInv, NEW l, Client!Goto(Loop, l),
         UNCHANGED <<lost, refusals, ethClient, dialled, connected, subLoopInitialized,
                     cancelled, watchers, subscribed, made, conn>>,
         on' \in [Handlers -> Watchers \cup {None}], \A w \in Watchers : on'[w] = on[w],
         todo' \in [{Loop} \cup Closers -> SUBSET Watchers],
         pc[Loop] \notin {"idle", "signal", "send"}
  PROVE  /\ CTypes' /\ Unmade' /\ pc'[Loop] = l
         /\ Client!Undisturbed' => Started' /\ AtHand /\ Renewed
         /\ \A w \in Watchers : Needy(w)' => Needy(w)
         /\ UNCHANGED reSubWatchers /\ pc[Loop] \notin {"decide", "all", "unsubscribed"} =>
              (Pending => Pending')
<1>0. Loop \in Everyone \ Closers /\ Loop \in Client!Procs
  BY ClientSetting, Zenon
<1>1. /\ pc' = [q \in Everyone |-> pc'[q]] /\ \A q \in Everyone \ {Loop} : pc'[q] = pc[q]
      /\ pc'[Loop] = l
  BY <1>0, Moves, Zenon DEF CInv
<1>2. CTypes'
  BY <1>1, Zenon DEF CInv, CTypes
<1>3. Unmade'
  BY <1>0, <1>1, UnmadeKept, Zenon DEF CInv
<1>4. ASSUME Client!Undisturbed' PROVE Started' /\ AtHand /\ Renewed
  <2>1. Started /\ AtHand /\ Renewed
    BY <1>0, <1>1, <1>4, Calm, Zenon DEF CInv
  <2> QED BY <1>1, <2>1, ClientSetting, Zenon DEF Started
<1>5. \A w \in Watchers : Needy(w)' => Needy(w)
  BY <1>1, ClientSetting, Zenon DEF Needy
<1>6. UNCHANGED reSubWatchers /\ pc[Loop] \notin {"decide", "all", "unsubscribed"} =>
        (Pending => Pending')
  BY <1>0, <1>1, Zenon DEF Pending
<1> QED BY <1>1, <1>2, <1>3, <1>4, <1>5, <1>6, Zenon

\* The loop takes a signal, ...
LEMMA TakeSignalKeeps == ASSUME Client!Setting, CInv, Client!TakeSignal PROVE CInv'
<1>1. /\ pc[Loop] = "select" /\ Client!Goto(Loop, "decide")
      /\ UNCHANGED <<lost, refusals, ethClient, dialled, connected, subLoopInitialized,
                     cancelled, watchers, subscribed, made, conn, on, todo>>
  BY Zenon DEF Client!TakeSignal, Client!network, Client!client, Client!watch
<1>2. /\ CTypes' /\ Unmade' /\ pc'[Loop] = "decide"
      /\ Client!Undisturbed' => Started' /\ AtHand
  BY <1>1, LoopMoves, Zenon DEF CInv, CTypes
<1> QED BY <1>1, <1>2, Zenon DEF CInv, AtHand, Renewed, Pending

\* ... follows it if there is a connection, ...
LEMMA DecideKeeps == ASSUME Client!Setting, CInv, Client!Decide PROVE CInv'
<1> DEFINE l == CASE connected /\ recreated -> "all"
                  [] connected /\ ~recreated -> "unsubscribed"
                  [] OTHER -> "select"
<1>1. /\ pc[Loop] = "decide" /\ Client!Goto(Loop, l)
      /\ UNCHANGED <<lost, refusals, ethClient, dialled, connected, subLoopInitialized,
                     cancelled, watchers, subscribed, made, conn, on, todo>>
  BY Zenon DEF Client!Decide, Client!network, Client!client, Client!watch
<1>2. l \in {"all", "unsubscribed"} \/ (l = "select" /\ ~connected)
  OBVIOUS
<1> HIDE DEF l
<1>3. /\ CTypes' /\ Unmade' /\ pc'[Loop] = l
      /\ Client!Undisturbed' => Started' /\ AtHand
  BY <1>1, LoopMoves, Zenon DEF CInv, CTypes
<1> SUFFICES ASSUME Client!Undisturbed' PROVE Started' /\ AtHand' /\ Renewed'
  BY <1>3, Zenon DEF CInv
<1>4. Started' /\ AtHand'
  BY <1>1, <1>2, <1>3, Zenon DEF AtHand
<1>5. l = "select" => ethClient' = 0
  BY <1>1, <1>2, <1>4, Zenon DEF Started
<1>6. l = "select" => ~(ethClient' > lost')
  BY <1>3, <1>5 DEF CTypes
<1> QED BY <1>2, <1>3, <1>4, <1>6, Zenon DEF Renewed, Pending

\* ... lists the watchers, ...
LEMMA ListWatchersKeeps == ASSUME Client!Setting, CInv, Client!ListWatchers PROVE CInv'
<1>1. /\ pc[Loop] \in {"all", "unsubscribed"} /\ Client!Goto(Loop, "each")
      /\ todo' = [todo EXCEPT ![Loop] = {w \in watchers : pc[Loop] = "all" \/ ~subscribed[w]}]
      /\ UNCHANGED <<lost, refusals, ethClient, dialled, connected, subLoopInitialized,
                     cancelled, watchers, subscribed, made, conn, on>>
  BY Zenon DEF Client!ListWatchers, Client!network, Client!client, Client!loopVars, Client!watch
<1>2. /\ todo' \in [{Loop} \cup Closers -> SUBSET Watchers]
      /\ todo'[Loop] = {w \in watchers : pc[Loop] = "all" \/ ~subscribed[w]}
  BY <1>1, Zenon DEF CInv, CTypes
<1>3. on \in [Handlers -> Watchers \cup {None}]
  BY Zenon DEF CInv, CTypes
<1>4. /\ CTypes' /\ Unmade' /\ pc'[Loop] = "each"
      /\ Client!Undisturbed' => Started' /\ AtHand
      /\ \A w \in Watchers : Needy(w)' => Needy(w)
  BY <1>1, <1>2, <1>3, LoopMoves, Zenon
<1> SUFFICES ASSUME Client!Undisturbed' PROVE Started' /\ AtHand' /\ Renewed'
  BY <1>4, Zenon DEF CInv
<1>5. on'[Loop] = None
  BY <1>1, <1>4, Zenon DEF AtHand
<1>6. \A w \in Watchers : Needy(w) => w \in todo'[Loop]
  BY <1>2, Zenon DEF Needy
<1>7. Attended'
  BY <1>4, <1>5, <1>6, Zenon DEF Attended, Coming
<1>8. AtHand'
  BY <1>1, <1>2, <1>4, <1>5, Zenon DEF AtHand
<1> QED BY <1>4, <1>7, <1>8, Zenon DEF Renewed

\* ... and comes to them one after the other.
LEMMA ResubscribeNextKeeps == ASSUME Client!Setting, CInv, Client!ResubscribeNext PROVE CInv'
<1>1. /\ pc[Loop] = "each"
      /\ UNCHANGED <<lost, refusals, ethClient, dialled, connected, subLoopInitialized,
                     reSubWatchers, cancelled, watchers, subscribed, made, conn>>
  BY Zenon DEF Client!ResubscribeNext, Client!network, Client!client, Client!loopVars, Client!watch
<1>2. /\ on \in [Handlers -> Watchers \cup {None}] /\ Loop \in Handlers /\ Loop \notin Watchers
      /\ todo \in [{Loop} \cup Closers -> SUBSET Watchers]
  BY ClientSetting, Zenon DEF CInv, CTypes, Handlers
<1>3. CASE /\ todo[Loop] = {} /\ todo' = todo
           /\ on' = [on EXCEPT ![Loop] = None] /\ Client!Goto(Loop, "select")
  <2>1. /\ on' \in [Handlers -> Watchers \cup {None}] /\ on'[Loop] = None
        /\ \A w \in Watchers : on'[w] = on[w]
    BY <1>2, <1>3, Zenon DEF Handlers
  <2>2. /\ CTypes' /\ Unmade' /\ pc'[Loop] = "select"
        /\ Client!Undisturbed' => Started' /\ AtHand /\ Renewed
        /\ \A w \in Watchers : Needy(w)' => Needy(w)
        /\ Pending => Pending'
    BY <1>1, <1>2, <1>3, <2>1, LoopMoves, Zenon
  <2>3. AtHand => AtHand'
    BY <1>1, <1>3, <2>1, <2>2, Zenon DEF AtHand
  <2>4. Attended => Attended'
    BY <1>1, <1>3, <2>1, <2>2, Zenon DEF Attended, Coming
  <2> QED BY <1>1, <2>2, <2>3, <2>4, Zenon DEF CInv, Renewed
<1>4. ASSUME NEW w \in todo[Loop], on' = [on EXCEPT ![Loop] = w],
             todo' = [todo EXCEPT ![Loop] = @ \ {w}], Client!Goto(Loop, "lock")
      PROVE  CInv'
  <2>0. w \in Watchers /\ w # None
    BY <1>2, ClientSetting, Zenon
  <2>1. /\ on' \in [Handlers -> Watchers \cup {None}] /\ on'[Loop] = w
        /\ \A v \in Watchers : on'[v] = on[v]
        /\ todo' \in [{Loop} \cup Closers -> SUBSET Watchers] /\ todo'[Loop] = todo[Loop] \ {w}
    BY <1>2, <1>4, <2>0, Zenon DEF Handlers
  <2>2. /\ CTypes' /\ Unmade' /\ pc'[Loop] = "lock"
        /\ Client!Undisturbed' => Started' /\ AtHand /\ Renewed
        /\ \A v \in Watchers : Needy(v)' => Needy(v)
        /\ Pending => Pending'
    BY <1>1, <1>2, <1>4, <2>1, LoopMoves, Zenon
  <2>3. AtHand => AtHand'
    BY <1>1, <2>0, <2>1, <2>2, Zenon DEF AtHand
  <2>4. Attended => Attended'
    BY <1>1, <2>1, <2>2, Zenon DEF Attended, Coming
  <2> QED BY <1>1, <2>2, <2>3, <2>4, Zenon DEF CInv, Renewed
<1> QED BY <1>3, <1>4, Zenon DEF Client!ResubscribeNext

\* The ticker works when the loop has no watcher at hand.
LEMMA TickKeeps ==
  ASSUME Client!Setting, CInv, Client!Tick \/ Client!TickReturns PROVE CInv'
<1>1. /\ pc[Loop] \in {"select", "got", "failed"} /\ (pc[Loop] = "select" \/ on[Loop] = None)
      /\ \E l \in {"get", "select"} : Client!Goto(Loop, l)
      /\ UNCHANGED <<lost, refusals, ethClient, dialled, connected, subLoopInitialized,
                     reSubWatchers, cancelled, watchers, subscribed, made, conn, on, todo>>
  BY Zenon DEF Client!Tick, Client!TickReturns, Client!network, Client!client, Client!loopVars,
               Client!watch
<1>2. PICK l \in {"get", "select"} : Client!Goto(Loop, l)
  BY <1>1, Zenon
<1>3. /\ on \in [Handlers -> Watchers \cup {None}]
      /\ todo \in [{Loop} \cup Closers -> SUBSET Watchers]
  BY Zenon DEF CInv, CTypes
<1>4. /\ CTypes' /\ Unmade' /\ pc'[Loop] = l
      /\ Client!Undisturbed' => Started' /\ AtHand /\ Renewed
      /\ \A v \in Watchers : Needy(v)' => Needy(v)
      /\ Pending => Pending'
  BY <1>1, <1>2, <1>3, LoopMoves, Zenon
<1> SUFFICES ASSUME Client!Undisturbed' PROVE Started' /\ AtHand' /\ Renewed'
  BY <1>4, Zenon DEF CInv
<1>5. on[Loop] = None /\ todo[Loop] = {}
  BY <1>1, <1>4, Zenon DEF AtHand
<1>6. AtHand'
  BY <1>1, <1>4, <1>5, Zenon DEF AtHand
<1>7. Attended => Attended'
  BY <1>1, <1>4, <1>5, ClientSetting, Zenon DEF Attended, Coming
<1> QED BY <1>1, <1>4, <1>6, <1>7, Zenon DEF Renewed

\* Only Close stops the loop.
LEMMA StopSubLoopKeeps == ASSUME Client!Setting, CInv, Client!StopSubLoop PROVE CInv'
<1>1. /\ pc[Loop] = "select" /\ cancelled /\ Client!Goto(Loop, "stopped")
      /\ UNCHANGED <<lost, refusals, ethClient, dialled, connected, subLoopInitialized,
                     reSubWatchers, cancelled, watchers, subscribed, made, conn, on, todo>>
  BY Zenon DEF Client!StopSubLoop, Client!network, Client!client, Client!loopVars, Client!watch
<1>2. CTypes' /\ Unmade' /\ (Client!Undisturbed' => Started')
  BY <1>1, LoopMoves, Zenon DEF CInv, CTypes
<1> QED BY <1>1, <1>2, Zenon DEF CInv, Started

-----------------------------------------------------------------------------
\* Who closes disturbs.
LEMMA CloseKeeps ==
  ASSUME Client!Setting, CInv, NEW c \in Closers, Client!CloseStep(c)
  PROVE  CInv'
<1>0. c \in Everyone /\ c \in Client!Procs /\ c \in Handlers /\ c \notin Watchers
  BY ClientSetting, Zenon DEF Handlers
<1>1. /\ \E l \in {"closing", "lock", "unsubscribe", "wait", "done"} : Client!Goto(c, l)
      /\ UNCHANGED <<lost, refusals, ethClient, dialled, subscribed, made, conn>>
  BY Zenon DEF Client!CloseStep, Client!BeginClose, Client!CloseNext, Client!LockWatcher,
               Client!CloseWatcher, Client!EndClose, Client!CloseReturns, Client!network,
               Client!client, Client!watch
<1>2. /\ \/ on' = on \/ \E w \in todo[c] : on' = [on EXCEPT ![c] = w]
      /\ \/ todo' = todo \/ \E some \in SUBSET watchers : todo' = [todo EXCEPT ![c] = some]
         \/ \E w \in todo[c] : todo' = [todo EXCEPT ![c] = @ \ {w}]
      /\ watchers' \subseteq watchers
  BY Zenon DEF Client!CloseStep, Client!BeginClose, Client!CloseNext, Client!LockWatcher,
               Client!CloseWatcher, Client!EndClose, Client!CloseReturns, Client!watch
<1>3. /\ pc' = [q \in Everyone |-> pc'[q]] /\ \A q \in Everyone \ {c} : pc'[q] = pc[q]
      /\ pc'[c] # "idle"
  BY <1>0, <1>1, Moves, Zenon DEF CInv
<1>4. on' \in [Handlers -> Watchers \cup {None}] /\ \A w \in Watchers : on'[w] = on[w]
  <2>1. CASE on' = on
    BY <2>1, Zenon DEF CInv, CTypes
  <2>2. ASSUME NEW w \in todo[c], on' = [on EXCEPT ![c] = w]
        PROVE  on' \in [Handlers -> Watchers \cup {None}] /\ \A v \in Watchers : on'[v] = on[v]
    <3>1. w \in Watchers
      BY Zenon DEF CInv, CTypes
    <3>2. on \in [Handlers -> Watchers \cup {None}] /\ Watchers \subseteq Handlers
      BY Zenon DEF CInv, CTypes, Handlers
    <3> QED BY <1>0, <2>2, <3>1, <3>2, Zenon
  <2> QED BY <1>2, <2>1, <2>2, Zenon
<1>5. todo' \in [{Loop} \cup Closers -> SUBSET Watchers]
  <2>1. todo \in [{Loop} \cup Closers -> SUBSET Watchers] /\ watchers \subseteq Watchers
    BY Zenon DEF CInv, CTypes
  <2>2. ASSUME NEW some \in SUBSET Watchers, todo' = [todo EXCEPT ![c] = some]
        PROVE  todo' \in [{Loop} \cup Closers -> SUBSET Watchers]
    BY <2>1, <2>2, Zenon
  <2>3. \/ todo' = todo
        \/ \E some \in SUBSET Watchers : todo' = [todo EXCEPT ![c] = some]
    <3>1. CASE \E some \in SUBSET watchers : todo' = [todo EXCEPT ![c] = some]
      BY <2>1, <3>1, Zenon
    <3>2. ASSUME NEW w \in todo[c], todo' = [todo EXCEPT ![c] = @ \ {w}]
          PROVE  \E some \in SUBSET Watchers : todo' = [todo EXCEPT ![c] = some]
      <4>1. todo[c] \ {w} \in SUBSET Watchers /\ todo' = [todo EXCEPT ![c] = todo[c] \ {w}]
        BY <2>1, <3>2, Zenon
      <4> QED BY <4>1, Zenon
    <3> QED BY <1>2, <3>1, <3>2, Zenon
  <2> QED BY <2>1, <2>2, <2>3, Zenon
<1>6. CTypes' /\ Unmade'
  BY <1>0, <1>1, <1>2, <1>3, <1>4, <1>5, UnmadeKept, Zenon DEF CInv, CTypes
<1> QED BY <1>3, <1>6, Zenon DEF CInv, Client!Undisturbed

\* Every step of EthClient keeps the invariant.
LEMMA ClientNext == ASSUME Client!Setting, CInv, [Client!Next]_clientVars PROVE CInv'
<1>1. CASE UNCHANGED clientVars
  <2>1. UNCHANGED <<lost, refusals, ethClient, dialled, connected, subLoopInitialized,
                    reSubWatchers, cancelled, watchers, subscribed, made, pc, conn, on, todo>>
    BY <1>1, Zenon DEF clientVars, Client!network, Client!client, Client!loopVars, Client!watch
  <2>2. CTypes' /\ Unmade' /\ (Client!Undisturbed' => Started' /\ AtHand')
    BY <2>1, Zenon DEF CInv, CTypes, Unmade, Started, AtHand, Client!Undisturbed
  <2>3. Client!Undisturbed' => Renewed'
    BY <2>1, Zenon DEF CInv, Renewed, Attended, Pending, Needy, Coming, Client!Undisturbed
  <2> QED BY <2>2, <2>3, Zenon DEF CInv
<1>2. ASSUME NEW p \in {Loop} \cup Watchers \cup Callers, Client!ClientStep(p) PROVE CInv'
  BY <1>2, GetClientKeeps, ReturnKeeps, LockSubLoopKeeps, SendKeeps, Zenon DEF Client!ClientStep
<1>3. ASSUME NEW p \in {Loop} \cup Watchers, Client!SubscribeStep(p) PROVE CInv'
  BY <1>3, LockWatcherKeeps, SubscribeKeeps, SetSubscribedKeeps, SubscribeFailsKeeps, Zenon
     DEF Client!SubscribeStep
<1>4. CASE Client!LoopStep
  BY <1>2, <1>3, <1>4, TakeSignalKeeps, DecideKeeps, ListWatchersKeeps, ResubscribeNextKeeps,
     TickKeeps, StopSubLoopKeeps, Zenon DEF Client!LoopStep
<1>5. ASSUME NEW w \in Watchers, Client!AddStep(w) PROVE CInv'
  BY <1>2, <1>3, <1>5, AddWatcherKeeps, StartSubLoopKeeps, Zenon DEF Client!AddStep
<1>6. ASSUME NEW g \in Client!Goroutines, Client!GoroutineStep(g) \/ Client!UnpackFails(g)
      PROVE  CInv'
  BY <1>6, SubErrKeeps, EndedKeeps, LockSubLoopKeeps, SendKeeps, Zenon DEF Client!GoroutineStep
<1>7. ASSUME NEW p \in Callers, Client!CallStep(p) PROVE CInv'
  BY <1>2, <1>7, CallKeeps, Zenon DEF Client!CallStep
<1> QED BY <1>1, <1>4, <1>5, <1>6, <1>7, LoseKeeps, RestoreKeeps, CloseKeeps, Zenon DEF Client!Next

\* While no endpoint refuses and nothing is closed, a working connection leaves no watcher
\* without a subscription and unattended: getClient dials under mx and signals before it is used
\* (client.go), the goroutine of a lost subscription signals after it clears the flag, and
\* subLoop goes through every unsubscribed watcher for each signal it takes.
THEOREM LostAreRenewed ==
  ASSUME Client!Setting PROVE Client!Spec => []Client!UnsubscribedIsRenewed
<1>1. CInv => Client!UnsubscribedIsRenewed
  <2> SUFFICES ASSUME CInv, Client!Undisturbed, ethClient > lost,
                      NEW w \in watchers, ~subscribed[w], Client!Unattended(w)
               PROVE  FALSE
    BY Zenon DEF Client!UnsubscribedIsRenewed
  <2>1. w \in Watchers /\ (Pending \/ Attended)
    BY Zenon DEF CInv, CTypes, Renewed
  <2> 0 # 1
    OBVIOUS
  <2>2. ~Pending /\ Needy(w) /\ ~Coming(w)
    BY Zenon DEF Client!Unattended, Pending, Needy, Coming, Everyone
  <2> QED BY <2>1, <2>2, Zenon DEF Attended
<1>2. Client!Init => CInv
  BY ClientInit
<1>3. CInv /\ [Client!Next]_clientVars => CInv'
  BY ClientNext, Zenon
<1> QED BY <1>1, <1>2, <1>3, PTL DEF Client!Spec, Client!vars, clientVars

-----------------------------------------------------------------------------
INSTANCE FiniteSetTheorems

\* If a watcher's subscriptions never overlap, OnEvent is called at most once
\* for every log, whatever is dropped and replayed.
THEOREM DeliveredOnce == ASSUME MaxLive = 1 PROVE Spec => []HandledOnce
<1>1. OnceInv => HandledOnce
  BY Zenon DEF OnceInv
<1>2. OnceInv /\ [Next]_vars => OnceInv'
  <2> SUFFICES ASSUME NEW s \in Subs, WatchLogs(s) PROVE Live = {}
    BY OnceStep, Zenon
  <2>1. IsFiniteSet(Live)
    BY SubsFinite, FS_Subset, Zenon DEF Live
  <2>2. Cardinality(Live) \in Nat /\ Cardinality(Live) < 1
    BY <2>1, FS_CardinalityType, Zenon DEF WatchLogs
  <2> QED BY <2>1, <2>2, FS_EmptySet
<1> QED BY <1>1, <1>2, OnceInit, PTL DEF Spec
=============================================================================
