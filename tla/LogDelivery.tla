---------------------------- MODULE LogDelivery ----------------------------
(***************************************************************************)
(* What happens to the logs of a contract on their way to its handler:     *)
(* the goroutines of watchEvents (extChains/eth/watcher.go), of which a    *)
(* watcher may have several since Resubscribe replaces a subscription      *)
(* without cancelling it, and the LogCache they share (log_cache.go).      *)
(* The handler is the OnEvent of watcher_oracle_request.go or              *)
(* watcher_new_epoch.go, in a goroutine of its own.                        *)
(***************************************************************************)
EXTENDS Integers, Sequences, FiniteSets

CONSTANTS
  Logs,     \* the logs of the contract in chain order: [block, tx] records
  Subs,     \* subscriptions, each made at most once
  MaxLive,  \* how many of them run at a time
  Replay,   \* whether the endpoint sends past logs from FromBlock on
  BadLogs   \* indices of logs that do not unpack

ASSUME LogsInOrder ==
  /\ Logs \in Seq([block : Nat \ {0}, tx : Nat])
  /\ \A i, j \in 1..Len(Logs) : i < j => Logs[i].block <= Logs[j].block
  /\ \A i, j \in 1..Len(Logs) : Logs[i].tx = Logs[j].tx => Logs[i].block = Logs[j].block

ASSUME SubsFinite == IsFiniteSet(Subs) /\ MaxLive \in Nat

VARIABLES
  head,         \* logs on the chain so far
  next,         \* the next log of a running subscription, 0 if it does not run
  used,         \* subscriptions made
  blockNumber,  \* LogCache.blockNumber
  data,         \* LogCache.data: <<block, tx>> pairs
  handled,      \* how often OnEvent was called for each log
  skipped       \* logs skipped as already processed

vars == <<head, next, used, blockNumber, data, handled, skipped>>
Index == 1..Len(Logs)
Live == {s \in Subs : next[s] # 0}

Init ==
  /\ head = 0
  /\ next = [s \in Subs |-> 0]
  /\ used = {}
  /\ blockNumber = 0 /\ data = {}
  /\ handled = [i \in Index |-> 0]
  /\ skipped = {}

\* The contract emits its next log (external).
Emit ==
  /\ head < Len(Logs)
  /\ head' = head + 1
  /\ UNCHANGED <<next, used, blockNumber, data, handled, skipped>>

\* Mutant: past logs are asked for from the block after the cached one.
StartsLater(i, from) ==
  IF Replay /\ from > 0
  THEN /\ i <= head => Logs[i].block > from
       /\ \A j \in 1..head : Logs[j].block > from => i <= j
  ELSE i = head + 1

\* i is the first log an endpoint sends (external): with a FromBlock, if it
\* replays, the first of that block; otherwise the next log to come.
Starts(i, from) ==
  IF Replay /\ from > 0
  THEN /\ i <= head => Logs[i].block >= from
       /\ \A j \in 1..head : Logs[j].block >= from => i <= j
  ELSE i = head + 1

\* Subscribe or Resubscribe: watchLogs asks for the logs from the cache's block on.
WatchLogs(s) ==
  /\ s \notin used /\ Cardinality(Live) < MaxLive
  /\ used' = used \cup {s}
  /\ \E i \in 1..(head + 1) : Starts(i, blockNumber) /\ next' = [next EXCEPT ![s] = i]
  /\ UNCHANGED <<head, blockNumber, data, handled, skipped>>

\* cleanup: blocks below the new number are dropped.
Cleaned(block) == {d \in data : d[1] >= block}

\* LogCache.Exists: a log at or above blockNumber moves it and drops the older
\* blocks; any log that was not there is added.
Exists(log) ==
  /\ blockNumber' = IF blockNumber <= log.block THEN log.block ELSE blockNumber
  /\ data' = (IF blockNumber <= log.block THEN Cleaned(log.block) ELSE data)
             \cup {<<log.block, log.tx>>}

\* Mutant: a block is remembered instead of its transactions.
KnownBlock(log) == \E d \in data : d[1] = log.block
\* Mutant: nothing is known of the block the cache is at.
KnownBelow(log) == <<log.block, log.tx>> \in data /\ log.block < blockNumber
Known(log) == <<log.block, log.tx>> \in data

\* The goroutine takes the next log: a known one is skipped, one that does not
\* unpack ends the subscription, any other is given to the handler.
Receive(s) ==
  LET i == next[s]
      log == Logs[i]
  IN /\ s \in Live /\ i <= head
     /\ Exists(log)
     /\ next' = [next EXCEPT ![s] = IF ~Known(log) /\ i \in BadLogs THEN 0 ELSE i + 1]
     /\ skipped' = IF Known(log) THEN skipped \cup {i} ELSE skipped
     /\ handled' = IF Known(log) \/ i \in BadLogs THEN handled ELSE [handled EXCEPT ![i] = @ + 1]
     /\ UNCHANGED <<head, used>>

\* The connection is lost with what it still had to send (see EthClient).
Drop(s) ==
  /\ s \in Live
  /\ next' = [next EXCEPT ![s] = 0]
  /\ UNCHANGED <<head, used, blockNumber, data, handled, skipped>>

Next ==
  \/ Emit
  \/ \E s \in Subs : WatchLogs(s) \/ Receive(s) \/ Drop(s)

Spec == Init /\ [][Next]_vars

\* Subscriptions are renewed (EthClient), their goroutines run, and the logs of
\* the instance are all emitted at some time.
FairSpec ==
  /\ Spec
  /\ WF_vars(Emit)
  /\ \A s \in Subs : WF_vars(Receive(s))
  /\ WF_vars(\E s \in Subs : WatchLogs(s))

-----------------------------------------------------------------------------
\* The type invariant of the cache and the subscriptions.
TypeOK ==
  /\ head \in 0..Len(Logs)
  /\ next \in [Subs -> 0..(Len(Logs) + 1)]
  /\ used \subseteq Subs
  /\ blockNumber \in Nat
  /\ data \subseteq Nat \X Nat
  /\ handled \in [Index -> Nat]
  /\ skipped \subseteq Index

\* OnEvent is called at most once for a log (the handler of a request signs it
\* and may call the destination bridge).
HandledOnce == \A i \in Index : handled[i] <= 1

\* The cache knows every handled log that is not older than its block number:
\* cleanup never drops what FromBlock will bring again.
Remembered ==
  \A i \in Index : handled[i] > 0 /\ Logs[i].block >= blockNumber =>
    <<Logs[i].block, Logs[i].tx>> \in data

\* A log is handled again only if its block is below the cache's: another
\* subscription has meanwhile brought a log of a later block.
RepeatOnlyBelow ==
  [][\A i \in Index : handled'[i] > handled[i] /\ handled[i] > 0 => Logs[i].block < blockNumber]_vars

\* A log is skipped only if a log of its transaction was handled, or could not
\* be unpacked.
SkippedTxSeen ==
  \A i \in skipped : \E j \in Index :
    Logs[j].tx = Logs[i].tx /\ (handled[j] > 0 \/ j \in BadLogs)

\* With an endpoint that replays, a log that comes after the first one the
\* watcher has seen is handled even if no subscription runs when it is emitted
\* (as long as the instance has subscriptions left).
CaughtUp ==
  \A i \in Index :
    head < i /\ blockNumber > 0
      ~> used = Subs \/ \E j \in Index : Logs[j].tx = Logs[i].tx /\ handled[j] > 0
=============================================================================
