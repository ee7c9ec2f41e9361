------------------------------- MODULE TxPool -------------------------------
(***************************************************************************)
(* The pool of cross-chain transactions (chain/tx_pool.go): its loop turns *)
(* events into transactions with consecutive nonces, queues each under its *)
(* sender's address and promotes what is ready to the pending lists, all   *)
(* with mu held; readers copy the pending lists.                           *)
(***************************************************************************)
EXTENDS TxSortedMap, FiniteSets

CONSTANTS
  Addresses,    \* bridges the events come from
  ChainIds,     \* their destinations
  Readers,      \* callers of PendingByChainId
  MaxEvents,    \* events sent to EventSourceReq
  Cap           \* its capacity (10 in NewTxPool)

VARIABLES
  EventSourceReq,  \* the channel
  sent,            \* events sent to it
  nonce,           \* TxPool.nonce
  queue, pending,  \* lists by address; only addresses with a list
  pcR,             \* where each reader is
  copied,          \* the result of Pending it has
  sorted,          \* the result of PendingByChainId
  stop             \* Stop: "no", "waiting" in wg.Wait, "done"

vars == <<EventSourceReq, sent, nonce, queue, pending, pcR, copied, sorted, stop>>

NoLists == [a \in {} |-> newTxSortedMap]

\* NewTxPool starts the loop.
Init ==
  /\ EventSourceReq = <<>> /\ sent = 0
  /\ nonce = 1
  /\ queue = NoLists /\ pending = NoLists
  /\ pcR = [r \in Readers |-> "idle"]
  /\ copied = [r \in Readers |-> <<>>] /\ sorted = [r \in Readers |-> <<>>]
  /\ stop = "no"

\* A watcher sends an event; it waits while the channel is full (external).
SendEvent(ev) ==
  /\ sent < MaxEvents /\ Len(EventSourceReq) < Cap
  /\ EventSourceReq' = Append(EventSourceReq, ev)
  /\ sent' = sent + 1
  /\ UNCHANGED <<nonce, queue, pending, pcR, copied, sorted, stop>>

At(lists, a) == IF a \in DOMAIN lists THEN lists[a] ELSE newTxSortedMap

WithList(lists, a, l) == [x \in DOMAIN lists \cup {a} |-> IF x = a THEN l ELSE lists[x]]

\* promoteTx for every transaction of a sequence.
PromoteAll(l, txs) == FoldLeft(Put, l, txs)

\* promoteExecutables for the address of the new transaction: what Ready returns
\* moves to pending, an empty queue is deleted.
promoteExecutables(a, q) ==
  LET r == Ready(At(q, a), nonce)
  IN /\ pending' = IF r[2] = <<>> THEN pending ELSE WithList(pending, a, PromoteAll(At(pending, a), r[2]))
     /\ queue' = IF Empty(r[1]) THEN [x \in DOMAIN q \ {a} |-> q[x]] ELSE WithList(q, a, r[1])

\* AddEvent: the next nonce, add, promoteExecutables, nonce++.
AddEvent(ev) ==
  /\ promoteExecutables(ev.from, WithList(queue, ev.from,
       Put(At(queue, ev.from), [nonce |-> nonce, from |-> ev.from, chainId |-> ev.chainId])))
  /\ nonce' = nonce + 1

\* The loop takes an event. (A ChainHeadEvent calls reset, which is empty.)
Loop ==
  /\ EventSourceReq # <<>>
  /\ AddEvent(Head(EventSourceReq))
  /\ EventSourceReq' = Tail(EventSourceReq)
  /\ UNCHANGED <<sent, pcR, copied, sorted, stop>>

\* Pending, with mu held: a sorted copy of every list; the caches stay filled.
Pending(r) ==
  LET f == [a \in DOMAIN pending |-> Flatten(pending[a])]
  IN /\ pcR[r] = "idle"
     /\ pending' = [a \in DOMAIN pending |-> f[a][1]]
     /\ copied' = [copied EXCEPT ![r] = [a \in DOMAIN pending |-> f[a][2]]]
     /\ pcR' = [pcR EXCEPT ![r] = "grouping"]
     /\ UNCHANGED <<EventSourceReq, sent, nonce, queue, sorted, stop>>

Concat(batches, order) == FlattenSeq([i \in 1..Len(order) |-> batches[order[i]]])

\* The two loops of PendingByChainId over the concatenated batches.
ByChain(txs) ==
  [c \in {txs[i].chainId : i \in 1..Len(txs)} |-> SelectSeq(txs, LAMBDA t : t.chainId = c)]

\* The rest of PendingByChainId: the batches are taken in the map's order, which
\* is any order.
PendingByChainId(r) ==
  /\ pcR[r] = "grouping"
  /\ \E order \in SetToSeqs(DOMAIN copied[r]) :
       sorted' = [sorted EXCEPT ![r] = ByChain(Concat(copied[r], order))]
  /\ pcR' = [pcR EXCEPT ![r] = "done"]
  /\ UNCHANGED <<EventSourceReq, sent, nonce, queue, pending, copied, stop>>

\* Stop: the subscriptions end, then wg.Wait for the loop, which never returns.
Stop ==
  /\ stop = "no" /\ stop' = "waiting"
  /\ UNCHANGED <<EventSourceReq, sent, nonce, queue, pending, pcR, copied, sorted>>

Next ==
  \/ \E a \in Addresses, c \in ChainIds : SendEvent([from |-> a, chainId |-> c])
  \/ Loop
  \/ \E r \in Readers : Pending(r) \/ PendingByChainId(r)
  \/ Stop

Spec == Init /\ [][Next]_vars

-----------------------------------------------------------------------------
Held == UNION {{pending[a].items[n] : n \in DOMAIN pending[a].items} : a \in DOMAIN pending}

\* The type invariant: a list is kept under its transactions' address and has
\* at least one.
TypeOK ==
  /\ Len(EventSourceReq) <= Cap
  /\ nonce \in 1..(MaxEvents + 1)
  /\ DOMAIN queue \subseteq Addresses /\ DOMAIN pending \subseteq Addresses
  /\ \A a \in DOMAIN pending : ~Empty(pending[a])
  /\ \A t \in Held : t.nonce \in DOMAIN pending[t.from].items

\* Every event becomes pending at once, under a nonce of its own: the nonces of
\* all pending lists together are 1 to nonce - 1, and nothing stays queued.
EveryEventPending ==
  /\ Cardinality(Held) = sent - Len(EventSourceReq)
  /\ {t.nonce : t \in Held} = 1..(nonce - 1)
  /\ DOMAIN queue = {}

\* PendingByChainId returns each transaction Pending copied under its own
\* destination, and in the order of nonces among those of one address.
GroupsComplete ==
  \A r \in Readers : pcR[r] = "done" =>
    /\ \A a \in DOMAIN copied[r] : \A i \in 1..Len(copied[r][a]) :
         \E j \in 1..Len(sorted[r][copied[r][a][i].chainId]) :
           sorted[r][copied[r][a][i].chainId][j] = copied[r][a][i]
    /\ \A c \in DOMAIN sorted[r] : \A i, j \in 1..Len(sorted[r][c]) :
         /\ sorted[r][c][i].chainId = c
         /\ i < j /\ sorted[r][c][i].from = sorted[r][c][j].from =>
              sorted[r][c][i].nonce < sorted[r][c][j].nonce
=============================================================================
