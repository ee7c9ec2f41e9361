---------------------------- MODULE TxSortedMap ----------------------------
(***************************************************************************)
(* txSortedMap and nonceHeap of chain/tx_list.go as operators: a map from  *)
(* nonces to transactions, a heap of its nonces (container/heap), and a    *)
(* cache of the transactions in order.  A transaction is a record with a   *)
(* nonce; a map is a record in which cached says that cache is not nil.    *)
(***************************************************************************)
EXTENDS Integers, Sequences, SequencesExt

newTxSortedMap == [items |-> <<>>, index |-> <<>>, cache |-> <<>>, cached |-> FALSE]

Exchange(h, i, j) == [h EXCEPT ![i] = h[j], ![j] = h[i]]

\* heap.up, heap.down, heap.Push and heap.Pop (external) over nonceHeap's Less,
\* Swap, Push and Pop; indices from 1.
RECURSIVE Up(_, _)
Up(h, j) ==
  LET i == j \div 2
  IN IF j = 1 \/ h[j] >= h[i] THEN h ELSE Up(Exchange(h, i, j), i)

RECURSIVE Down(_, _)
Down(h, i) ==
  LET l == 2 * i
      j == IF l + 1 <= Len(h) /\ h[l + 1] < h[l] THEN l + 1 ELSE l
  IN IF l > Len(h) \/ h[j] >= h[i] THEN h ELSE Down(Exchange(h, i, j), j)

HeapPush(h, x) == Up(Append(h, x), Len(h) + 1)

HeapPop(h) == IF Len(h) = 1 THEN <<>> ELSE Down(Front(Exchange(h, 1, Len(h))), 1)

Set(items, tx) == [n \in DOMAIN items \cup {tx.nonce} |-> IF n = tx.nonce THEN tx ELSE items[n]]

\* Mutant: the cache outlives the change.
PutCached(m, tx) ==
  [m EXCEPT !.items = Set(m.items, tx),
            !.index = IF tx.nonce \in DOMAIN m.items THEN @ ELSE HeapPush(@, tx.nonce)]
\* Put: a known nonce is overwritten and stays once in the index.
Put(m, tx) ==
  [m EXCEPT !.items = Set(m.items, tx),
            !.index = IF tx.nonce \in DOMAIN m.items THEN @ ELSE HeapPush(@, tx.nonce),
            !.cache = <<>>, !.cached = FALSE]

Without(items, n) == [k \in DOMAIN items \ {n} |-> items[k]]

\* The loop of Ready: the run of nonces that starts at the smallest one.
RECURSIVE TakeRun(_, _, _)
TakeRun(m, next, ready) ==
  IF m.index = <<>> \/ m.index[1] # next THEN <<m, ready>>
  ELSE TakeRun([m EXCEPT !.items = Without(@, next), !.index = HeapPop(@)],
               next + 1, Append(ready, m.items[next]))

\* Ready: the map without the returned transactions, and those.
Ready(m, start) ==
  IF m.index = <<>> \/ m.index[1] > start THEN <<m, <<>>>>
  ELSE LET r == TakeRun(m, m.index[1], <<>>)
       IN <<[r[1] EXCEPT !.cache = <<>>, !.cached = FALSE], r[2]>>

ByNonce(t, u) == t.nonce < u.nonce

\* Flatten: the map with its cache filled, and a copy of the cache.
Flatten(m) ==
  LET sorted == IF m.cached THEN m.cache
                ELSE SetToSortSeq({m.items[n] : n \in DOMAIN m.items}, ByNonce)
  IN <<[m EXCEPT !.cache = sorted, !.cached = TRUE], sorted>>

\* Len and Empty.
Empty(m) == DOMAIN m.items = {}
=============================================================================
