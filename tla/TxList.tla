------------------------------- MODULE TxList -------------------------------
(***************************************************************************)
(* A txList (chain/tx_list.go) under any sequence of Add, Ready and        *)
(* Flatten, with gaps and repeated nonces.                                 *)
(***************************************************************************)
EXTENDS TxSortedMap, FiniteSets

CONSTANTS MaxNonce, Versions   \* nonces used, transactions for one nonce

VARIABLES
  txs,    \* txList.txs
  start,  \* the last call of Ready: its argument,
  had,    \* the nonces there were
  ready,  \* and what it returned
  flat    \* what the last call returned if it was Flatten, with its map

vars == <<txs, start, had, ready, flat>>

Nonces == 1..MaxNonce
NoFlat == [of |-> <<>>, txs |-> <<>>]

Init ==
  /\ txs = newTxSortedMap
  /\ start = 0 /\ had = {} /\ ready = <<>> /\ flat = NoFlat

\* Add: an older transaction is only warned about.
Add(tx) ==
  /\ txs' = Put(txs, tx)
  /\ flat' = NoFlat
  /\ UNCHANGED <<start, had, ready>>

CallReady(n) ==
  LET r == Ready(txs, n)
  IN /\ txs' = r[1] /\ ready' = r[2]
     /\ start' = n /\ had' = DOMAIN txs.items
     /\ flat' = NoFlat

CallFlatten ==
  LET r == Flatten(txs)
  IN /\ txs' = r[1]
     /\ flat' = [of |-> txs.items, txs |-> r[2]]
     /\ UNCHANGED <<start, had, ready>>

Next ==
  \/ \E n \in Nonces, v \in Versions : Add([nonce |-> n, version |-> v])
  \/ \E n \in Nonces : CallReady(n)
  \/ CallFlatten

Spec == Init /\ [][Next]_vars

-----------------------------------------------------------------------------
NoncesOf(s) == [i \in 1..Len(s) |-> s[i].nonce]

\* The type invariant: the index is a heap of the nonces of items, each once.
TypeOK ==
  /\ DOMAIN txs.items \subseteq Nonces
  /\ \A n \in DOMAIN txs.items : txs.items[n].nonce = n
  /\ Len(txs.index) = Cardinality(DOMAIN txs.items)
  /\ {txs.index[i] : i \in 1..Len(txs.index)} = DOMAIN txs.items
  /\ \A i \in 2..Len(txs.index) : txs.index[i \div 2] < txs.index[i]

\* What Ready returns, against a definition without heap and loop: if the
\* smallest nonce is not above start, the longest run of nonces from it on;
\* and those leave the list.
ReadyIsFirstRun ==
  LET least == CHOOSE n \in had : \A k \in had : n <= k
      run == {n \in had : \A k \in least..n : k \in had}
  IN IF had = {} \/ least > start THEN ready = <<>>
     ELSE NoncesOf(ready) = [i \in 1..Cardinality(run) |-> least + i - 1]

\* Flatten returns every transaction of the list, in order of nonce, in its
\* latest version: the cache is never out of date.
FlattenIsSorted ==
  /\ \A i \in 1..(Len(flat.txs) - 1) : flat.txs[i].nonce < flat.txs[i + 1].nonce
  /\ {flat.txs[i] : i \in 1..Len(flat.txs)} = {flat.of[n] : n \in DOMAIN flat.of}
=============================================================================
