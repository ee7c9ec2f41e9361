------------------------------ MODULE MCStored ------------------------------
(* Instances of what a node keeps of blocks and transactions: BlockStore for the block
   database (in Storage), TxList and TxPool for the transactions in memory, MerkleLists for
   the root of a block.  A behaviour is one of an instance, named by part; the variables of
   the others stay as they are. *)
EXTENDS Storage, Naturals

CONSTANTS v1, v2, a1, a2, c1, c2, r1

VARIABLES
  part,
  txs, start, had, ready, flat,
  EventSourceReq, sentEvents, nonce, queue, pending, pcR, copied, sorted, stop,
  data

List == INSTANCE TxList WITH MaxNonce <- 4, Versions <- {1, 2}
Pool == INSTANCE TxPool WITH
  Addresses <- {a1, a2}, ChainIds <- {c1, c2}, Readers <- {r1}, MaxEvents <- 3, Cap <- 2,
  sent <- sentEvents
Roots == INSTANCE MerkleLists WITH Values <- {v1, v2}, MaxLen <- 8

\* Blocks of one and of two transactions that share one, with none repeated in a block.
SmallBlocks ==
  LET tx(v) == Store!NewTransaction(v, 1)
  IN { Store!NewBlock(n, block) : n \in {1, 2},
         block \in {<<tx(v1)>>, <<tx(v1), tx(v2)>>, <<tx(v2), tx(v1)>>} }

list == <<txs, start, had, ready, flat>>
pool == <<EventSourceReq, sentEvents, nonce, queue, pending, pcR, copied, sorted, stop>>
all == <<part, store, list, pool, data>>

MCInit ==
  /\ part \in {"store", "list", "pool", "roots"}
  /\ Store!Init /\ List!Init /\ Pool!Init /\ Roots!Init

MCNext ==
  \/ part = "store" /\ Store!Next /\ UNCHANGED <<part, list, pool, data>>
  \/ part = "list" /\ List!Next /\ UNCHANGED <<part, store, pool, data>>
  \/ part = "pool" /\ Pool!Next /\ UNCHANGED <<part, store, list, data>>
  \/ part = "roots" /\ Roots!Next /\ UNCHANGED <<part, store, list, pool>>

MCSpec == MCInit /\ [][MCNext]_all

-----------------------------------------------------------------------------
\* The type invariants of the store and the pool's lists.
TypesOK ==
  /\ part = "store" => Store!TypeOK
  /\ part = "list" => List!TypeOK
  /\ part = "pool" => Pool!TypeOK

\* The pool agrees with definitions that use neither heap nor cache: Ready returns the
\* longest run from the smallest nonce on, if that is not above start (tx_list.go:131),
\* Flatten every transaction by nonce in its latest version (tx_list.go:156), every event is
\* pending under a nonce of its own (tx_pool.go:124), and PendingByChainId has all
\* transactions it copied under their destinations (tx_pool.go:296).
PoolAgrees ==
  /\ part = "list" => List!ReadyIsFirstRun /\ List!FlattenIsSorted
  /\ part = "pool" => Pool!EveryEventPending /\ Pool!GroupsComplete

\* NewMerkleTree (merkle_tree.go:20) has a root for one to four transactions and for no
\* other number, and the root has every datum once and in order, the odd last one twice.
EveryDatumHashed == part = "roots" => Roots!EveryDatumHashed
=============================================================================
