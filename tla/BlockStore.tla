----------------------------- MODULE BlockStore -----------------------------
(* The block database: rawdb's accessors (chain/rawdb) over the key-value store
   (chain/storage), with the block, transaction and header types they store (chain).

   db maps keys to values.  A key is the sequence of the pieces rawdb appends: the
   one-byte prefix, the eight bytes of the number, the hash, the one-byte suffix.  One
   writer stores blocks the way the tests do, the body first and then one lookup entry
   for each transaction; headers, canonical hashes, head hashes and difficulties are
   written and deleted around it.  A Put may fail: rawdb logs that and goes on.  The
   process may stop between two Puts.

   sha256 is injective, so a hash is the term it was taken of.  Zero is common.Hash{}. *)
EXTENDS Naturals, Sequences, MerkleTree

CONSTANTS
  Blocks,      \* the blocks the writer stores, made by NewBlock
  Numbers,     \* block numbers
  Epochs,      \* what tells two headers of one number apart
  MaxOps,      \* how many operations are started
  MaxFaults    \* how many Puts fail and how many times the process stops, together

\* What the writer and NewBlock see to, and blocks that repeat no transaction: only the
\* repeated last one of an odd list gives two lists one root (MerkleLists).
Setting ==
  /\ MaxOps \in Nat /\ MaxFaults \in Nat
  /\ \A b \in Blocks : /\ b.number \in Numbers /\ b.hash[1] = "root"
                       /\ DOMAIN b.txs = 1..Len(b.txs)
  /\ \A b, c \in Blocks : b.hash = c.hash => b.txs = c.txs

\* common.Hash{}, and what a deleted key holds.
Zero == <<"zero">>
NoValue == <<"absent">>

VARIABLES
  db,       \* the key-value store
  writer,   \* the keys and values the running operation has still to store
  gone,     \* the bodies that were deleted or whose Put failed
  ops,      \* operations started
  faults    \* Puts failed and stops

vars == <<db, writer, gone, ops, faults>>
-----------------------------------------------------------------------------
(* Transactions and blocks. *)

\* NewTransaction takes nonce and chain from the event.
NewTransaction(v, n) == [origin |-> v, nonce |-> n, chainId |-> n]

\* Gob and RLP encode the exported field alone, so nonce and chainId come back as zero.
Serialize(tx) == tx.origin
Deserialize(d) == [origin |-> d, nonce |-> 0, chainId |-> 0]

TxHash(tx) == <<"tx", Serialize(tx)>>

\* NewBlock: the hash covers the transactions only.
NewBlock(number, txs) ==
  [number |-> number, txs |-> txs,
   hash |-> <<"root", NewMerkleTree([k \in DOMAIN txs |-> Serialize(txs[k])])>>]

\* The body as rlp encodes and decodes it, and the hashes in use.
Encode(block) == <<"body", block.number, block.hash,
                   [k \in DOMAIN block.txs |-> Deserialize(Serialize(block.txs[k]))]>>
Hashes == { b.hash : b \in Blocks } \cup {Zero}
-----------------------------------------------------------------------------
(* The schema of the keys, and LevelDBStore: Get reports a missing key. *)
headerKey(number, hash) == <<"h", number, hash>>
headerHashKey(number) == <<"h", number, <<"n">>>>
headerNumberKey(hash) == <<"H", hash>>

blockBodyKey(number, hash) == <<"b", number, hash>>
txLookupKey(hash) == <<"l", hash>>
HeadKeys == {<<"LastHeader">>, <<"LastBlock">>, <<"LastFast">>}

\* Mutant: the suffix of the difficulty's key is forgotten.
headerTDKeyBare(number, hash) == headerKey(number, hash)

headerTDKey(number, hash) == headerKey(number, hash) \o <<<<"t">>>>

Found(key) == key \in DOMAIN db
Changed(key, value) ==
  IF value = NoValue THEN [k \in DOMAIN db \ {key} |-> db[k]]
  ELSE [k \in DOMAIN db \cup {key} |-> IF k = key THEN value ELSE db[k]]
-----------------------------------------------------------------------------
Init == db = << >> /\ writer = << >> /\ gone = {} /\ ops = 0 /\ faults = 0

\* The running operation is handed its Puts and Deletes, to be made in this order.
Begin(puts) == /\ writer = << >> /\ ops < MaxOps
               /\ writer' = puts
               /\ ops' = ops + 1
               /\ UNCHANGED <<db, gone, faults>>

\* WriteTxLookupEntries: the position of every transaction under its hash.
TxLookupEntries(block) ==
  [k \in DOMAIN block.txs |->
    <<txLookupKey(TxHash(block.txs[k])), <<"entry", block.hash, block.number, k>>>>]

\* Mutant: the entries are stored before the body they point to.
WriteBlockLast(block) ==
  Begin(Append(TxLookupEntries(block), <<blockBodyKey(block.number, block.hash), Encode(block)>>))

\* WriteBlock, then WriteTxLookupEntries, as leveldb_store_test.go calls them.
WriteBlock(block) ==
  Begin(<< <<blockBodyKey(block.number, block.hash), Encode(block)>> >> \o TxLookupEntries(block))

\* WriteHeader files a header under the hash of its parent, the number mapping first.
WriteHeader(parent, number, epoch) ==
  Begin(<< <<headerNumberKey(parent), <<"number", number>>>>,
           <<headerKey(number, parent), <<"header", parent, number, epoch>>>> >>)

DeleteHeader(hash, number) ==
  Begin(<< <<headerKey(number, hash), NoValue>>, <<headerNumberKey(hash), NoValue>> >>)

WriteCanonicalHash(hash, number) == Begin(<< <<headerHashKey(number), hash>> >>)
DeleteCanonicalHash(number) == Begin(<< <<headerHashKey(number), NoValue>> >>)

\* WriteHeadHeaderHash, WriteHeadBlockHash, WriteHeadFastBlockHash.
WriteHeadHash(hash) == \E key \in HeadKeys : Begin(<< <<key, hash>> >>)

WriteTd(hash, number) == Begin(<< <<headerTDKey(number, hash), <<"td", number>>>> >>)
DeleteTd(hash, number) == Begin(<< <<headerTDKey(number, hash), NoValue>> >>)
DeleteBody(hash, number) == Begin(<< <<blockBodyKey(number, hash), NoValue>> >>)

\* One Put or Delete of the running operation.
Put == /\ writer # << >>
       /\ LET key == writer[1][1]
              value == writer[1][2]
          IN /\ db' = Changed(key, value)
             /\ gone' = IF key[1] # "b" THEN gone
                        ELSE IF value = NoValue THEN gone \cup {key} ELSE gone \ {key}
       /\ writer' = Tail(writer)
       /\ UNCHANGED <<ops, faults>>

\* The store answers with an error, which is logged: the operation goes on.
PutFails == /\ writer # << >> /\ faults < MaxFaults
            /\ gone' = IF writer[1][1][1] = "b" /\ ~Found(writer[1][1])
                       THEN gone \cup {writer[1][1]} ELSE gone
            /\ writer' = Tail(writer)
            /\ faults' = faults + 1
            /\ UNCHANGED <<db, ops>>

\* The process stops; what it has stored is there when it starts again.
Stop == /\ writer # << >> /\ faults < MaxFaults
        /\ writer' = << >>
        /\ faults' = faults + 1
        /\ UNCHANGED <<db, gone, ops>>

Next == \/ \E b \in Blocks : WriteBlock(b)
        \/ \E h \in Hashes, n \in Numbers :
             \/ \E e \in Epochs : WriteHeader(h, n, e)
             \/ DeleteHeader(h, n)
             \/ WriteCanonicalHash(h, n) \/ WriteTd(h, n)
             \/ DeleteTd(h, n) \/ DeleteBody(h, n)
        \/ \E h \in Hashes : WriteHeadHash(h)
        \/ \E n \in Numbers : DeleteCanonicalHash(n)
        \/ Put \/ PutFails \/ Stop

Spec == Init /\ [][Next]_vars
-----------------------------------------------------------------------------
(* Every key holds a value of the accessor that owns it: no two accessors share a key. *)
TypeOK ==
  /\ ops \in 0..MaxOps /\ faults \in 0..MaxFaults
  /\ \A n \in Numbers, h \in Hashes :
       /\ Found(headerKey(n, h)) => db[headerKey(n, h)] \in { <<"header", h, n, e>> : e \in Epochs }
       /\ Found(headerTDKey(n, h)) => db[headerTDKey(n, h)] = <<"td", n>>
       /\ Found(headerHashKey(n)) => db[headerHashKey(n)] \in Hashes
       /\ Found(headerNumberKey(h)) => db[headerNumberKey(h)] \in { <<"number", m>> : m \in Numbers }
       /\ Found(blockBodyKey(n, h)) => db[blockBodyKey(n, h)][1] = "body"

(* The keys ReadTransaction follows: from a transaction's hash to its entry, from there to
   the body. *)
Entries == { k \in DOMAIN db : k[1] = "l" }
BodyOf(k) == blockBodyKey(db[k][3], db[k][2])

(* ReadTransaction retrieves the transaction it was asked for: the position kept for a hash
   is, in the body stored now, a position of a transaction with that hash.  Bodies of one
   number and root overwrite each other, entries are overwritten one by one. *)
LookupSound ==
  \A k \in Entries : Found(BodyOf(k)) =>
    /\ db[k][4] \in DOMAIN db[BodyOf(k)][4]
    /\ TxHash(db[BodyOf(k)][4][db[k][4]]) = k[2]

(* ReadTransaction never panics on a body that is not there unless that very body was
   deleted or could not be stored: stopping anywhere leaves no entry without its body. *)
EntryNeedsBody == \A k \in Entries : Found(BodyOf(k)) \/ BodyOf(k) \in gone
=============================================================================
