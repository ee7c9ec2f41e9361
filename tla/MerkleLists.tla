---------------------------- MODULE MerkleLists ----------------------------
(* Every list of transactions up to a length, handed to NewMerkleTree one after the other. *)
EXTENDS MerkleTree, SequencesExt

CONSTANT Values   \* the serialized transactions

VARIABLE data     \* the list NewMerkleTree is called with

Init == data = << >>

Next == /\ Len(data) < MaxLen
        /\ \E v \in Values : data' = Append(data, v)

Spec == Init /\ [][Next]_data

-----------------------------------------------------------------------------
(* Every leaf of the finished tree, from left to right. *)
LeavesOf(t) ==
  LET depth2(x) == IF x[1] = "leaf" THEN <<x[2]>> ELSE <<x[2][2], x[3][2]>>
  IN IF t[1] = "leaf" THEN <<t[2]>>
     ELSE IF t[2][1] = "leaf" THEN depth2(t) ELSE depth2(t[2]) \o depth2(t[3])

(* NewMerkleTree has a root for one to four transactions and for no other number (the
   halving loop then reads past the end of a level), and with a root every datum is in the
   tree once, in the order of the list and with only the odd last one repeated: two lists
   that share a root differ in that repetition only. *)
EveryDatumHashed ==
  /\ NewMerkleTree(data) # Panic <=> Len(data) \in 1..4
  /\ Len(data) \in 1..4 =>
       LeavesOf(NewMerkleTree(data)) = IF Len(data) % 2 = 0 THEN data ELSE Append(data, Last(data))
=============================================================================
