----------------------------- MODULE MerkleTree -----------------------------
(* The hash a block takes from its transactions (chain/merkle_tree.go).

   NewMerkleTree builds the tree bottom-up in one array of nodes: an odd number of
   leaves is made even by repeating the last one, then the array is halved as many
   times as there are pairs of leaves.  Only the Data of a node matters to its users,
   so a node is its hash, and sha256 is taken to be injective: a hash is the term that
   was hashed.  An index outside the array is a panic of the Go runtime. *)
EXTENDS Naturals, Sequences

CONSTANT MaxLen   \* the longest list of transactions tried

\* What stands for the root when an index is out of range.
Panic == <<"panic">>

\* NewMerkleNode: a leaf hashes its data, an inner node the hashes of its two children.
Leaf(datum) == <<"leaf", datum>>
Inner(left, right) == <<"inner", left, right>>

\* The list with the last datum repeated when its length is odd.
Padded(d) == IF Len(d) % 2 = 0 THEN d ELSE Append(d, d[Len(d)])

\* Mutant: the two halves of a level are paired instead of its neighbours.
NewLevelHalves(nodes) ==
  IF Len(nodes) % 2 = 1 THEN << >>
  ELSE [k \in 1..(Len(nodes) \div 2) |-> Inner(nodes[k], nodes[k + Len(nodes) \div 2])]

\* One pass of the loop over j: two neighbours make a node of the new level.  nodes[j+1]
\* is out of range when the level has an odd number of nodes; no level comes after that.
NewLevel(nodes) ==
  IF Len(nodes) % 2 = 1 THEN << >>
  ELSE [k \in 1..(Len(nodes) \div 2) |-> Inner(nodes[2*k - 1], nodes[2*k])]

\* NewMerkleTree(data).RootNode.Data: len(data)/2 passes, then nodes[0].
NewMerkleTree(d) ==
  LET leaves == [k \in DOMAIN Padded(d) |-> Leaf(Padded(d)[k])]
      passes[i \in 0..MaxLen] == IF i = 0 THEN leaves ELSE NewLevel(passes[i - 1])
      nodes  == passes[Len(Padded(d)) \div 2]
  IN IF nodes = << >> THEN Panic ELSE nodes[1]
=============================================================================
