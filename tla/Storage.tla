------------------------------ MODULE Storage -------------------------------
(* The block database of a node, with what a reader of it relies on. *)
CONSTANTS Blocks, Numbers, Epochs, MaxLen, MaxOps, MaxFaults

VARIABLES db, writer, gone, ops, faults

Store == INSTANCE BlockStore

\* The instance satisfies what BlockStore takes for granted.
ASSUME StoreOK == Store!Setting

store == <<db, writer, gone, ops, faults>>
-----------------------------------------------------------------------------
\* ReadTransaction retrieves the transaction it was asked for (indexes.go:36): the position
\* kept for a hash is, in the body stored now, a position of a transaction with that hash,
\* and a body is missing only if it was deleted or could not be stored, since the process may
\* stop anywhere (accessors_chain.go:198). This takes blocks that repeat no transaction.
LookupFinds == Store!LookupSound /\ Store!EntryNeedsBody
=============================================================================
