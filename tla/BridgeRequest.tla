---------------------------- MODULE BridgeRequest ----------------------------
(***************************************************************************)
(* What the relayer network promises for one oracle request, without       *)
(* topics, sessions or messages: nodes sign the request; a node may agree  *)
(* on it once a quorum has signed; only a node that agreed calls the       *)
(* destination bridge, and none calls it twice.                            *)
(***************************************************************************)
CONSTANTS
  Nodes,   \* the registered nodes
  Quorums  \* sets of signers that are enough

VARIABLES
  signed,  \* nodes that have signed the request
  agreed,  \* nodes that hold a verified multisignature
  called   \* nodes that called the destination bridge

vars == <<signed, agreed, called>>

Init ==
  /\ signed = {}
  /\ agreed = {}
  /\ called = {}

Sign(n) ==
  /\ n \notin signed
  /\ signed' = signed \cup {n}
  /\ UNCHANGED <<agreed, called>>

Agree(n) ==
  /\ n \notin agreed
  /\ signed \in Quorums
  /\ agreed' = agreed \cup {n}
  /\ UNCHANGED <<signed, called>>

Call(n) ==
  /\ n \in agreed \ called
  /\ called' = called \cup {n}
  /\ UNCHANGED <<signed, agreed>>

Next == \E n \in Nodes : Sign(n) \/ Agree(n) \/ Call(n)

Spec == Init /\ [][Next]_vars
=============================================================================
