-------------------------- MODULE MCOracleSession --------------------------
(* Instances of OracleSession for TLC. *)
EXTENDS OracleSession, TLC

CONSTANTS n1, n2, n3, n4

\* Hash orders of the small networks.
Rank3 == n1 :> 1 @@ n2 :> 2 @@ n3 :> 3
Rank4 == n1 :> 1 @@ n2 :> 2 @@ n3 :> 3 @@ n4 :> 4

\* Peers listed on the topic: all; in a network of four, lists of three
\* and of four, where n3 joins but opens no session; only n4 sees everybody.
AllPeers == [n \in Nodes |-> {Nodes \ {n}}]
UnevenPeers == n1 :> {{n2, n3}} @@ n2 :> {{n3, n4}} @@ n3 :> {}
               @@ n4 :> {{n1, n2, n3}}
LatePeer == n1 :> {{n2, n3}} @@ n2 :> {{n1, n3}} @@ n3 :> {{n1, n2}}
            @@ n4 :> {{n1, n2, n3}}
=============================================================================
