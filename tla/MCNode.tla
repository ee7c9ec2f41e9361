------------------------------- MODULE MCNode -------------------------------
(* Instances of a relayer: the commands that register it (in Registering), NodeRun for the
   process from its start to its end, and Transactions for the transactions it sends meanwhile.
   A behaviour is one of an instance, named by part; the variables of the other modules stay as
   they are. *)
EXTENDS NodeRun, Registering

CONSTANTS r1, r2, r3, u1, n1, n2, GsnOwner, Nobody

VARIABLES
  part,
  nonceMx, at, nonce, result, call, srv, mx, ownNonce, peer, link, pool, mined, fwd, status,
  failures

\* Two requests and an epoch update of one node, sent by itself or through the gsn node, and
\* the requests of two nodes that share the gsn node.
OneNode == [s \in {r1, r2, u1} |-> n1]
TwoNodes == [s \in {r1, r2, r3} |-> IF s = r3 THEN n2 ELSE n1]
Direct == INSTANCE Transactions WITH
  Requests <- {r1, r2}, Epochs <- {u1}, NodeOf <- OneNode, UseGsn <- FALSE, MaxFailures <- 1,
  Owner <- GsnOwner, None <- Nobody, pc <- at
Relayed == INSTANCE Transactions WITH
  Requests <- {r1, r2}, Epochs <- {u1}, NodeOf <- OneNode, UseGsn <- TRUE, MaxFailures <- 1,
  Owner <- GsnOwner, None <- Nobody, pc <- at
Shared == INSTANCE Transactions WITH
  Requests <- {r1, r2, r3}, Epochs <- {}, NodeOf <- TwoNodes, UseGsn <- TRUE, MaxFailures <- 1,
  Owner <- GsnOwner, None <- Nobody, pc <- at

\* The instances satisfy what Transactions takes for granted.
ASSUME SettingsOK == Direct!Setting /\ Relayed!Setting /\ Shared!Setting

sending == <<nonceMx, at, nonce, result, call, srv, mx, ownNonce, peer, link, pool, mined, fwd,
             status, failures>>
all == <<part, vars, registration, sending>>

MCInit ==
  /\ Init /\ Reg!Init
  /\ \/ part \in {"register", "run", "direct", "relayed"} /\ Direct!Init
     \/ part = "shared" /\ Shared!Init

MCNext ==
  \/ part = "register" /\ Reg!Next /\ UNCHANGED <<part, vars, sending>>
  \/ part = "run" /\ Next /\ UNCHANGED <<part, registration, sending>>
  \/ part = "direct" /\ Direct!Next /\ UNCHANGED <<part, vars, registration>>
  \/ part = "relayed" /\ Relayed!Next /\ UNCHANGED <<part, vars, registration>>
  \/ part = "shared" /\ Shared!Next /\ UNCHANGED <<part, vars, registration>>

\* The fairness of NodeRun and of Transactions.
MCSpec ==
  /\ MCInit /\ [][MCNext]_all
  /\ WF_all(part = "run" /\ Start /\ UNCHANGED <<part, registration, sending>>)
  /\ WF_all(part = "run" /\ End /\ UNCHANGED <<part, registration, sending>>)
  /\ \A s \in {r1, r2, u1} :
       WF_all(/\ \/ part = "direct" /\ Direct!Step(s)
                 \/ part = "relayed" /\ Relayed!Step(s)
              /\ UNCHANGED <<part, vars, registration>>)

-----------------------------------------------------------------------------
\* The type invariants of the commands, the process and the senders.
TypesOK ==
  /\ TypeOK /\ Reg!TypeOK
  /\ part # "shared" => Direct!TypeOK
  /\ part = "shared" => Shared!TypeOK

\* A request is refused or replaced for its account nonce only if the node sends it itself
\* and an UpdateEpoch, which does not take nonceMx (node.go:682), used the same one; what
\* the gsn node sends from its owner's account for several nodes never clashes
\* (server.go:58).
NonceClashNeedsEpoch ==
  /\ part = "direct" => Direct!NonceClashNeedsEpoch
  /\ part = "relayed" => Relayed!NonceClashNeedsEpoch
  /\ part = "shared" => Shared!NonceClashNeedsEpoch

\* A forwarded request is reverted only if another one of its node had read the same
\* forwarder nonce: nonceMx is given up before the first is mined (node.go:318).
RevertNeedsOverlap ==
  /\ part = "relayed" => Relayed!RevertNeedsOverlap
  /\ part = "shared" => Shared!RevertNeedsOverlap

\* Every call of ReceiveRequestV2 and every epoch goroutine returns, whatever call fails: no
\* path leaves nonceMx or the gsn server's mutex locked.
SendersReturn ==
  \A s \in {r1, r2, u1} : <>(part \in {"direct", "relayed"} => at[s] = "done")
=============================================================================
