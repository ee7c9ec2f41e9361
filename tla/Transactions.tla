---------------------------- MODULE Transactions ----------------------------
(***************************************************************************)
(* The transactions the nodes send to one chain: the calls of              *)
(* ReceiveRequestV2 and of SpreadNewEpoch's goroutines                     *)
(* (node/bridge/node.go), sent by the node itself (CallOpt in              *)
(* extChains/eth/client_methods.go) or, signed as a forward request        *)
(* (forward/bridge.go, base.go), through the GSN peer                      *)
(* (libp2p/rpc/gsn).  A transaction takes the account's next nonce, a      *)
(* forward request the signer's nonce in the forwarder contract; both are  *)
(* read before they are used.                                              *)
(***************************************************************************)
EXTENDS Integers, Sequences

CONSTANTS
  Requests,     \* calls of ReceiveRequestV2
  Epochs,       \* goroutines of SpreadNewEpoch, one for this chain each
  NodeOf,       \* the node of each of them
  UseGsn,       \* CanUseGsn(chain) && gsnClient != nil
  Owner,        \* the GSN peer's account
  None,
  MaxFailures   \* remote calls that fail

Senders == Requests \cup Epochs
Nodes == {NodeOf[s] : s \in Senders}
Accounts == Nodes \cup {Owner}

\* Calls are told apart from each other and from None, accounts from the owner's.
Setting ==
  /\ Requests \cap Epochs = {} /\ None \notin Senders /\ Owner \notin Nodes
  /\ MaxFailures \in Nat

VARIABLES
  nonceMx,   \* holder of each node's nonceMx
  pc,        \* where each sender is
  nonce,     \* the nonce it has read
  result,    \* what it returned: "receipt" or "error"
  call,      \* its RPC request to the GSN peer
  srv,       \* the GSN server's handling of that call
  mx,        \* holder of the GSN server's mutex
  ownNonce,  \* the owner's nonce a handler of the server has read
  peer,      \* Client.gsnPeerId is set, by node
  link,      \* nodes connected to the GSN peer
  pool,      \* transactions sent and not mined
  mined,     \* transactions mined, by account
  fwd,       \* the forwarder contract's nonces
  status,    \* what became of each sender's transaction
  failures

node == <<nonceMx, pc, nonce, result>>
gsn == <<call, srv, mx, ownNonce>>
net == <<peer, link>>
chain == <<pool, mined, fwd, status>>
vars == <<node, gsn, net, chain, failures>>

Init ==
  /\ nonceMx = [n \in Nodes |-> None]
  /\ pc = [s \in Senders |-> "start"]
  /\ nonce = [s \in Senders |-> -1] /\ ownNonce = [s \in Senders |-> -1]
  /\ result = [s \in Senders |-> "none"]
  /\ call = [s \in Senders |-> <<>>]
  /\ srv = [s \in Senders |-> "idle"] /\ mx = None
  /\ peer = [n \in Nodes |-> FALSE] /\ link = {}
  /\ pool = {} /\ mined = [a \in Accounts |-> 0] /\ fwd = [n \in Nodes |-> 0]
  /\ status = [s \in Senders |-> "none"]
  /\ failures = 0

Goto(s, l) == pc' = [pc EXCEPT ![s] = l]
Unlock(s) == nonceMx' = [nonceMx EXCEPT ![NodeOf[s]] = IF @ = s THEN None ELSE @]

\* The sender returns err, having given nonceMx back if it holds it.
\* Mutant: the early returns keep the mutex.
ReturnErrorLocked(s) ==
  /\ Goto(s, "done") /\ result' = [result EXCEPT ![s] = "error"]
  /\ UNCHANGED nonceMx
ReturnError(s) ==
  /\ Goto(s, "done") /\ result' = [result EXCEPT ![s] = "error"]
  /\ Unlock(s)

-----------------------------------------------------------------------------
(* The chain (external). *)

\* The nonce after the last of the account's transactions, mined or in the pool.
PendingNonceAt(a) ==
  LET next == {mined[a]} \cup {t.nonce + 1 : t \in {u \in pool : u.from = a}}
  IN CHOOSE n \in next : \A k \in next : k <= n

\* A transaction is taken; with a nonce that is mined it is refused, with one
\* that is in the pool it is refused or, if it pays more, takes its place.
SendTransaction(s, a, n, request, Accepted, Refused) ==
  LET rivals == {t \in pool : t.from = a /\ t.nonce = n}
      tx == [from |-> a, nonce |-> n, by |-> s, request |-> request]
  IN \/ /\ n >= mined[a]
        /\ pool' = (pool \ rivals) \cup {tx}
        /\ status' = [x \in Senders |->
             IF x = s THEN "sent" ELSE IF \E t \in rivals : t.by = x THEN "replaced" ELSE status[x]]
        /\ Accepted
     \/ /\ n < mined[a] \/ rivals # {}
        /\ status' = [status EXCEPT ![s] = "refused"]
        /\ UNCHANGED pool
        /\ Refused

\* NewForwardRequestTypedData: what is signed of a forward request.
TypedData(r) == <<r.from, r.nonce, r.data>>

\* SignTypedData over it, with the node's key.
Sign(n, data) == [key |-> n, data |-> data]

\* The forwarder contract's execute: signature and nonce must fit.
Verifies(c) ==
  LET r == c.request
  IN c.signature = Sign(r.from, TypedData(r)) /\ r.nonce = fwd[r.from]

\* The next transaction of an account is mined; a forward request that does
\* not verify is reverted.
Mine(t) ==
  LET forwarded == t.request # <<>>
      ok == forwarded => Verifies(t.request)
  IN /\ t \in pool /\ t.nonce = mined[t.from]
     /\ pool' = pool \ {t}
     /\ mined' = [mined EXCEPT ![t.from] = @ + 1]
     /\ fwd' = IF forwarded /\ ok THEN [fwd EXCEPT ![t.request.request.from] = @ + 1] ELSE fwd
     /\ status' = [status EXCEPT ![t.by] = IF ok THEN "ok" ELSE "reverted"]
     /\ UNCHANGED <<node, gsn, net, failures>>

-----------------------------------------------------------------------------
(* The node. *)

\* GetEthClient and NewBridge, whose error is only logged.
Begin(s) ==
  /\ s \in Requests /\ pc[s] = "start"
  /\ Goto(s, "lock")
  /\ UNCHANGED <<nonceMx, nonce, result, gsn, net, chain, failures>>

Lock(s) ==
  /\ pc[s] = "lock" /\ nonceMx[NodeOf[s]] = None
  /\ nonceMx' = [nonceMx EXCEPT ![NodeOf[s]] = s]
  /\ Goto(s, "locked")
  /\ UNCHANGED <<nonce, result, gsn, net, chain, failures>>

\* Mutant: the nonce after the mined transactions is taken.
CallOptMined(s) ==
  /\ IF s \in Epochs THEN pc[s] = "start" ELSE pc[s] = "locked" /\ ~UseGsn
  /\ nonce' = [nonce EXCEPT ![s] = mined[NodeOf[s]]]
  /\ Goto(s, "opts")
  /\ UNCHANGED <<nonceMx, result, gsn, net, chain, failures>>
\* CallOpt reads the pending nonce; an epoch goroutine does so without nonceMx.
CallOpt(s) ==
  /\ IF s \in Epochs THEN pc[s] = "start" ELSE pc[s] = "locked" /\ ~UseGsn
  /\ nonce' = [nonce EXCEPT ![s] = PendingNonceAt(NodeOf[s])]
  /\ Goto(s, "opts")
  /\ UNCHANGED <<nonceMx, result, gsn, net, chain, failures>>

\* instance.ReceiveRequestV2 or UpdateEpoch.
Transact(s) ==
  /\ pc[s] = "opts"
  /\ SendTransaction(s, NodeOf[s], nonce[s], <<>>,
       Goto(s, "waiting") /\ Unlock(s) /\ UNCHANGED result, ReturnError(s))
  /\ UNCHANGED <<nonce, gsn, net, mined, fwd, failures>>

\* Decimal strings, for the numbers these instances reach.
Decimal(n) == IF n < 10 THEN <<n>> ELSE <<n \div 10, n % 10>>
SetString(d) == IF Len(d) = 1 THEN d[1] ELSE 10 * d[1] + d[2]

\* Mutant: the request's nonce is not the signed one.
RpcRequestNext(r) == [from |-> r.from, nonce |-> Decimal(r.nonce + 1), data |-> r.data]
\* NewRpcForwarderForwardRequest, and DumpToIForwarderForwardRequest.
RpcRequest(r) == [from |-> r.from, nonce |-> Decimal(r.nonce), data |-> r.data]
DumpRequest(r) == [from |-> r.from, nonce |-> SetString(r.nonce), data |-> r.data]

\* BridgeRequestV2 up to Execute: the forwarder's nonce is read and signed.
BridgeRequestV2(s) ==
  LET n == NodeOf[s]
      r == [from |-> n, nonce |-> fwd[n], data |-> s]
  IN /\ pc[s] = "locked" /\ UseGsn
     /\ nonce' = [nonce EXCEPT ![s] = fwd[n]]
     /\ call' = [call EXCEPT ![s] = [request |-> RpcRequest(r), signature |-> Sign(n, TypedData(r))]]
     /\ Goto(s, "signed")
     /\ UNCHANGED <<nonceMx, result, srv, mx, ownNonce, net, chain, failures>>

getGsnPeerId(n) == peer[n]

\* Client.Execute: an error while no peer is known, else the call, which fails
\* if the peer is no longer connected.
Execute(s) ==
  LET n == NodeOf[s]
  IN /\ pc[s] = "signed"
     /\ IF getGsnPeerId(n) /\ n \in link
        THEN Goto(s, "rpc") /\ srv' = [srv EXCEPT ![s] = "called"] /\ UNCHANGED <<nonceMx, result>>
        ELSE ReturnError(s) /\ UNCHANGED srv
     /\ UNCHANGED <<nonce, call, mx, ownNonce, net, chain, failures>>

\* A remote call of the sender fails. The GSN peer may handle its call all the same.
RemoteFails(s) ==
  /\ failures < MaxFailures /\ failures' = failures + 1
  /\ \/ pc[s] \in {"locked", "opts", "signed", "rpc"}
     \/ s \in Epochs /\ pc[s] = "start"
  /\ ReturnError(s)
  /\ UNCHANGED <<nonce, gsn, net, chain>>

\* The hash, or the server's error, comes back. nonceMx is given up before the
\* transaction is mined.
Reply(s) ==
  /\ pc[s] = "rpc"
  /\ \/ srv[s] = "sent" /\ Goto(s, "waiting") /\ Unlock(s) /\ UNCHANGED result
     \/ srv[s] = "error" /\ ReturnError(s)
  /\ UNCHANGED <<nonce, gsn, net, chain, failures>>

-----------------------------------------------------------------------------
(* The GSN peer. *)

\* ExecuteRequestHandler: under the mutex it checks the request and reads the
\* owner's pending nonce.
Handle(s) ==
  /\ srv[s] = "called" /\ mx = None
  /\ mx' = s /\ srv' = [srv EXCEPT ![s] = "locked"]
  /\ ownNonce' = [ownNonce EXCEPT ![s] = PendingNonceAt(Owner)]
  /\ UNCHANGED <<node, call, net, chain, failures>>

ServerReturns(s, r) == srv' = [srv EXCEPT ![s] = r] /\ mx' = IF mx = s THEN None ELSE mx

\* forwarder.Execute sends it, from the owner's account.
ForwarderExecute(s) ==
  /\ srv[s] = "locked"
  /\ SendTransaction(s, Owner, ownNonce[s],
       [request |-> DumpRequest(call[s].request), signature |-> call[s].signature],
       ServerReturns(s, "sent"), ServerReturns(s, "error"))
  /\ UNCHANGED <<node, call, ownNonce, net, mined, fwd, failures>>

\* GetOwner, GetForwarder or Execute returns an error.
HandlerFails(s) ==
  /\ srv[s] = "locked" /\ failures < MaxFailures /\ failures' = failures + 1
  /\ ServerReturns(s, "error")
  /\ UNCHANGED <<node, call, ownNonce, net, chain>>

\* Client.discovery: a tick finds the peer and dials it; a known peer that is
\* no longer connected stays known.
Discover(n) ==
  /\ UseGsn /\ ~(peer[n] /\ n \in link)
  /\ peer' = [peer EXCEPT ![n] = TRUE] /\ link' = link \cup {n}
  /\ UNCHANGED <<node, gsn, chain, failures>>

\* The connection to the peer is lost (external).
Unlink(n) ==
  /\ n \in link /\ failures < MaxFailures /\ failures' = failures + 1
  /\ link' = link \ {n}
  /\ UNCHANGED <<node, gsn, peer, chain>>

-----------------------------------------------------------------------------
\* WaitTransaction polls: the receipt of a mined transaction, an error if it failed.
WaitTransaction(s) ==
  /\ pc[s] = "waiting" /\ status[s] \in {"ok", "reverted"}
  /\ Goto(s, "done")
  /\ result' = [result EXCEPT ![s] = IF status[s] = "ok" THEN "receipt" ELSE "error"]
  /\ UNCHANGED <<nonceMx, nonce, gsn, net, chain, failures>>

\* Mutant: the timeout is renewed while the transaction is pending.
WaitTimesOutRenewed(s) ==
  /\ pc[s] = "waiting" /\ status[s] # "sent"
  /\ Goto(s, "done") /\ result' = [result EXCEPT ![s] = "error"]
  /\ UNCHANGED <<nonceMx, nonce, gsn, net, chain, failures>>
\* blockTimeout passes first.
WaitTimesOut(s) ==
  /\ pc[s] = "waiting"
  /\ Goto(s, "done") /\ result' = [result EXCEPT ![s] = "error"]
  /\ UNCHANGED <<nonceMx, nonce, gsn, net, chain, failures>>

Step(s) ==
  \/ Begin(s) \/ Lock(s) \/ CallOpt(s) \/ Transact(s)
  \/ BridgeRequestV2(s) \/ Execute(s) \/ Handle(s) \/ ForwarderExecute(s) \/ Reply(s)
  \/ WaitTransaction(s) \/ WaitTimesOut(s)

Next ==
  \/ \E s \in Senders : Step(s) \/ RemoteFails(s) \/ HandlerFails(s)
  \/ \E t \in pool : Mine(t)
  \/ \E n \in Nodes : Discover(n) \/ Unlink(n)

Spec == Init /\ [][Next]_vars

\* Every goroutine runs and every remote call returns; each sender asks for a
\* mutex once, so it gets it as soon as nobody takes it any more.
FairSpec == Spec /\ \A s \in Senders : WF_vars(Step(s))

-----------------------------------------------------------------------------
\* The type invariant; a mutex is held by a sender between its lock and unlock.
TypeOK ==
  /\ \A n \in Nodes : nonceMx[n] \in Senders \cup {None}
  /\ \A s \in Senders : nonceMx[NodeOf[s]] = s <=>
       s \in Requests /\ pc[s] \in {"locked", "opts", "signed", "rpc"}
  /\ mx \in Requests \cup {None}
  /\ \A s \in Senders : mx = s <=> srv[s] = "locked"
  /\ nonce \in [Senders -> Int] /\ ownNonce \in [Senders -> Int]
  /\ \A t, u \in pool : t.from = u.from /\ t.nonce = u.nonce => t = u
  /\ failures \in 0..MaxFailures

\* A request is refused or replaced for its account nonce only if the node sends
\* it itself and an UpdateEpoch, which does not take nonceMx, used the same one:
\* the owner's transactions, sent for all nodes, never clash.
NonceClashNeedsEpoch ==
  \A s \in Requests :
    status[s] \in {"refused", "replaced"} =>
      ~UseGsn /\ \E e \in Epochs : NodeOf[e] = NodeOf[s] /\ nonce[e] = nonce[s]

\* A forwarded request is reverted only if another of its node had read the
\* same forwarder nonce: nonceMx is given up before the first is mined.
RevertNeedsOverlap ==
  \A s \in Senders :
    status[s] = "reverted" =>
      \E r \in Requests \ {s} : NodeOf[r] = NodeOf[s] /\ nonce[r] = nonce[s]

\* Every call of ReceiveRequestV2 and every epoch goroutine returns: no path
\* leaves a mutex locked.
SendersReturn == \A s \in Senders : <>(pc[s] = "done")
=============================================================================
