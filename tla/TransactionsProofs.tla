------------------------ MODULE TransactionsProofs --------------------------
(***************************************************************************)
(* Proofs about Transactions for any number of calls, nodes and failures.  *)
(* The nonces in the pool of an account are those from its mined ones to   *)
(* its pending one, without gaps.  So a transaction with the pending nonce *)
(* never clashes, and one with an older nonce clashes with who has read    *)
(* the same: among the senders of one account only an epoch's goroutine    *)
(* reads without a mutex.                                                  *)
(***************************************************************************)
EXTENDS Transactions, TLAPS

Holding == {"locked", "opts", "signed", "rpc"}
Early == {"start", "lock", "locked", "opts", "signed"}

Types ==
  /\ nonceMx \in [Nodes -> Senders \cup {None}] /\ mx \in Requests \cup {None}
  /\ pc \in [Senders -> Early \cup {"rpc", "waiting", "done"}]
  /\ nonce \in [Senders -> Int] /\ ownNonce \in [Senders -> Int]
  /\ call = [s \in Senders |-> call[s]]
  /\ srv \in [Senders -> {"idle", "called", "locked", "sent", "error"}]
  /\ mined \in [Accounts -> Nat] /\ fwd \in [Nodes -> Nat]
  /\ status \in [Senders -> {"none", "sent", "replaced", "refused", "ok", "reverted"}]
  /\ failures \in 0..MaxFailures

\* The mutexes; which way a call goes, and that it has nothing on the chain before it sends.
Locks ==
  /\ \A s \in Senders : nonceMx[NodeOf[s]] = s <=> s \in Requests /\ pc[s] \in Holding
  /\ \A s \in Senders : mx = s <=> srv[s] = "locked"

Route == \A s \in Senders :
  /\ s \in Epochs => pc[s] \in {"start", "opts", "waiting", "done"} /\ srv[s] = "idle"
  /\ UseGsn /\ s \in Requests => pc[s] # "opts"
  /\ ~UseGsn => pc[s] \notin {"signed", "rpc"} /\ srv[s] = "idle"
  /\ pc[s] \in Early => srv[s] = "idle"
  /\ pc[s] \in Early \/ srv[s] \in {"called", "locked"} => status[s] = "none"

\* The pool: who sent what, one transaction per sender and per nonce, no gaps.
Sent(t) ==
  /\ t.by \in Senders /\ status[t.by] = "sent"
  /\ \/ /\ t.from = Owner /\ UseGsn /\ t.by \in Requests
        /\ t.nonce = ownNonce[t.by] /\ srv[t.by] = "sent"
     \/ /\ t.from = NodeOf[t.by] /\ t.nonce = nonce[t.by] /\ t.request = << >>
        /\ pc[t.by] \in {"waiting", "done"} /\ (t.by \in Requests => ~UseGsn)

\* The transactions of a in P have the nonces from m on, and end before p.
Ends(P, m, a, p) ==
  /\ m \in Nat /\ p \in Nat /\ m <= p
  /\ \A t \in P : t.from = a => t.nonce \in m..(p - 1)
  /\ \A k \in m..(p - 1) : \E t \in P : t.from = a /\ t.nonce = k

NoGaps ==
  /\ \A t \in pool : t.from \in Accounts
  /\ \A a \in Accounts : Ends(pool, mined[a], a, PendingNonceAt(a))
  /\ \A t, u \in pool : t.from = u.from /\ t.nonce = u.nonce => t = u

Pool == /\ NoGaps
        /\ \A t \in pool : Sent(t)
        /\ \A t, u \in pool : t.by = u.by => t = u

\* The account nonces that have been read, and by whom.
EpochRead(s) == \E e \in Epochs : pc[e] # "start" /\ NodeOf[e] = NodeOf[s] /\ nonce[e] = nonce[s]

Nonces ==
  /\ \A s \in Senders : pc[s] = "opts" => nonce[s] \in 0..PendingNonceAt(NodeOf[s])
  /\ \A s \in Requests : pc[s] = "opts" /\ nonce[s] < PendingNonceAt(NodeOf[s]) => EpochRead(s)
  /\ \A s \in Requests : srv[s] = "locked" => ownNonce[s] = PendingNonceAt(Owner)
  /\ \A s \in Requests : status[s] \in {"refused", "replaced"} => ~UseGsn /\ EpochRead(s)

\* The forward requests: what is signed is what is sent, and every nonce the forwarder has
\* used was some request's.
Forward(s) == [from |-> NodeOf[s], nonce |-> nonce[s], data |-> s]
Signed(s) == Sign(NodeOf[s], TypedData(Forward(s)))

UsedBy(n, k) == {r \in Requests : NodeOf[r] = n /\ nonce[r] = k /\ status[r] = "ok"}

Forwards ==
  /\ \A s \in Requests : pc[s] \in {"signed", "rpc"} \/ srv[s] # "idle" =>
       /\ nonce[s] \in 0..fwd[NodeOf[s]]
       /\ call[s] = [request |-> RpcRequest(Forward(s)), signature |-> Signed(s)]
  /\ \A t \in pool : t.from = Owner => t.request = [request |-> Forward(t.by), signature |-> Signed(t.by)]
  /\ \A n \in Nodes : \A k \in 0..(fwd[n] - 1) : UsedBy(n, k) # {}
  /\ \A s \in Senders : status[s] = "reverted" => UsedBy(NodeOf[s], nonce[s]) # {}

TInv == Types /\ Locks /\ Route /\ Pool /\ Nonces /\ Forwards

-----------------------------------------------------------------------------
(* The pool of an account. *)

\* The pending nonce is where the transactions of an account end, before a step and after it.
After(P, m, a) ==
  LET next == {m} \cup {t.nonce + 1 : t \in {u \in P : u.from = a}}
  IN CHOOSE n \in next : \A k \in next : k <= n

LEMMA Last ==
  ASSUME NEW P, NEW m, NEW a, NEW p, Ends(P, m, a, p)
  PROVE  After(P, m, a) = p
<1> DEFINE next == {m} \cup {t.nonce + 1 : t \in {u \in P : u.from = a}}
<1>1. next \subseteq Nat /\ \A k \in next : k <= p
  BY DEF Ends
<1>2. p \in next
  <2>1. CASE p = m
    BY <2>1, Zenon
  <2>2. CASE p # m
    <3>1. p - 1 \in m..(p - 1)
      BY <2>2 DEF Ends
    <3>2. PICK t \in P : t.from = a /\ t.nonce = p - 1
      BY <3>1, Zenon DEF Ends
    <3>3. p = t.nonce + 1
      BY <3>2 DEF Ends
    <3> QED
      BY <3>2, <3>3, Zenon
  <2> QED
    BY <2>1, <2>2, Zenon
<1> HIDE DEF next
<1>3. \A n \in next : (\A k \in next : k <= n) => n = p
  BY <1>1, <1>2
<1> QED
  BY <1>1, <1>2, <1>3, Zenon DEF next, After

LEMMA Pends ==
  ASSUME NEW a, NEW p, Ends(pool, mined[a], a, p)
  PROVE  PendingNonceAt(a) = p
<1>1. PendingNonceAt(a) = After(pool, mined[a], a)
  BY Zenon DEF PendingNonceAt, After
<1> QED
  BY <1>1, Last, Zenon

LEMMA PendsNext ==
  ASSUME NEW a, NEW p, Ends(pool', mined'[a], a, p)
  PROVE  PendingNonceAt(a)' = p
<1>1. PendingNonceAt(a)' = After(pool', mined'[a], a)
  BY Zenon DEF PendingNonceAt, After
<1> QED
  BY <1>1, Last, Zenon

\* The pending nonces are natural numbers, none below the mined ones.
LEMMA Counted ==
  ASSUME NoGaps, NEW a \in Accounts
  PROVE  mined[a] \in Nat /\ PendingNonceAt(a) \in Nat /\ mined[a] <= PendingNonceAt(a)
BY Zenon DEF NoGaps, Ends

\* The chain takes a transaction, in place of those of the same account and nonce; what the
\* pending nonces are then.
Rivals(tx) == {t \in pool : t.from = tx.from /\ t.nonce = tx.nonce}

Takes(tx) ==
  /\ tx.from \in Accounts /\ tx.nonce \in mined[tx.from]..PendingNonceAt(tx.from)
  /\ pool' = (pool \ Rivals(tx)) \cup {tx}
  /\ UNCHANGED mined

Pending(tx, alone) ==
  /\ \A b \in Accounts \ {tx.from} : PendingNonceAt(b)' = PendingNonceAt(b)
  /\ alone => /\ tx.nonce = PendingNonceAt(tx.from)
              /\ PendingNonceAt(tx.from)' = PendingNonceAt(tx.from) + 1
  /\ ~alone => /\ tx.nonce < PendingNonceAt(tx.from)
               /\ PendingNonceAt(tx.from)' = PendingNonceAt(tx.from)

\* A transaction the chain takes (SendTransaction) with a nonce no later than the pending one
\* follows the others or takes the place of one, and only in the first case is the pending
\* nonce another one.
LEMMA PoolGrows ==
  ASSUME NoGaps, NEW tx, Takes(tx)
  PROVE  NoGaps' /\ Pending(tx, Rivals(tx) = {})
<1> DEFINE a == tx.from
           p == PendingNonceAt(tx.from)
           rivals == Rivals(tx)
<1>0. /\ a \in Accounts /\ tx.from = a /\ p = PendingNonceAt(a) /\ tx.nonce \in mined[a]..p
      /\ UNCHANGED mined /\ rivals = {t \in pool : t.from = a /\ t.nonce = tx.nonce}
      /\ pool' = (pool \ rivals) \cup {tx}
  BY Zenon DEF Takes, Rivals
<1>1. mined[a] \in Nat /\ p \in Nat /\ mined[a] <= p /\ Ends(pool, mined[a], a, p)
  BY <1>0, Counted, Zenon DEF NoGaps
<1> HIDE DEF a, p, rivals
<1>2. \A t \in pool' : t.from \in Accounts
  BY <1>0, Zenon DEF NoGaps
<1>3. \A t, u \in pool' : t.from = u.from /\ t.nonce = u.nonce => t = u
  BY <1>0 DEF NoGaps
<1>4. \A b \in Accounts \ {a} : Ends(pool', mined'[b], b, PendingNonceAt(b))
  <2> SUFFICES ASSUME NEW b \in Accounts \ {a}
               PROVE  Ends(pool', mined'[b], b, PendingNonceAt(b))
    BY Zenon
  <2>1. Ends(pool, mined[b], b, PendingNonceAt(b)) /\ mined'[b] = mined[b]
    BY <1>0, Zenon DEF NoGaps
  <2>2. \A t : t.from = b => (t \in pool' <=> t \in pool)
    BY <1>0, Zenon
  <2> QED
    BY <2>1, <2>2, Zenon DEF Ends
<1>5. \A b \in Accounts \ {a} : PendingNonceAt(b)' = PendingNonceAt(b)
  BY <1>4, PendsNext, Zenon
<1>6. CASE rivals = {}
  <2>1. tx.nonce = p
    BY <1>0, <1>1, <1>6 DEF Ends
  <2>2. pool' = pool \cup {tx} /\ mined'[a] = mined[a]
    BY <1>0, <1>6, Zenon
  <2>3. \A t \in pool' : t.from = a => t.nonce \in mined[a]..p
    BY <1>0, <1>1, <2>1, <2>2 DEF Ends
  <2>4. \A k \in mined[a]..p : \E t \in pool' : t.from = a /\ t.nonce = k
    BY <1>0, <1>1, <2>1, <2>2 DEF Ends
  <2>5. Ends(pool', mined'[a], a, p + 1)
    <3>1. p + 1 \in Nat /\ mined[a] <= p + 1 /\ (p + 1) - 1 = p
      BY <1>1
    <3> QED
      BY <1>1, <2>2, <2>3, <2>4, <3>1, Zenon DEF Ends
  <2>6. PendingNonceAt(a)' = p + 1
    BY <2>5, PendsNext, Zenon
  <2>7. NoGaps'
    BY <1>2, <1>3, <1>4, <1>5, <2>5, <2>6, Zenon DEF NoGaps
  <2> QED
    BY <1>0, <1>5, <1>6, <2>1, <2>6, <2>7, Zenon DEF Pending, rivals
<1>7. CASE rivals # {}
  <2>1. PICK u \in rivals : rivals = {u}
    BY <1>0, <1>7 DEF NoGaps
  <2>2. tx.nonce < p /\ tx.nonce \in mined[a]..(p - 1)
    BY <1>0, <1>1, <2>1 DEF Ends
  <2>3. pool' = (pool \ {u}) \cup {tx} /\ mined'[a] = mined[a] /\ u.from = a /\ u.nonce = tx.nonce
    BY <1>0, <2>1, Zenon
  <2>4. \A t \in pool' : t.from = a => t.nonce \in mined[a]..(p - 1)
    BY <1>1, <2>2, <2>3, Zenon DEF Ends
  <2>5. \A k \in mined[a]..(p - 1) : \E t \in pool' : t.from = a /\ t.nonce = k
    BY <1>0, <1>1, <2>3, Zenon DEF Ends
  <2>6. Ends(pool', mined'[a], a, p)
    BY <1>1, <2>3, <2>4, <2>5, Zenon DEF Ends
  <2>7. PendingNonceAt(a)' = p
    BY <2>6, PendsNext, Zenon
  <2>8. NoGaps'
    BY <1>2, <1>3, <1>4, <1>5, <2>6, <2>7, Zenon DEF NoGaps
  <2> QED
    BY <1>0, <1>5, <1>7, <2>2, <2>7, <2>8, Zenon DEF Pending, rivals
<1> QED
  BY <1>6, <1>7, Zenon

\* Mining the next transaction of an account leaves its pending nonce as it is.
LEMMA PoolMined ==
  ASSUME NoGaps, Types, NEW t \in pool, t.nonce = mined[t.from],
         pool' = pool \ {t}, mined' = [mined EXCEPT ![t.from] = @ + 1]
  PROVE  NoGaps' /\ \A b \in Accounts : PendingNonceAt(b)' = PendingNonceAt(b)
<1> DEFINE a == t.from
<1>1. /\ a \in Accounts /\ Ends(pool, mined[a], a, PendingNonceAt(a))
      /\ mined'[a] = mined[a] + 1 /\ \A b \in Accounts \ {a} : mined'[b] = mined[b]
  BY Zenon DEF NoGaps, Types
<1>2. \A b \in Accounts : Ends(pool', mined'[b], b, PendingNonceAt(b))
  <2> SUFFICES ASSUME NEW b \in Accounts
               PROVE  Ends(pool', mined'[b], b, PendingNonceAt(b))
    BY Zenon
  <2>1. CASE b # a
    <3>1. Ends(pool, mined[b], b, PendingNonceAt(b)) /\ mined'[b] = mined[b]
      BY <1>1, <2>1, Zenon DEF NoGaps
    <3>2. \A u : u.from = b => (u \in pool' <=> u \in pool)
      BY <2>1, Zenon
    <3> QED
      BY <3>1, <3>2, Zenon DEF Ends
  <2>2. CASE b = a
    <3>1. \A u \in pool' : u.from = a => u.nonce # mined[a]
      BY Zenon DEF NoGaps
    <3>2. \A u \in pool' : u.from = a => u.nonce \in mined'[a]..(PendingNonceAt(a) - 1)
      BY <1>1, <3>1 DEF Ends
    <3>3. \A k \in mined'[a]..(PendingNonceAt(a) - 1) : \E u \in pool' : u.from = a /\ u.nonce = k
      BY <1>1 DEF Ends
    <3>4. mined'[a] \in Nat /\ PendingNonceAt(a) \in Nat /\ mined'[a] <= PendingNonceAt(a)
      BY <1>1 DEF Ends
    <3> QED
      BY <2>2, <3>2, <3>3, <3>4, Zenon DEF Ends
  <2> QED
    BY <2>1, <2>2, Zenon
<1>3. \A b \in Accounts : PendingNonceAt(b)' = PendingNonceAt(b)
  BY <1>2, PendsNext, Zenon
<1>4. \A u \in pool' : u.from \in Accounts
  BY Zenon DEF NoGaps
<1>5. \A u, w \in pool' : u.from = w.from /\ u.nonce = w.nonce => u = w
  BY Zenon DEF NoGaps
<1> QED
  BY <1>2, <1>3, <1>4, <1>5, ZenonT(30) DEF NoGaps

\* No other step disturbs the pool.
LEMMA PoolKept ==
  ASSUME NoGaps, UNCHANGED <<pool, mined>>
  PROVE  NoGaps' /\ \A b : PendingNonceAt(b)' = PendingNonceAt(b)
BY Zenon DEF NoGaps, PendingNonceAt

-----------------------------------------------------------------------------
(* The mutexes and the order of a sender's steps. *)

Control == Types /\ Locks /\ Route

\* What the steps have in common: every sender's node is one of Nodes.
LEMMA Owners ==
  \A s \in Senders : NodeOf[s] \in Nodes /\ NodeOf[s] \in Accounts
BY Zenon DEF Nodes, Accounts

\* The initial state satisfies the invariant.
LEMMA InitTInv == ASSUME Setting PROVE Init => TInv
<1> SUFFICES ASSUME Init PROVE TInv
  BY Zenon
<1>1. Types /\ Locks /\ Route
  <2>1. Types
    BY DEF Init, Setting, Types, Early
  <2>2. Locks
    BY Owners, Zenon DEF Init, Setting, Locks, Holding
  <2>3. Route
    BY Zenon DEF Init, Setting, Route, Early
  <2> QED
    BY <2>1, <2>2, <2>3, Zenon
<1>2. NoGaps
  <2>1. \A a \in Accounts : Ends(pool, mined[a], a, 0)
    BY DEF Init, Ends
  <2>2. \A a \in Accounts : PendingNonceAt(a) = 0
    BY <2>1, Pends, Zenon
  <2> QED
    BY <2>1, <2>2, Zenon DEF Init, NoGaps
<1>3. Pool /\ Nonces /\ Forwards
  BY <1>2, Owners DEF Init, Pool, Nonces, Forwards, Senders
<1> QED
  BY <1>1, <1>3, Zenon DEF TInv

\* Every step of a sender or of its handler but the sending of a transaction keeps the
\* mutexes and the order of the steps (ReceiveRequestV2, ExecuteRequestHandler).
LEMMA SenderControl ==
  ASSUME Setting, Control, NEW s \in Senders, NoGaps,
         \/ Begin(s) \/ Lock(s) \/ CallOpt(s) \/ BridgeRequestV2(s) \/ Execute(s) \/ Reply(s)
         \/ WaitTransaction(s) \/ WaitTimesOut(s) \/ RemoteFails(s) \/ Handle(s) \/ HandlerFails(s)
  PROVE  Control'
<1> USE Owners
<1>0. \A a \in Accounts : PendingNonceAt(a) \in Nat
  BY Counted, Zenon DEF Control
<1>1. CASE Begin(s)
  <2>1. Types'
    BY <1>1, Zenon DEF Begin, Goto, node, gsn, net, chain, Setting, Control, Types, Early
  <2>2. Locks'
    BY <1>1, Zenon DEF Begin, Goto, node, gsn, net, chain, Setting, Control, Types, Locks, Route, Holding, Early, Senders
  <2>3. Route'
    BY <1>1 DEF Begin, Goto, node, gsn, net, chain, Setting, Control, Types, Route, Early, Senders
  <2> QED
    BY <2>1, <2>2, <2>3, Zenon DEF Control
<1>2. CASE Lock(s)
  <2>1. Types'
    BY <1>2, Zenon DEF Lock, Goto, node, gsn, net, chain, Setting, Control, Types, Early
  <2>2. Locks'
    BY <1>2 DEF Lock, Goto, node, gsn, net, chain, Setting, Control, Types, Locks, Route, Holding, Early, Senders
  <2>3. Route'
    BY <1>2, Zenon DEF Lock, Goto, node, gsn, net, chain, Setting, Control, Types, Route, Early, Senders
  <2> QED
    BY <2>1, <2>2, <2>3 DEF Control
<1>3. CASE CallOpt(s)
  <2>1. Types'
    BY <1>0, <1>3 DEF CallOpt, Goto, node, gsn, net, chain, Setting, Control, Types, Early
  <2>2. Locks'
    BY <1>3 DEF CallOpt, Goto, node, gsn, net, chain, Setting, Control, Types, Locks, Route, Holding, Early, Senders
  <2>3. Route'
    BY <1>3, ZenonT(30) DEF CallOpt, Goto, node, gsn, net, chain, Setting, Control, Types, Route, Early, Senders
  <2> QED
    BY <2>1, <2>2, <2>3 DEF Control
<1>4. CASE BridgeRequestV2(s)
  <2>1. Types'
    <3>1. call' = [x \in Senders |-> call'[x]]
      BY <1>4, Zenon DEF BridgeRequestV2, Control, Types
    <3> QED
      BY <1>4, <3>1 DEF BridgeRequestV2, Goto, node, gsn, net, chain, Setting, Control, Types, Early
  <2>2. Locks'
    BY <1>4, Zenon DEF BridgeRequestV2, Goto, node, gsn, net, chain, Setting, Control, Types, Locks, Route, Holding, Early, Senders
  <2>3. Route'
    BY <1>4, Zenon DEF BridgeRequestV2, Goto, node, gsn, net, chain, Setting, Control, Types, Route, Early, Senders
  <2> QED
    BY <2>1, <2>2, <2>3 DEF Control
<1>5. CASE Execute(s)
  <2>1. Types'
    BY <1>5 DEF Execute, Goto, ReturnError, Unlock, node, gsn, net, chain, Setting, Control, Types, Early
  <2>2. Locks'
    BY <1>5 DEF Execute, Goto, ReturnError, Unlock, node, gsn, net, chain, Setting, Control, Types, Locks, Route, Holding, Early, Senders
  <2>3. Route'
    BY <1>5 DEF Execute, Goto, ReturnError, Unlock, node, gsn, net, chain, Setting, Control, Types, Route, Early, Senders
  <2> QED
    BY <2>1, <2>2, <2>3 DEF Control
<1>6. CASE Reply(s)
  <2>1. Types'
    BY <1>6 DEF Reply, Goto, ReturnError, Unlock, node, gsn, net, chain, Setting, Control, Types, Early
  <2>2. Locks'
    BY <1>6 DEF Reply, Goto, ReturnError, Unlock, node, gsn, net, chain, Setting, Control, Types, Locks, Route, Holding, Early, Senders
  <2>3. Route'
    BY <1>6 DEF Reply, Goto, ReturnError, Unlock, node, gsn, net, chain, Setting, Control, Types, Route, Early, Senders
  <2> QED
    BY <2>1, <2>2, <2>3 DEF Control
<1>7. CASE WaitTransaction(s)
  <2>1. Types'
    BY <1>7, Zenon DEF WaitTransaction, Goto, node, gsn, net, chain, Setting, Control, Types, Early
  <2>2. Locks'
    BY <1>7, Zenon DEF WaitTransaction, Goto, node, gsn, net, chain, Setting, Control, Types, Locks, Route, Holding, Early, Senders
  <2>3. Route'
    BY <1>7, Zenon DEF WaitTransaction, Goto, node, gsn, net, chain, Setting, Control, Types, Route, Early, Senders
  <2> QED
    BY <2>1, <2>2, <2>3 DEF Control
<1>8. CASE WaitTimesOut(s)
  <2>1. Types'
    BY <1>8, Zenon DEF WaitTimesOut, Goto, node, gsn, net, chain, Setting, Control, Types, Early
  <2>2. Locks'
    BY <1>8, Zenon DEF WaitTimesOut, Goto, node, gsn, net, chain, Setting, Control, Types, Locks, Route, Holding, Early, Senders
  <2>3. Route'
    BY <1>8, Zenon DEF WaitTimesOut, Goto, node, gsn, net, chain, Setting, Control, Types, Route, Early, Senders
  <2> QED
    BY <2>1, <2>2, <2>3 DEF Control
<1>9. CASE RemoteFails(s)
  <2>1. Types'
    BY <1>9 DEF RemoteFails, Goto, ReturnError, Unlock, node, gsn, net, chain, Setting, Control, Types, Early
  <2>2. Locks'
    BY <1>9 DEF RemoteFails, Goto, ReturnError, Unlock, node, gsn, net, chain, Setting, Control, Types, Locks, Route, Holding, Early, Senders
  <2>3. Route'
    BY <1>9, Zenon DEF RemoteFails, Goto, ReturnError, Unlock, node, gsn, net, chain, Setting, Control, Types, Route, Early, Senders
  <2> QED
    BY <2>1, <2>2, <2>3 DEF Control
<1>10. CASE Handle(s)
  <2>1. Types'
    BY <1>0, <1>10 DEF Handle, node, gsn, net, chain, Setting, Control, Types, Early, Route, Senders, Accounts
  <2>2. Locks'
    BY <1>10 DEF Handle, node, gsn, net, chain, Setting, Control, Types, Locks, Route, Holding, Early, Senders
  <2>3. Route'
    BY <1>10, Zenon DEF Handle, node, gsn, net, chain, Setting, Control, Types, Route, Early, Senders
  <2> QED
    BY <2>1, <2>2, <2>3 DEF Control
<1>11. CASE HandlerFails(s)
  <2>1. Types'
    BY <1>11 DEF HandlerFails, ServerReturns, node, gsn, net, chain, Setting, Control, Types, Early
  <2>2. Locks'
    BY <1>11 DEF HandlerFails, ServerReturns, node, gsn, net, chain, Setting, Control, Types, Locks, Route, Holding, Early, Senders
  <2>3. Route'
    BY <1>11, Zenon DEF HandlerFails, ServerReturns, node, gsn, net, chain, Setting, Control, Types, Route, Early, Senders
  <2> QED
    BY <2>1, <2>2, <2>3 DEF Control
<1> QED
  BY <1>1, <1>2, <1>3, <1>4, <1>5, <1>6, <1>7, <1>8, <1>9, <1>10, <1>11, Zenon

-----------------------------------------------------------------------------
(* The steps that read no nonce and send nothing. *)

\* A step that leaves the forward requests and what is signed of them alone.
LEMMA ForwardsKept ==
  ASSUME Forwards, UNCHANGED <<nonce, fwd, call>>,
         \A x \in Requests : status[x] = "ok" => status'[x] = "ok",
         \A x \in Senders : status'[x] = "reverted" => status[x] = "reverted",
         \A x \in Requests : pc'[x] \in {"signed", "rpc"} \/ srv'[x] # "idle"
                               => pc[x] \in {"signed", "rpc"} \/ srv[x] # "idle",
         \A t \in pool' \ pool :
           t.from = Owner => t.request = [request |-> Forward(t.by), signature |-> Signed(t.by)]
  PROVE  Forwards'
<1>1. \A x : Forward(x)' = Forward(x) /\ Signed(x)' = Signed(x)
  BY Zenon DEF Forward, Signed
<1>2. \A n, k : UsedBy(n, k) # {} => UsedBy(n, k)' # {}
  BY Zenon DEF UsedBy
<1>3. \A x \in Requests : pc'[x] \in {"signed", "rpc"} \/ srv'[x] # "idle" =>
        /\ nonce'[x] \in 0..fwd'[NodeOf[x]]
        /\ call'[x] = [request |-> RpcRequest(Forward(x)'), signature |-> Signed(x)']
  BY <1>1, Zenon DEF Forwards
<1>4. \A t \in pool' : t.from = Owner =>
        t.request = [request |-> Forward(t.by)', signature |-> Signed(t.by)']
  BY <1>1, Zenon DEF Forwards
<1>5. \A n \in Nodes : \A k \in 0..(fwd'[n] - 1) : UsedBy(n, k)' # {}
  BY <1>2, Zenon DEF Forwards
<1>6. \A x \in Senders : status'[x] = "reverted" => UsedBy(NodeOf[x], nonce[x])' # {}
  BY DEF Forwards, UsedBy
<1> QED
  BY <1>3, <1>4, <1>5, <1>6, Zenon DEF Forwards, RpcRequest

\* A step that moves senders and handlers on and touches neither nonces nor chain.
LEMMA QuietKeeps ==
  ASSUME TInv, Control', UNCHANGED <<pool, mined, fwd, status, nonce, call, ownNonce>>,
         \A x \in Senders :
           /\ pc'[x] = "opts" => pc[x] = "opts"
           /\ pc'[x] = "start" => pc[x] = "start"
           /\ pc[x] \in {"waiting", "done"} => pc'[x] \in {"waiting", "done"}
           /\ srv[x] = "sent" => srv'[x] = "sent"
           /\ srv'[x] = "locked" => srv[x] = "locked"
           /\ pc'[x] \in {"signed", "rpc"} \/ srv'[x] # "idle"
                => pc[x] \in {"signed", "rpc"} \/ srv[x] # "idle"
  PROVE  TInv'
<1>1. NoGaps' /\ \A b : PendingNonceAt(b)' = PendingNonceAt(b)
  BY PoolKept, Zenon DEF TInv, Pool
<1>2. Pool'
  <2>1. \A t \in pool : Sent(t)'
    BY Zenon DEF TInv, Pool, Sent
  <2> QED
    BY <1>1, <2>1, Zenon DEF TInv, Pool
<1>3. Nonces'
  <2>1. \A x : EpochRead(x) => EpochRead(x)'
    BY Zenon DEF EpochRead, Senders
  <2> QED
    BY <1>1, <2>1, Zenon DEF TInv, Nonces, Senders
<1>4. Forwards'
  BY ForwardsKept, Zenon DEF TInv, Senders
<1> QED
  BY <1>2, <1>3, <1>4, Zenon DEF TInv, Control

\* So do the steps of a sender between its reading a nonce and its sending, and after it.
LEMMA QuietSteps ==
  ASSUME Setting, TInv, NEW s \in Senders,
         \/ Begin(s) \/ Lock(s) \/ Execute(s) \/ Reply(s) \/ WaitTransaction(s)
         \/ WaitTimesOut(s) \/ RemoteFails(s) \/ HandlerFails(s)
  PROVE  TInv'
<1>1. Control'
  BY SenderControl, Zenon DEF TInv, Control, Pool
<1> USE DEF TInv, Types, Route, Early, node, gsn, net, chain
<1>2. CASE Begin(s)
  BY <1>1, <1>2, QuietKeeps, Zenon DEF Begin, Goto
<1>3. CASE Lock(s)
  BY <1>1, <1>3, QuietKeeps, Zenon DEF Lock, Goto
<1>4. CASE Execute(s)
  BY <1>1, <1>4, QuietKeeps, SMTT(30) DEF Execute, Goto, ReturnError
<1>5. CASE Reply(s)
  BY <1>1, <1>5, QuietKeeps, SMTT(30) DEF Reply, Goto, ReturnError
<1>6. CASE WaitTransaction(s) \/ WaitTimesOut(s)
  BY <1>1, <1>6, QuietKeeps, SMTT(30) DEF WaitTransaction, WaitTimesOut, Goto
<1>7. CASE RemoteFails(s)
  BY <1>1, <1>7, QuietKeeps, Zenon DEF RemoteFails, Goto, ReturnError
<1>8. CASE HandlerFails(s)
  BY <1>1, <1>8, QuietKeeps, Zenon DEF HandlerFails, ServerReturns
<1> QED
  BY <1>2, <1>3, <1>4, <1>5, <1>6, <1>7, <1>8, Zenon

\* So do the gsn client's discovery and the loss of the connection.
LEMMA NetKeeps ==
  ASSUME Setting, TInv, NEW n \in Nodes, Discover(n) \/ Unlink(n)
  PROVE  TInv'
<1>1. /\ UNCHANGED <<nonceMx, pc, nonce, call, srv, mx, ownNonce, pool, mined, fwd, status>>
      /\ failures' \in 0..MaxFailures
  BY DEF Discover, Unlink, node, gsn, chain, TInv, Types, Setting
<1>2. Control'
  BY <1>1, ZenonT(30) DEF TInv, Control, Types, Locks, Route
<1> QED
  BY <1>1, <1>2, QuietKeeps, Zenon

-----------------------------------------------------------------------------
(* The steps that read a nonce. *)

\* A sender reads a nonce (CallOpt, BridgeRequestV2): the account's pending nonce, to send
\* with it, or the forwarder's, which it signs.  It has nothing on the chain.
LEMMA ReadKeeps ==
  ASSUME Setting, TInv, Control', NEW s \in Senders, NEW k \in Nat, NEW l \in {"opts", "signed"},
         IF s \in Epochs THEN pc[s] = "start" ELSE pc[s] = "locked",
         pc' = [pc EXCEPT ![s] = l], nonce' = [nonce EXCEPT ![s] = k],
         UNCHANGED <<pool, mined, fwd, status, ownNonce, srv>>,
         \A x \in Senders \ {s} : call'[x] = call[x],
         l = "opts" => k = PendingNonceAt(NodeOf[s]),
         l = "signed" => /\ k = fwd[NodeOf[s]]
                         /\ call'[s] = [request |-> RpcRequest(Forward(s)'), signature |-> Signed(s)']
  PROVE  TInv'
<1>1. NoGaps' /\ \A b : PendingNonceAt(b)' = PendingNonceAt(b)
  BY PoolKept, Zenon DEF TInv, Pool
<1>2. status[s] = "none" /\ srv[s] = "idle"
  BY Zenon DEF TInv, Route, Early
<1>3. /\ nonce'[s] = k /\ pc'[s] = l
      /\ \A x \in Senders \ {s} : nonce'[x] = nonce[x] /\ pc'[x] = pc[x]
  BY Zenon DEF TInv, Types
<1>4. Pool'
  <2>1. \A t \in pool : Sent(t)'
    BY <1>2, <1>3 DEF TInv, Pool, Sent
  <2> QED
    BY <1>1, <2>1, Zenon DEF TInv, Pool
<1>5. \A n, j : UsedBy(n, j) # {} => UsedBy(n, j)' # {}
  BY <1>2, <1>3 DEF UsedBy, Senders
<1>6. Nonces'
  <2>1. \A x \in Senders \ {s} : EpochRead(x) => EpochRead(x)'
    BY <1>3, Zenon DEF EpochRead, Senders, Setting
  <2>2. \A x \in Senders : pc'[x] = "opts" => nonce'[x] \in 0..PendingNonceAt(NodeOf[x])
    BY <1>3 DEF TInv, Nonces
  <2>3. \A x \in Requests : pc'[x] = "opts" /\ nonce'[x] < PendingNonceAt(NodeOf[x]) => EpochRead(x)'
    BY <2>1, <1>3, SMTT(30) DEF TInv, Nonces, Senders
  <2>4. \A x \in Requests : srv[x] = "locked" => ownNonce[x] = PendingNonceAt(Owner)
    BY Zenon DEF TInv, Nonces
  <2>5. \A x \in Requests : status[x] \in {"refused", "replaced"} => ~UseGsn /\ EpochRead(x)'
    BY <2>1, <1>2, Zenon DEF TInv, Nonces, Senders
  <2> QED
    BY <1>1, <2>2, <2>3, <2>4, <2>5, Zenon DEF Nonces
<1>7. Forwards'
  <2>1. \A x \in Senders \ {s} : Forward(x)' = Forward(x) /\ Signed(x)' = Signed(x)
    BY <1>3, Zenon DEF Forward, Signed
  <2>2. \A x \in Requests : pc'[x] \in {"signed", "rpc"} \/ srv'[x] # "idle" =>
          /\ nonce'[x] \in 0..fwd'[NodeOf[x]]
          /\ call'[x] = [request |-> RpcRequest(Forward(x)'), signature |-> Signed(x)']
    <3> SUFFICES ASSUME NEW x \in Requests, pc'[x] \in {"signed", "rpc"} \/ srv'[x] # "idle"
                 PROVE  /\ nonce'[x] \in 0..fwd'[NodeOf[x]]
                        /\ call'[x] = [request |-> RpcRequest(Forward(x)'), signature |-> Signed(x)']
      BY Zenon
    <3>1. CASE x = s
      BY <3>1, <1>2, <1>3, SMTT(30)
    <3>2. CASE x # s
      BY <3>2, <2>1, <1>3, Zenon DEF TInv, Forwards, Senders
    <3> QED
      BY <3>1, <3>2, Zenon
  <2>3. \A t \in pool' : t.from = Owner =>
          t.request = [request |-> Forward(t.by)', signature |-> Signed(t.by)']
    <3>1. \A t \in pool : t.by \in Senders \ {s}
      BY <1>2, Zenon DEF TInv, Pool, Sent
    <3> QED
      BY <3>1, <2>1, Zenon DEF TInv, Forwards
  <2>4. \A n \in Nodes : \A j \in 0..(fwd'[n] - 1) : UsedBy(n, j)' # {}
    BY <1>5, Zenon DEF TInv, Forwards
  <2>5. \A x \in Senders : status'[x] = "reverted" => UsedBy(NodeOf[x], nonce[x])' # {}
    <3> SUFFICES ASSUME NEW x \in Senders, status[x] = "reverted"
                 PROVE  UsedBy(NodeOf[x], nonce[x])' # {}
      BY Zenon
    <3>1. x # s /\ nonce'[x] = nonce[x]
      BY <1>2, <1>3, Zenon
    <3>2. PICK r \in Requests : NodeOf[r] = NodeOf[x] /\ nonce[r] = nonce[x] /\ status[r] = "ok"
      BY Zenon DEF TInv, Forwards, UsedBy
    <3> QED
      BY <3>1, <3>2, <1>2, <1>3, Zenon DEF UsedBy, Senders
  <2> QED
    BY <2>2, <2>3, <2>4, <2>5, Zenon DEF Forwards, RpcRequest
<1> QED
  BY <1>4, <1>6, <1>7, Zenon DEF TInv, Control

\* CallOpt reads the pending nonce, BridgeRequestV2 the forwarder's.
LEMMA ReadSteps ==
  ASSUME Setting, TInv, NEW s \in Senders, CallOpt(s) \/ BridgeRequestV2(s)
  PROVE  TInv'
<1>1. Control'
  BY SenderControl, Zenon DEF TInv, Control, Pool
<1>2. CASE CallOpt(s)
  <2>1. PendingNonceAt(NodeOf[s]) \in Nat
    BY Counted, Owners, Zenon DEF TInv, Pool
  <2> QED
    BY <1>1, <1>2, <2>1, ReadKeeps, Zenon DEF CallOpt, Goto, gsn, chain
<1>3. CASE BridgeRequestV2(s)
  <2>1. fwd[NodeOf[s]] \in Nat /\ (IF s \in Epochs THEN pc[s] = "start" ELSE pc[s] = "locked")
    BY <1>3, Owners, Zenon DEF TInv, Types, Route, BridgeRequestV2
  <2>2. nonce' = [nonce EXCEPT ![s] = fwd[NodeOf[s]]] /\ nonce'[s] = fwd[NodeOf[s]]
    BY <1>3, Zenon DEF BridgeRequestV2, TInv, Types
  <2>3. call'[s] = [request |-> RpcRequest(Forward(s)'), signature |-> Signed(s)']
    BY <1>3, <2>2, Zenon DEF BridgeRequestV2, Forward, Signed, TInv, Types, TypedData
  <2>4. /\ pc' = [pc EXCEPT ![s] = "signed"] /\ UNCHANGED <<pool, mined, fwd, status, ownNonce, srv>>
        /\ \A x \in Senders \ {s} : call'[x] = call[x]
    BY <1>3, Zenon DEF BridgeRequestV2, Goto, chain, TInv, Types
  <2> QED
    BY <1>1, <2>1, <2>2, <2>3, <2>4, ReadKeeps, Zenon
<1> QED
  BY <1>2, <1>3, Zenon

\* ExecuteRequestHandler reads the owner's pending nonce under its mutex.
LEMMA HandleKeeps ==
  ASSUME Setting, TInv, NEW s \in Senders, Handle(s)
  PROVE  TInv'
<1>1. Control'
  BY SenderControl, Zenon DEF TInv, Control, Pool
<1>2. NoGaps' /\ \A b : PendingNonceAt(b)' = PendingNonceAt(b)
  BY PoolKept, Zenon DEF TInv, Pool, Handle, chain
<1>3. /\ srv[s] = "called" /\ srv'[s] = "locked" /\ ownNonce'[s] = PendingNonceAt(Owner) /\ mx = None
      /\ \A x \in Senders \ {s} : srv'[x] = srv[x] /\ ownNonce'[x] = ownNonce[x]
      /\ UNCHANGED <<pc, nonce, call, pool, mined, fwd, status>>
  BY Zenon DEF Handle, node, chain, TInv, Types
<1>4. Pool'
  <2>1. \A t \in pool : Sent(t)'
    BY <1>3, Zenon DEF TInv, Pool, Sent
  <2> QED
    BY <1>2, <1>3, <2>1, Zenon DEF TInv, Pool
<1>5. Nonces'
  <2>1. \A x : EpochRead(x)' <=> EpochRead(x)
    BY <1>3, Zenon DEF EpochRead
  <2>2. \A x \in Requests : srv'[x] = "locked" => ownNonce'[x] = PendingNonceAt(Owner)
    BY <1>3, SMTT(30) DEF TInv, Locks, Senders, Setting
  <2>3. \A x \in Senders : pc'[x] = "opts" => nonce'[x] \in 0..PendingNonceAt(NodeOf[x])'
    BY <1>2, <1>3, Zenon DEF TInv, Nonces
  <2>4. \A x \in Requests : pc'[x] = "opts" /\ nonce'[x] < PendingNonceAt(NodeOf[x])' => EpochRead(x)'
    BY <1>2, <1>3, <2>1, Zenon DEF TInv, Nonces
  <2>5. \A x \in Requests : srv'[x] = "locked" => ownNonce'[x] = PendingNonceAt(Owner)'
    BY <1>2, <2>2, Zenon
  <2>6. \A x \in Requests : status'[x] \in {"refused", "replaced"} => ~UseGsn /\ EpochRead(x)'
    BY <1>3, <2>1, Zenon DEF TInv, Nonces
  <2> QED
    BY <2>3, <2>4, <2>5, <2>6, Zenon DEF Nonces
<1>6. Forwards'
  BY <1>3, ForwardsKept, Zenon DEF TInv, Senders
<1> QED
  BY <1>1, <1>4, <1>5, <1>6, Zenon DEF TInv, Control

-----------------------------------------------------------------------------
(* The steps of the chain. *)

\* Transact: the chain takes a node's transaction, whose nonce nobody has used or a sender
\* of the account that read the same one, or refuses it for such a sender.
LEMMA TransactKeeps ==
  ASSUME Setting, TInv, NEW s \in Senders, Transact(s)
  PROVE  TInv'
<1> DEFINE a == NodeOf[s]
           rivals == {t \in pool : t.from = a /\ t.nonce = nonce[s]}
<1>1. /\ pc[s] = "opts" /\ a \in Accounts /\ a # Owner /\ Owner \in Accounts
      /\ status[s] = "none" /\ srv[s] = "idle" /\ nonce[s] \in 0..PendingNonceAt(a)
      /\ mined[a] \in Nat /\ PendingNonceAt(a) \in Nat /\ mined[a] <= PendingNonceAt(a)
      /\ UNCHANGED <<nonce, call, srv, mx, ownNonce, mined, fwd, failures>>
  <2>1. pc[s] = "opts" /\ UNCHANGED <<nonce, call, srv, mx, ownNonce, mined, fwd, failures>>
    BY Zenon DEF Transact, gsn
  <2>2. a \in Accounts /\ a # Owner /\ Owner \in Accounts
    BY Owners, Zenon DEF Setting, Accounts
  <2>3. status[s] = "none" /\ srv[s] = "idle" /\ nonce[s] \in 0..PendingNonceAt(a)
    BY <2>1, Zenon DEF TInv, Route, Early, Nonces
  <2>4. mined[a] \in Nat /\ PendingNonceAt(a) \in Nat /\ mined[a] <= PendingNonceAt(a)
    BY <2>2, Counted, Zenon DEF TInv, Pool
  <2> QED
    BY <2>1, <2>2, <2>3, <2>4, Zenon
<1>2. \A t \in rivals : /\ t \in pool /\ t.by \in Senders \ {s} /\ status[t.by] = "sent"
                        /\ NodeOf[t.by] = a /\ nonce[t.by] = nonce[s] /\ nonce[s] < PendingNonceAt(a)
                        /\ (t.by \in Requests => ~UseGsn)
  <2> SUFFICES ASSUME NEW t \in rivals
               PROVE  /\ t \in pool /\ t.by \in Senders \ {s} /\ status[t.by] = "sent"
                      /\ NodeOf[t.by] = a /\ nonce[t.by] = nonce[s] /\ nonce[s] < PendingNonceAt(a)
                      /\ (t.by \in Requests => ~UseGsn)
    BY Zenon
  <2>1. Sent(t) /\ t.from = a /\ t.nonce = nonce[s] /\ t.nonce \in mined[a]..(PendingNonceAt(a) - 1)
    BY <1>1, Zenon DEF TInv, Pool, NoGaps, Ends
  <2> QED
    BY <2>1, <1>1 DEF Sent
<1>3. s \in Requests => ~UseGsn
  BY <1>1, Zenon DEF TInv, Route
<1>4. ASSUME NEW tx, tx = [from |-> a, nonce |-> nonce[s], by |-> s, request |-> << >>],
             nonce[s] >= mined[a], pool' = (pool \ rivals) \cup {tx},
             status' = [x \in Senders |->
               IF x = s THEN "sent" ELSE IF \E t \in rivals : t.by = x THEN "replaced" ELSE status[x]],
             pc' = [pc EXCEPT ![s] = "waiting"], Unlock(s)
      PROVE  TInv'
  <2>1. /\ nonce[s] \in mined[a]..PendingNonceAt(a) /\ tx.from = a /\ tx.nonce = nonce[s]
        /\ tx.by = s /\ tx.request = << >>
    BY <1>1, <1>4
  <2>2. /\ NoGaps'
        /\ \A b \in Accounts \ {a} : PendingNonceAt(b)' = PendingNonceAt(b)
        /\ rivals = {} => /\ nonce[s] = PendingNonceAt(a)
                          /\ PendingNonceAt(a)' = PendingNonceAt(a) + 1
        /\ rivals # {} => /\ nonce[s] < PendingNonceAt(a)
                          /\ PendingNonceAt(a)' = PendingNonceAt(a)
    <3>1. rivals = Rivals(tx)
      BY <2>1, Zenon DEF Rivals
    <3>2. Takes(tx)
      BY <1>1, <1>4, <2>1, <3>1, Zenon DEF Takes
    <3>3. NoGaps' /\ Pending(tx, Rivals(tx) = {})
      BY <3>2, PoolGrows, Zenon DEF TInv, Pool
    <3> QED
      BY <3>1, <3>3, <2>1, Zenon DEF Pending
  <2>3. /\ status'[s] = "sent" /\ pc'[s] = "waiting"
        /\ \A x \in Senders \ {s} :
             /\ pc'[x] = pc[x]
             /\ \/ status'[x] = status[x] /\ \A t \in rivals : t.by # x
                \/ status'[x] = "replaced" /\ status[x] = "sent" /\ \E t \in rivals : t.by = x
    BY <1>2, <1>4 DEF TInv, Types
  <2>4. Control'
    <3>1. Types'
      BY <1>1, <1>4, Owners, Zenon DEF TInv, Types, Unlock, Early
    <3>2. Locks'
      BY <1>1, <1>4, <2>3, Owners, SMTT(30) DEF TInv, Types, Locks, Unlock, Holding, Setting
    <3>3. Route'
      BY <1>1, <2>3 DEF TInv, Types, Route, Early, Senders
    <3> QED
      BY <3>1, <3>2, <3>3, Zenon DEF Control
  <2>5. Pool'
    <3>1. \A t \in pool : t.by # s /\ t.by \in Senders
      BY <1>1, Zenon DEF TInv, Pool, Sent
    <3>2. \A t \in pool \ rivals : \A u \in rivals : u.by # t.by
      BY Zenon DEF TInv, Pool
    <3>3. \A t \in pool \ rivals : Sent(t)'
      <4> SUFFICES ASSUME NEW t \in pool \ rivals PROVE Sent(t)'
        BY Zenon
      <4>1. Sent(t)
        BY Zenon DEF TInv, Pool
      <4>2. status'[t.by] = status[t.by] /\ pc'[t.by] = pc[t.by]
        BY <2>3, <3>1, <3>2
      <4> QED
        BY <4>1, <4>2, <1>1, Zenon DEF Sent
    <3>4. \A t : t = tx => Sent(t)'
      BY <1>1, <1>3, <2>1, <2>3, Zenon DEF Sent
    <3>5. \A t, u \in pool' : t.by = u.by => t = u
      BY <1>4, <2>1, <3>1, SMTT(30) DEF TInv, Pool
    <3> QED
      BY <1>4, <2>2, <3>3, <3>4, <3>5, Zenon DEF Pool
  <2>6. \A x : EpochRead(x) => EpochRead(x)'
    BY <1>1, <2>3 DEF EpochRead, Senders
  <2>7. \A x \in Senders : NodeOf[x] = a /\ nonce[x] = nonce[s] /\ s \in Epochs => EpochRead(x)'
    BY <1>1, <2>3, Zenon DEF EpochRead
  <2>8. Nonces'
    <3>1. \A x \in Senders : pc'[x] = "opts" => nonce'[x] \in 0..PendingNonceAt(NodeOf[x])'
      <4> SUFFICES ASSUME NEW x \in Senders, pc'[x] = "opts"
                   PROVE  nonce'[x] \in 0..PendingNonceAt(NodeOf[x])'
        BY Zenon
      <4>1. nonce[x] \in 0..PendingNonceAt(NodeOf[x]) /\ nonce' = nonce
        BY <1>1, <2>3, Zenon DEF TInv, Nonces
      <4>2. CASE NodeOf[x] = a
        BY <4>1, <4>2, <2>2, <1>1
      <4>3. CASE NodeOf[x] # a
        BY <4>1, <4>3, <2>2, Owners, Zenon
      <4> QED
        BY <4>2, <4>3, Zenon
    <3>2. \A x \in Requests : pc'[x] = "opts" /\ nonce'[x] < PendingNonceAt(NodeOf[x])' => EpochRead(x)'
      <4> SUFFICES ASSUME NEW x \in Requests, pc'[x] = "opts", nonce'[x] < PendingNonceAt(NodeOf[x])'
                   PROVE  EpochRead(x)'
        BY Zenon
      <4>1. /\ x \in Senders \ {s} /\ pc[x] = "opts" /\ nonce'[x] = nonce[x]
            /\ nonce[x] \in 0..PendingNonceAt(NodeOf[x])
        BY <1>1, <2>3 DEF TInv, Nonces, Senders
      <4>2. CASE nonce[x] < PendingNonceAt(NodeOf[x])
        BY <4>1, <4>2, <2>6, Zenon DEF TInv, Nonces
      <4>3. CASE ~(nonce[x] < PendingNonceAt(NodeOf[x]))
        <5>1. NodeOf[x] = a
          BY <4>1, <4>3, <2>2, Owners, Zenon
        <5>2. nonce[x] = PendingNonceAt(a) /\ nonce[x] = nonce[s]
          BY <4>1, <4>3, <5>1, <2>2, <1>1, SMTT(30)
        <5>3. s \in Epochs
          BY <4>1, <5>1, <1>1 DEF TInv, Locks, Holding, Senders
        <5> QED
          BY <4>1, <5>1, <5>2, <5>3, <2>7, Zenon
      <4> QED
        BY <4>2, <4>3, Zenon
    <3>3. \A x \in Requests : srv'[x] = "locked" => ownNonce'[x] = PendingNonceAt(Owner)'
      BY <1>1, <2>2, Zenon DEF TInv, Nonces
    <3>4. \A x \in Requests : status'[x] \in {"refused", "replaced"} => ~UseGsn /\ EpochRead(x)'
      <4> SUFFICES ASSUME NEW x \in Requests, status'[x] \in {"refused", "replaced"}
                   PROVE  ~UseGsn /\ EpochRead(x)'
        BY Zenon
      <4>1. x \in Senders \ {s}
        BY <2>3, Zenon DEF Senders
      <4>2. CASE status'[x] = status[x]
        BY <4>2, <2>6, Zenon DEF TInv, Nonces
      <4>3. CASE \E t \in rivals : t.by = x
        <5>1. ~UseGsn /\ NodeOf[x] = a /\ nonce[x] = nonce[s] /\ nonce[s] < PendingNonceAt(a)
          BY <4>3, <1>2, Zenon
        <5>2. CASE s \in Epochs
          BY <4>1, <5>1, <5>2, <2>7, Zenon
        <5>3. CASE s \in Requests
          <6>1. EpochRead(s)
            BY <5>1, <5>3, <1>1, Zenon DEF TInv, Nonces
          <6>2. EpochRead(x)
            BY <6>1, <5>1, Zenon DEF EpochRead
          <6> QED
            BY <6>2, <5>1, <2>6, Zenon
        <5> QED
          BY <5>2, <5>3, Zenon DEF Senders
      <4> QED
        BY <4>1, <4>2, <4>3, <2>3, Zenon
    <3> QED
      BY <3>1, <3>2, <3>3, <3>4 DEF Nonces
  <2>9. Forwards'
    <3>1. \A x \in Requests : status[x] = "ok" => status'[x] = "ok"
      BY <1>1, <2>3, Zenon DEF Senders
    <3>2. \A x \in Senders : status'[x] = "reverted" => status[x] = "reverted"
      BY <2>3, Zenon
    <3>3. \A x \in Requests : pc'[x] \in {"signed", "rpc"} \/ srv'[x] # "idle"
                                => pc[x] \in {"signed", "rpc"} \/ srv[x] # "idle"
      BY <1>1, <2>3, Zenon DEF Senders
    <3>4. \A t \in pool' \ pool : t.from # Owner
      BY <1>1, <1>4, <2>1, Zenon
    <3> QED
      BY <1>1, <3>1, <3>2, <3>3, <3>4, ForwardsKept, Zenon DEF TInv
  <2> QED
    BY <2>4, <2>5, <2>8, <2>9 DEF TInv, Control
<1>5. ASSUME nonce[s] < mined[a] \/ rivals # {}, status' = [status EXCEPT ![s] = "refused"],
             UNCHANGED pool, ReturnError(s)
      PROVE  TInv'
  <2>1. NoGaps' /\ \A b : PendingNonceAt(b)' = PendingNonceAt(b)
    BY <1>1, <1>5, PoolKept, Zenon DEF TInv, Pool
  <2>2. /\ status'[s] = "refused" /\ pc'[s] = "done"
        /\ \A x \in Senders \ {s} : pc'[x] = pc[x] /\ status'[x] = status[x]
    BY <1>5, Zenon DEF TInv, Types, ReturnError, Goto
  <2>3. nonce[s] < PendingNonceAt(a)
    BY <1>1, <1>2, <1>5
  <2>4. Control'
    <3>1. Types'
      BY <1>1, <1>5, Owners, Zenon DEF TInv, Types, ReturnError, Goto, Unlock, Early
    <3>2. Locks'
      BY <1>1, <1>5, <2>2, Owners DEF TInv, Types, Locks, ReturnError, Unlock, Holding, Setting
    <3>3. Route'
      BY <1>1, <2>2 DEF TInv, Types, Route, Early, Senders
    <3> QED
      BY <3>1, <3>2, <3>3 DEF Control
  <2>5. Pool'
    <3>1. \A t \in pool : Sent(t)'
      BY <1>1, <2>2, Zenon DEF TInv, Pool, Sent
    <3> QED
      BY <1>5, <2>1, <3>1, Zenon DEF TInv, Pool
  <2>6. Nonces'
    <3>1. \A x : EpochRead(x) => EpochRead(x)'
      BY <1>1, <2>2, Zenon DEF EpochRead, Senders
    <3>2. s \in Requests => EpochRead(s)
      BY <1>1, <2>3, Zenon DEF TInv, Nonces
    <3>3. \A x \in Senders : pc'[x] = "opts" => nonce'[x] \in 0..PendingNonceAt(NodeOf[x])'
      BY <1>1, <2>1, <2>2, Zenon DEF TInv, Nonces
    <3>4. \A x \in Requests : pc'[x] = "opts" /\ nonce'[x] < PendingNonceAt(NodeOf[x])' => EpochRead(x)'
      BY <1>1, <2>1, <2>2, <3>1, Zenon DEF TInv, Nonces, Senders
    <3>5. \A x \in Requests : srv'[x] = "locked" => ownNonce'[x] = PendingNonceAt(Owner)'
      BY <1>1, <2>1, Zenon DEF TInv, Nonces
    <3>6. \A x \in Requests : status'[x] \in {"refused", "replaced"} => ~UseGsn /\ EpochRead(x)'
      BY <1>3, <2>2, <3>1, <3>2, Zenon DEF TInv, Nonces, Senders
    <3> QED
      BY <3>3, <3>4, <3>5, <3>6 DEF Nonces
  <2>7. Forwards'
    BY <1>1, <1>5, <2>2, ForwardsKept, Zenon DEF TInv, Senders
  <2> QED
    BY <2>4, <2>5, <2>6, <2>7 DEF TInv, Control
<1> QED
  BY <1>4, <1>5, Zenon DEF Transact, SendTransaction, Goto

\* What the handler sends is the request the node signed: its nonce survives the conversion
\* to a string and back (NewRpcForwarderForwardRequest, DumpToIForwarderForwardRequest).
LEMMA NonceSurvives ==
  ASSUME NEW r, r = [from |-> r.from, nonce |-> r.nonce, data |-> r.data], r.nonce \in Nat
  PROVE  DumpRequest(RpcRequest(r)) = r
<1>1. SetString(Decimal(r.nonce)) = r.nonce
  <2>1. CASE r.nonce < 10
    BY <2>1, Zenon DEF SetString, Decimal
  <2>2. CASE r.nonce >= 10
    BY <2>2 DEF SetString, Decimal
  <2> QED
    BY <2>1, <2>2
<1> QED
  BY <1>1, Zenon DEF DumpRequest, RpcRequest

\* forwarder.Execute: under the mutex the owner's pending nonce is still the one read, so the
\* transaction follows the others; it carries what the node signed.
LEMMA ForwarderKeeps ==
  ASSUME Setting, TInv, NEW s \in Senders, ForwarderExecute(s)
  PROVE  TInv'
<1> DEFINE rivals == {t \in pool : t.from = Owner /\ t.nonce = ownNonce[s]}
           request == [request |-> DumpRequest(call[s].request), signature |-> call[s].signature]
<1>1. /\ srv[s] = "locked" /\ mx = s /\ s \in Requests /\ UseGsn /\ Owner \in Accounts
      /\ status[s] = "none" /\ UNCHANGED <<nonceMx, pc, nonce, call, ownNonce, mined, fwd, failures>>
  BY Zenon DEF ForwarderExecute, node, TInv, Route, Locks, Senders, Accounts
<1>2. /\ ownNonce[s] = PendingNonceAt(Owner) /\ PendingNonceAt(Owner) \in Nat
      /\ mined[Owner] \in Nat /\ mined[Owner] <= PendingNonceAt(Owner)
  <2>1. mined[Owner] \in Nat /\ PendingNonceAt(Owner) \in Nat /\ mined[Owner] <= PendingNonceAt(Owner)
    BY <1>1, Counted, Zenon DEF TInv, Pool
  <2>2. ownNonce[s] = PendingNonceAt(Owner)
    BY <1>1, Zenon DEF TInv, Nonces
  <2> QED
    BY <2>1, <2>2, Zenon
<1>3. rivals = {}
  <2>1. \A t \in pool : t.from = Owner => t.nonce \in mined[Owner]..(PendingNonceAt(Owner) - 1)
    BY <1>1, Zenon DEF TInv, Pool, NoGaps, Ends
  <2> QED
    BY <2>1, <1>2
<1>4. request = [request |-> Forward(s), signature |-> Signed(s)]
  <2>1. /\ nonce[s] \in 0..fwd[NodeOf[s]]
        /\ call[s] = [request |-> RpcRequest(Forward(s)), signature |-> Signed(s)]
    BY <1>1, Zenon DEF TInv, Forwards
  <2>2. nonce[s] \in Nat
    BY <2>1, Owners DEF TInv, Types
  <2>3. DumpRequest(RpcRequest(Forward(s))) = Forward(s)
    BY <2>2, NonceSurvives DEF Forward
  <2> QED
    BY <2>1, <2>3
<1>5. ASSUME NEW tx, tx = [from |-> Owner, nonce |-> ownNonce[s], by |-> s, request |-> request],
             pool' = (pool \ rivals) \cup {tx},
             status' = [x \in Senders |->
               IF x = s THEN "sent" ELSE IF \E t \in rivals : t.by = x THEN "replaced" ELSE status[x]],
             ServerReturns(s, "sent")
      PROVE  TInv'
  <2>1. /\ tx.from = Owner /\ tx.nonce = ownNonce[s] /\ tx.by = s
        /\ tx.request = [request |-> Forward(s), signature |-> Signed(s)] /\ pool' = pool \cup {tx}
    BY <1>3, <1>4, <1>5, Zenon
  <2>2. /\ status'[s] = "sent" /\ srv'[s] = "sent" /\ mx' = None
        /\ \A x \in Senders \ {s} : status'[x] = status[x] /\ srv'[x] = srv[x]
    BY <1>1, <1>3, <1>5, Zenon DEF ServerReturns, TInv, Types
  <2>3. NoGaps' /\ \A b \in Accounts \ {Owner} : PendingNonceAt(b)' = PendingNonceAt(b)
    <3>1. Rivals(tx) = {}
      BY <1>3, <2>1, Zenon DEF Rivals
    <3>2. Takes(tx)
      <4>1. tx.nonce \in mined[Owner]..PendingNonceAt(Owner)
        <5>1. tx.nonce = PendingNonceAt(Owner)
          BY <1>2, <2>1, Zenon
        <5> QED
          BY <5>1, <1>2
      <4>2. pool' = (pool \ Rivals(tx)) \cup {tx}
        BY <2>1, <3>1, Zenon
      <4> QED
        BY <4>1, <4>2, <1>1, <2>1, Zenon DEF Takes
    <3>3. NoGaps' /\ Pending(tx, Rivals(tx) = {})
      BY <3>2, PoolGrows DEF TInv, Pool
    <3> QED
      BY <3>3, <2>1, Zenon DEF Pending
  <2>4. Control'
    <3>1. Types'
      BY <1>1, <1>5, <2>2, Zenon DEF ServerReturns, TInv, Types
    <3>2. Locks'
      BY <1>1, <2>2, Zenon DEF TInv, Locks, Setting
    <3>3. Route'
      <4>1. pc[s] \notin Early
        BY <1>1, Zenon DEF TInv, Route
      <4> QED
        BY <1>1, <2>2, <4>1, Zenon DEF TInv, Route, Setting
    <3> QED
      BY <3>1, <3>2, <3>3 DEF Control
  <2>5. Pool'
    <3>1. \A t \in pool : t.by # s /\ t.by \in Senders
      BY <1>1, Zenon DEF TInv, Pool, Sent
    <3>2. \A t \in pool : Sent(t)'
      BY <1>1, <2>2, <3>1, Zenon DEF TInv, Pool, Sent
    <3>3. Sent(tx)'
      BY <1>1, <2>1, <2>2, Zenon DEF Sent
    <3>4. \A t, u \in pool' : t.by = u.by => t = u
      BY <2>1, <3>1, Zenon DEF TInv, Pool
    <3> QED
      BY <2>1, <2>3, <3>2, <3>3, <3>4, Zenon DEF Pool
  <2>6. Nonces'
    <3>1. \A x : EpochRead(x)' <=> EpochRead(x)
      BY <1>1, Zenon DEF EpochRead
    <3>2. \A x \in Senders : PendingNonceAt(NodeOf[x])' = PendingNonceAt(NodeOf[x])
      BY <2>3, Owners, Zenon DEF Setting
    <3>3. \A x \in Requests : srv'[x] # "locked"
      BY <1>1, <2>2, Zenon DEF TInv, Locks, Senders
    <3>4. \A x \in Senders : pc'[x] = "opts" => nonce'[x] \in 0..PendingNonceAt(NodeOf[x])'
      BY <1>1, <3>2, Zenon DEF TInv, Nonces
    <3>5. \A x \in Requests : pc'[x] = "opts" /\ nonce'[x] < PendingNonceAt(NodeOf[x])' => EpochRead(x)'
      BY <1>1, <3>1, <3>2, Zenon DEF TInv, Nonces, Senders
    <3>6. \A x \in Requests : status'[x] \in {"refused", "replaced"} => ~UseGsn /\ EpochRead(x)'
      BY <2>2, <3>1, Zenon DEF TInv, Nonces, Senders
    <3> QED
      BY <3>3, <3>4, <3>5, <3>6, Zenon DEF Nonces
  <2>7. Forwards'
    <3>1. \A t \in pool' \ pool : t.request = [request |-> Forward(t.by), signature |-> Signed(t.by)]
      BY <2>1, Zenon
    <3>2. \A x \in Requests : status[x] = "ok" => status'[x] = "ok"
      BY <1>1, <2>2, Zenon DEF Senders
    <3>3. \A x \in Senders : status'[x] = "reverted" => status[x] = "reverted"
      BY <2>2, Zenon
    <3>4. \A x \in Requests : pc'[x] \in {"signed", "rpc"} \/ srv'[x] # "idle"
                                => pc[x] \in {"signed", "rpc"} \/ srv[x] # "idle"
      BY <1>1, <2>2, Zenon DEF Senders
    <3> QED
      BY <1>1, <3>1, <3>2, <3>3, <3>4, ForwardsKept, Zenon DEF TInv
  <2> QED
    BY <2>4, <2>5, <2>6, <2>7 DEF TInv, Control
<1>6. ~(ownNonce[s] < mined[Owner] \/ rivals # {})
  BY <1>2, <1>3
<1> QED
  BY <1>5, <1>6, Zenon DEF ForwarderExecute, SendTransaction

\* A transaction is mined: the forwarder takes a request whose nonce is its next one, and
\* one with an older nonce, which another request has used, is reverted.
LEMMA MineKeeps ==
  ASSUME Setting, TInv, NEW t \in pool, Mine(t)
  PROVE  TInv'
<1> DEFINE s == t.by
           n == NodeOf[s]
           forwarded == t.request # << >>
           ok == forwarded => Verifies(t.request)
<1>1. /\ Sent(t) /\ s \in Senders /\ status[s] = "sent" /\ n \in Nodes /\ t.nonce = mined[t.from]
      /\ pool' = pool \ {t} /\ mined' = [mined EXCEPT ![t.from] = @ + 1]
      /\ fwd' = IF forwarded /\ ok THEN [fwd EXCEPT ![t.request.request.from] = @ + 1] ELSE fwd
      /\ status' = [status EXCEPT ![s] = IF ok THEN "ok" ELSE "reverted"]
      /\ UNCHANGED <<nonceMx, pc, nonce, call, srv, mx, ownNonce, failures>>
  <2>1. Sent(t)
    BY Zenon DEF TInv, Pool
  <2>2. s \in Senders /\ status[s] = "sent" /\ n \in Nodes
    BY <2>1, Owners, Zenon DEF Sent
  <2> QED
    BY <2>1, <2>2, Zenon DEF Mine, node, gsn
<1>2. NoGaps' /\ \A b \in Accounts : PendingNonceAt(b)' = PendingNonceAt(b)
  BY <1>1, PoolMined, Zenon DEF TInv, Pool
<1>3. /\ status'[s] \in {"ok", "reverted"} /\ (status'[s] = "ok" <=> ok)
      /\ \A x \in Senders \ {s} : status'[x] = status[x]
  BY <1>1, Zenon DEF TInv, Types
<1>4. forwarded => /\ s \in Requests /\ t.from = Owner /\ nonce[s] \in 0..fwd[n]
                   /\ t.request.request.from = n /\ (ok <=> nonce[s] = fwd[n])
  <2> SUFFICES ASSUME forwarded
               PROVE  /\ s \in Requests /\ t.from = Owner /\ nonce[s] \in 0..fwd[n]
                      /\ t.request.request.from = n /\ (ok <=> nonce[s] = fwd[n])
    BY Zenon
  <2>1. s \in Requests /\ t.from = Owner /\ srv[s] = "sent"
    BY <1>1, Zenon DEF Sent
  <2>2. nonce[s] \in 0..fwd[n] /\ t.request = [request |-> Forward(s), signature |-> Signed(s)]
    BY <2>1, Zenon DEF TInv, Forwards
  <2>3. /\ t.request.request = Forward(s) /\ t.request.signature = Signed(s)
        /\ Forward(s).from = n /\ Forward(s).nonce = nonce[s]
    BY <2>2 DEF Forward
  <2>4. Verifies(t.request) <=> nonce[s] = fwd[n]
    BY <2>3, Zenon DEF Verifies, Signed
  <2> QED
    BY <2>1, <2>2, <2>3, <2>4, Zenon
<1> HIDE DEF s, n, forwarded, ok
<1>5. Control'
  <2>1. Types'
    BY <1>1, <1>4 DEF TInv, Types, Pool, NoGaps
  <2>2. Locks'
    BY <1>1, Zenon DEF TInv, Locks
  <2>3. Route'
    BY <1>1, <1>3, ZenonT(30) DEF TInv, Route
  <2> QED
    BY <2>1, <2>2, <2>3, Zenon DEF Control
<1>6. Pool'
  <2>1. \A u \in pool' : u \in pool /\ u.by \in Senders \ {s}
    BY <1>1, Zenon DEF TInv, Pool, Sent, s
  <2>2. \A u \in pool' : Sent(u)'
    BY <1>1, <1>3, <2>1, SMTT(30) DEF TInv, Pool, Sent
  <2> QED
    BY <1>2, <2>1, <2>2, Zenon DEF TInv, Pool
<1>7. Nonces'
  <2>1. \A x : EpochRead(x)' <=> EpochRead(x)
    BY <1>1, Zenon DEF EpochRead
  <2>2. \A x \in Senders : PendingNonceAt(NodeOf[x])' = PendingNonceAt(NodeOf[x])
    BY <1>2, Owners, Zenon
  <2>3. PendingNonceAt(Owner)' = PendingNonceAt(Owner)
    BY <1>2, Zenon DEF Accounts
  <2>4. \A x \in Senders : pc'[x] = "opts" => nonce'[x] \in 0..PendingNonceAt(NodeOf[x])'
    BY <1>1, <2>2, Zenon DEF TInv, Nonces
  <2>5. \A x \in Requests : pc'[x] = "opts" /\ nonce'[x] < PendingNonceAt(NodeOf[x])' => EpochRead(x)'
    BY <1>1, <2>1, <2>2, Zenon DEF TInv, Nonces, Senders
  <2>6. \A x \in Requests : srv'[x] = "locked" => ownNonce'[x] = PendingNonceAt(Owner)'
    BY <1>1, <2>3, Zenon DEF TInv, Nonces
  <2>7. \A x \in Requests : status'[x] \in {"refused", "replaced"} => ~UseGsn /\ EpochRead(x)'
    BY <1>3, <2>1, Zenon DEF TInv, Nonces, Senders
  <2> QED
    BY <2>4, <2>5, <2>6, <2>7, Zenon DEF Nonces
<1>8. Forwards'
  <2>1. \A x : Forward(x)' = Forward(x) /\ Signed(x)' = Signed(x)
    BY <1>1, Zenon DEF Forward, Signed
  <2>2. \A m, k : UsedBy(m, k) # {} => UsedBy(m, k)' # {}
    BY <1>1, <1>3, Zenon DEF UsedBy, Senders
  <2>3. \A m \in Nodes : /\ fwd[m] \in Nat
                         /\ \/ fwd'[m] = fwd[m]
                            \/ fwd'[m] = fwd[m] + 1 /\ m = n /\ forwarded /\ ok
    BY <1>1, <1>4, Zenon DEF TInv, Types
  <2>4. \A x \in Requests : pc'[x] \in {"signed", "rpc"} \/ srv'[x] # "idle" =>
          /\ nonce'[x] \in 0..fwd'[NodeOf[x]]
          /\ call'[x] = [request |-> RpcRequest(Forward(x)'), signature |-> Signed(x)']
    <3> SUFFICES ASSUME NEW x \in Requests, pc'[x] \in {"signed", "rpc"} \/ srv'[x] # "idle"
                 PROVE  /\ nonce'[x] \in 0..fwd'[NodeOf[x]]
                        /\ call'[x] = [request |-> RpcRequest(Forward(x)'), signature |-> Signed(x)']
      BY Zenon
    <3>1. /\ nonce[x] \in 0..fwd[NodeOf[x]] /\ NodeOf[x] \in Nodes
          /\ call[x] = [request |-> RpcRequest(Forward(x)), signature |-> Signed(x)]
      BY <1>1, Owners, ZenonT(30) DEF TInv, Forwards, Senders
    <3>2. nonce'[x] \in 0..fwd'[NodeOf[x]]
      <4>1. fwd[NodeOf[x]] \in Nat /\ fwd'[NodeOf[x]] \in {fwd[NodeOf[x]], fwd[NodeOf[x]] + 1}
        BY <2>3, <3>1, Zenon
      <4> QED
        BY <4>1, <3>1, <1>1
    <3> QED
      BY <1>1, <2>1, <3>1, <3>2, Zenon
  <2>5. \A u \in pool' : u.from = Owner =>
          u.request = [request |-> Forward(u.by)', signature |-> Signed(u.by)']
    BY <1>1, <2>1, Zenon DEF TInv, Forwards
  <2>6. \A m \in Nodes : \A k \in 0..(fwd'[m] - 1) : UsedBy(m, k)' # {}
    <3> SUFFICES ASSUME NEW m \in Nodes, NEW k \in 0..(fwd'[m] - 1)
                 PROVE  UsedBy(m, k)' # {}
      BY Zenon
    <3>1. CASE k \in 0..(fwd[m] - 1)
      BY <3>1, <2>2, Zenon DEF TInv, Forwards
    <3>2. CASE k = fwd[m] /\ m = n /\ forwarded /\ ok
      <4>1. s \in Requests /\ NodeOf[s] = m /\ nonce'[s] = k /\ status'[s] = "ok"
        BY <3>2, <1>1, <1>3, <1>4, Zenon DEF n
      <4> QED
        BY <4>1, Zenon DEF UsedBy
    <3> QED
      BY <3>1, <3>2, <2>3
  <2>7. \A x \in Senders : status'[x] = "reverted" => UsedBy(NodeOf[x], nonce[x])' # {}
    <3> SUFFICES ASSUME NEW x \in Senders, status'[x] = "reverted"
                 PROVE  UsedBy(NodeOf[x], nonce[x])' # {}
      BY Zenon
    <3>1. UsedBy(NodeOf[x], nonce[x]) # {}
      <4>1. CASE x = s
        <5>1. forwarded /\ ~ok
          BY <4>1, <1>3, Zenon DEF ok
        <5>2. nonce[s] \in 0..(fwd[n] - 1)
          <6>1. nonce[s] \in 0..fwd[n] /\ nonce[s] # fwd[n]
            BY <5>1, <1>4, Zenon
          <6>2. fwd[n] \in Nat
            BY <1>1, <2>3, Zenon
          <6> QED
            BY <6>1, <6>2
        <5> QED
          BY <4>1, <5>2, <1>1, Zenon DEF TInv, Forwards, n
      <4>2. CASE x # s
        BY <4>2, <1>3, Zenon DEF TInv, Forwards
      <4> QED
        BY <4>1, <4>2, Zenon
    <3>2. PICK r \in Requests : NodeOf[r] = NodeOf[x] /\ nonce[r] = nonce[x] /\ status[r] = "ok"
      BY <3>1, Zenon DEF UsedBy
    <3> QED
      BY <3>2, <1>1, <1>3 DEF UsedBy, Senders
  <2> QED
    BY <2>4, <2>5, <2>6, <2>7, Zenon DEF Forwards, RpcRequest
<1> QED
  BY <1>5, <1>6, <1>7, <1>8, Zenon DEF TInv, Control

-----------------------------------------------------------------------------
(* The theorems. *)

\* Every step keeps the invariant.
LEMMA NextTInv == ASSUME Setting PROVE TInv /\ [Next]_vars => TInv'
<1> SUFFICES ASSUME TInv, [Next]_vars PROVE TInv'
  BY Zenon
<1>1. ASSUME NEW s \in Senders, Step(s) \/ RemoteFails(s) \/ HandlerFails(s) PROVE TInv'
  BY <1>1, QuietSteps, ReadSteps, HandleKeeps, TransactKeeps, ForwarderKeeps, Zenon DEF Step
<1>2. ASSUME NEW t \in pool, Mine(t) PROVE TInv'
  BY <1>2, MineKeeps, Zenon
<1>3. ASSUME NEW n \in Nodes, Discover(n) \/ Unlink(n) PROVE TInv'
  BY <1>3, NetKeeps, Zenon
<1>4. CASE UNCHANGED vars
  <2>1. UNCHANGED <<nonceMx, pc, nonce, call, srv, mx, ownNonce, pool, mined, fwd, status, failures>>
    BY <1>4, Zenon DEF vars, node, gsn, chain
  <2>2. Control'
    BY <2>1, Zenon DEF TInv, Control, Types, Locks, Route
  <2> QED
    BY <2>1, <2>2, QuietKeeps, Zenon
<1> QED
  BY <1>1, <1>2, <1>3, <1>4, Zenon DEF Next

\* The invariant holds in every reachable state.
LEMMA Invariance == ASSUME Setting PROVE Spec => []TInv
BY InitTInv, NextTInv, PTL DEF Spec

\* Type correctness, with the discipline of the two mutexes: nonceMx and the gsn server's
\* mutex are held exactly between their lock and their unlock, on every path of
\* ReceiveRequestV2 and ExecuteRequestHandler (node.go, server.go).
THEOREM TypeCorrect == ASSUME Setting PROVE Spec => []TypeOK
<1>1. TInv => TypeOK
  BY Zenon DEF TInv, Types, Locks, Holding, Pool, NoGaps, TypeOK
<1> QED
  BY <1>1, Invariance, PTL

\* Whatever the number of nodes, requests and epochs, a request is refused or replaced for
\* its account nonce only if the node sends it itself and an UpdateEpoch of the node, which
\* does not take nonceMx, has read the same nonce (ReceiveRequestV2 and SpreadNewEpoch in
\* node.go, ExecuteRequestHandler in server.go).
THEOREM ClashesAreEpochs == ASSUME Setting PROVE Spec => []NonceClashNeedsEpoch
<1>1. TInv => NonceClashNeedsEpoch
  BY Zenon DEF TInv, Nonces, EpochRead, NonceClashNeedsEpoch
<1> QED
  BY <1>1, Invariance, PTL

\* Whatever their number, a forwarded request is reverted only if another request of the node
\* has read the same forwarder nonce: nonceMx is unlocked before the first is mined, and
\* nothing else between signing and the contract changes a request (node.go, base.go,
\* server.go).
THEOREM RevertsAreOverlaps == ASSUME Setting PROVE Spec => []RevertNeedsOverlap
<1>1. TInv => RevertNeedsOverlap
  BY Zenon DEF TInv, Forwards, UsedBy, RevertNeedsOverlap
<1> QED
  BY <1>1, Invariance, PTL
=============================================================================
