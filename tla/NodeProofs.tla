----------------------------- MODULE NodeProofs -----------------------------
(***************************************************************************)
(* Proofs about a running node: RunNode, for every set of chains and       *)
(* requests and any number of epochs and errors, and the uptime reports,   *)
(* for any number of nodes and rounds.                                     *)
(*                                                                         *)
(* NodeRun.  Requests find an open ledger and the keys of one set-up.      *)
(***************************************************************************)
EXTENDS NodeRun, Reporting, TLAPS

\* Where RunNode stands once it has added a watcher for requests, before and after the
\* ledger is closed.
Serving == {"watch", "chainid", "host.wait", "wg.Wait"}
Unwinding == {"disconnect", "closeclients", "client.wg.Wait"}

ReqType == [at : {"idle", "session", "ledger"}, epoch : Nat, member : Nat,
            overlap : BOOLEAN, open : BOOLEAN]

\* A watcher for requests, or a handler one has started, is there only after the ledger was
\* opened; the client it needed keeps RunNode from returning to main.
Served == (watched \cap Chains # {} \/ \E e \in Requests : req[e].at # "idle") =>
            /\ started # {}
            /\ pc \in Serving \cup {"closeledger"} \cup Unwinding
            /\ pc = "closeledger" => ledger = "open"

LedgerInv ==
  /\ req \in [Requests -> ReqType]
  /\ pc \in Serving => ledger = "open"
  /\ Served
  /\ \A e \in Requests : ~req[e].open => req[e].at # "idle" /\ pc \in Unwinding

\* Undisturbed, the only set-up that runs is the one the epoch key comes from.
KeysInv ==
  /\ epochKey \in Nat /\ memberKey \in Nat /\ setups \in Nat /\ running \subseteq Nat
  /\ mine \in Nat /\ disturbed \in BOOLEAN
  /\ epochKey # memberKey => running # {} \/ disturbed
  /\ ~disturbed => running \subseteq {epochKey}
  /\ pc = "setup" => mine \in running

RunInv == LedgerInv /\ KeysInv /\ KeysOfOneSetup

\* RunNode starts with the invariant.
LEMMA RunInit == Init => RunInv
<1> SUFFICES ASSUME Init PROVE RunInv
  BY Zenon
<1>1. req \in [Requests -> ReqType] /\ \A e \in Requests : req[e] = Idle
  BY Zenon DEF Init, Idle, ReqType
<1>2. LedgerInv
  BY <1>1, Zenon DEF Init, Idle, LedgerInv, Served, Serving
<1>3. KeysInv
  BY Zenon DEF Init, KeysInv
<1>4. KeysOfOneSetup
  BY <1>1 DEF KeysOfOneSetup, Idle
<1> QED
  BY <1>2, <1>3, <1>4, Zenon DEF RunInv

\* The steps that leave watchers, requests and keys alone and move pc only.
LEMMA StepInv ==
  ASSUME RunInv, UNCHANGED <<ledger, watched, started, keys, req>>,
         pc' # "setup",
         pc' \in Serving => pc \in Serving,
         pc' = "closeledger" => pc # "closeledger" /\ pc \notin Unwinding,
         pc \in Unwinding \/ pc = "closeledger" => pc' = pc,
         pc \in Serving => pc' \in Serving \cup {"closeledger"}
  PROVE  RunInv'
<1>1. LedgerInv'
  BY Zenon DEF RunInv, LedgerInv, Served, Serving, Unwinding
<1>2. KeysInv'
  BY Zenon DEF RunInv, KeysInv, keys
<1>3. KeysOfOneSetup'
  BY Zenon DEF RunInv, KeysOfOneSetup, keys
<1> QED
  BY <1>1, <1>2, <1>3, Zenon DEF RunInv

\* A step that moves nothing the invariant speaks of keeps it.
LEMMA SameInv ==
  ASSUME RunInv, UNCHANGED <<pc, ledger, watched, started, keys, req>>
  PROVE  RunInv'
BY Zenon DEF RunInv, LedgerInv, Served, KeysInv, KeysOfOneSetup, keys

\* The steps of RunNode up to the first set-up, and the checks of a chain's id.
LEMMA StartInv ==
  ASSUME RunInv,
         \/ LoadSecp256k1Key \/ NewNodeWithClients \/ NewBridge \/ NewHostFromKeyFile
         \/ getNodeBlsId \/ InitDHT \/ DiscoverByRendezvous \/ NewGsnClient
         \/ NodeExists \/ NotRegistered \/ InitializeCommonPubSub \/ KeysFromFiles
         \/ ChainID \/ Signal
  PROVE  RunInv'
BY StepInv, Zenon DEF LoadSecp256k1Key, NewNodeWithClients, NewBridge, NewHostFromKeyFile, getNodeBlsId,
   InitDHT, DiscoverByRendezvous, NewGsnClient, NodeExists, NotRegistered,
   InitializeCommonPubSub, KeysFromFiles, ChainID, Signal, Step, parts, Serving, Unwinding

\* The epoch watcher is none for requests.
LEMMA AddEpochWatcherInv == ASSUME RunInv, AddEpochWatcher PROVE RunInv'
<1>1. watched' \cap Chains = watched \cap Chains
  BY RegChainAssumption, Zenon DEF AddEpochWatcher
<1>2. LedgerInv'
  BY <1>1, Zenon DEF RunInv, LedgerInv, Served, AddEpochWatcher, Serving, Unwinding
<1>3. KeysInv' /\ KeysOfOneSetup'
  BY Zenon DEF RunInv, KeysInv, KeysOfOneSetup, AddEpochWatcher, keys
<1> QED
  BY <1>2, <1>3, Zenon DEF RunInv

\* A set-up that begins, by RunNode or by HandleNewEpoch, runs alone or disturbs another.
LEMMA BeginInv ==
  ASSUME RunInv, BeginEpoch, UNCHANGED <<watched, started, ledger, req>>,
         \/ pc = "startepoch" /\ pc' = "setup" /\ mine' = setups + 1
         \/ UNCHANGED <<pc, mine>>
  PROVE  RunInv'
<1>1. LedgerInv'
  BY Zenon DEF RunInv, LedgerInv, Served, Serving, Unwinding
<1>2. KeysInv'
  <2>1. disturbed' \in BOOLEAN /\ (disturbed' <=> disturbed \/ running # {})
    BY Zenon DEF BeginEpoch
  <2>2. /\ setups' = setups + 1 /\ epochKey' = setups + 1 /\ memberKey' = memberKey
        /\ running' = running \cup {setups + 1}
    BY Zenon DEF BeginEpoch
  <2> QED
    BY <2>1, <2>2 DEF RunInv, KeysInv
<1>3. KeysOfOneSetup'
  BY Zenon DEF RunInv, KeysInv, KeysOfOneSetup, BeginEpoch
<1> QED
  BY <1>1, <1>2, <1>3, Zenon DEF RunInv

\* A set-up that returns was the only one, or set-ups have been disturbed.
LEMMA EndInv ==
  ASSUME RunInv, NEW k \in running, EndEpoch(k), UNCHANGED <<watched, started, ledger, req>>,
         \/ pc = "setup" /\ pc' = "ledger"
         \/ UNCHANGED pc /\ k # mine
  PROVE  RunInv'
<1>1. LedgerInv'
  BY Zenon DEF RunInv, LedgerInv, Served, Serving, Unwinding
<1>2. KeysInv'
  BY Zenon DEF RunInv, KeysInv, EndEpoch
<1>3. KeysOfOneSetup'
  BY Zenon DEF RunInv, KeysInv, KeysOfOneSetup, EndEpoch
<1> QED
  BY <1>1, <1>2, <1>3, Zenon DEF RunInv

\* The ledger is opened before the first watcher for requests.
LEMMA WatchInv ==
  ASSUME RunInv, initLedger \/ \E c \in Chains : AddWatcher(c)
  PROVE  RunInv'
<1>1. LedgerInv'
  BY Zenon DEF RunInv, LedgerInv, Served, initLedger, AddWatcher, Serving, Unwinding
<1>2. KeysInv' /\ KeysOfOneSetup'
  BY Zenon DEF RunInv, KeysInv, KeysOfOneSetup, initLedger, AddWatcher, keys
<1> QED
  BY <1>1, <1>2, Zenon DEF RunInv

\* The ways RunNode and the process end.
LEMMA EndsInv ==
  ASSUME RunInv, End \/ Fail \/ DiscoveryFails \/ Killed
  PROVE  RunInv'
<1>1. CASE HostExits \/ DiscoveryEnds \/ MainExits \/ DiscoveryFails \/ Killed
  BY <1>1, SameInv, Zenon DEF HostExits, DiscoveryEnds, MainExits, DiscoveryFails, Killed, parts
<1>2. CASE Fail
  <2>1. CASE pc \in Fatal /\ UNCHANGED pc
    BY <1>2, <2>1, SameInv, Zenon DEF Fail, parts
  <2>2. CASE pc \in Returned /\ pc' = "closeledger"
    BY <1>2, <2>2, StepInv, Zenon DEF Fail, Returned, parts, Serving, Unwinding
  <2> QED
    BY <1>2, <2>1, <2>2, Zenon DEF Fail
<1>3. CASE CloseLedger \/ Disconnect \/ CloseClients
  <2>1. LedgerInv'
    BY <1>3, Zenon DEF RunInv, LedgerInv, Served, CloseLedger, Disconnect, CloseClients, Serving, Unwinding
  <2>2. KeysInv' /\ KeysOfOneSetup'
    BY <1>3, Zenon DEF RunInv, KeysInv, KeysOfOneSetup, CloseLedger, Disconnect, CloseClients, keys
  <2> QED
    BY <2>1, <2>2, Zenon DEF RunInv
<1> QED
  BY <1>1, <1>2, <1>3, Zenon DEF End

\* A set-up of HandleNewEpoch that fails leaves the epoch key it has set.
LEMMA FailsInv ==
  ASSUME RunInv, NEW k \in running, NewEpochFails(k)
  PROVE  RunInv'
<1>1. LedgerInv'
  BY Zenon DEF RunInv, LedgerInv, Served, NewEpochFails, parts
<1>2. KeysInv'
  BY Zenon DEF RunInv, KeysInv, NewEpochFails
<1>3. KeysOfOneSetup'
  BY Zenon DEF RunInv, KeysOfOneSetup, NewEpochFails
<1> QED
  BY <1>1, <1>2, <1>3, Zenon DEF RunInv

\* The handlers of requests.
LEMMA RequestInv ==
  ASSUME RunInv, NEW e \in Requests, HandleOracleRequest(e) \/ UseLedger(e)
  PROVE  RunInv'
<1>2. \A f \in Requests \ {e} : req'[f] = req[f]
  BY Zenon DEF RunInv, LedgerInv, HandleOracleRequest, UseLedger
<1>3. UNCHANGED <<pc, ledger, watched, started, keys>>
  BY Zenon DEF HandleOracleRequest, UseLedger, parts
<1>4. CASE HandleOracleRequest(e)
  <2> DEFINE over == running # {}
  <2>a. over \in BOOLEAN /\ (over <=> running # {})
    BY Zenon
  <2>b. req' = [req EXCEPT ![e] = [at |-> "session", epoch |-> epochKey, member |-> memberKey,
                                   overlap |-> over, open |-> TRUE]]
    BY <1>4, Zenon DEF HandleOracleRequest
  <2> HIDE DEF over
  <2>1. /\ req' \in [Requests -> ReqType]
        /\ req'[e] = [at |-> "session", epoch |-> epochKey, member |-> memberKey,
                      overlap |-> over, open |-> TRUE]
    BY <2>a, <2>b, Zenon DEF RunInv, LedgerInv, KeysInv, ReqType
  <2>2. LedgerInv'
    BY <1>2, <1>3, <1>4, <2>1, Zenon DEF RunInv, LedgerInv, Served, HandleOracleRequest
  <2>3. KeysOfOneSetup'
    BY <1>2, <1>3, <2>a, <2>1 DEF RunInv, KeysInv, KeysOfOneSetup, keys
  <2> QED
    BY <1>3, <2>2, <2>3, Zenon DEF RunInv, KeysInv, keys
<1>5. CASE UseLedger(e)
  <2> DEFINE open == ledger = "open"
  <2>a. open \in BOOLEAN /\ (open <=> ledger = "open")
    BY Zenon
  <2>b. req' = [req EXCEPT ![e].at = "ledger", ![e].open = open]
    BY <1>5, Zenon DEF UseLedger
  <2> HIDE DEF open
  <2>1. /\ req' \in [Requests -> ReqType]
        /\ req'[e].at = "ledger" /\ req'[e].open = open
        /\ req'[e].epoch = req[e].epoch /\ req'[e].member = req[e].member
        /\ req'[e].overlap = req[e].overlap
    BY <2>a, <2>b, Zenon DEF RunInv, LedgerInv, ReqType
  <2>2. started # {} /\ (ledger = "open" \/ pc \in Unwinding)
        /\ pc \in Serving \cup {"closeledger"} \cup Unwinding
        /\ (pc = "closeledger" => ledger = "open")
    BY <1>5, Zenon DEF RunInv, LedgerInv, Served, UseLedger
  <2>3. LedgerInv'
    BY <1>2, <1>3, <2>a, <2>1, <2>2, Zenon DEF RunInv, LedgerInv, Served
  <2>4. KeysOfOneSetup'
    BY <1>2, <1>3, <2>1, Zenon DEF RunInv, KeysOfOneSetup, keys
  <2> QED
    BY <1>3, <2>3, <2>4 DEF RunInv, KeysInv, keys
<1> QED
  BY <1>4, <1>5, Zenon

\* Every step keeps the invariant.
LEMMA RunStep == RunInv /\ [Next]_vars => RunInv'
<1> SUFFICES ASSUME RunInv, [Next]_vars PROVE RunInv'
  BY Zenon
<1>1. CASE Start
  <2>1. CASE StartEpoch
    BY <2>1, BeginInv, Zenon DEF StartEpoch, parts
  <2>2. CASE BlsSetup
    <3>1. mine \in running
      BY <2>2, Zenon DEF BlsSetup, RunInv, KeysInv
    <3> QED
      BY <2>2, <3>1, EndInv, Zenon DEF BlsSetup, parts
  <2> QED
    BY <1>1, <2>1, <2>2, StartInv, AddEpochWatcherInv, WatchInv, Zenon DEF Start
<1>2. CASE End \/ Fail \/ DiscoveryFails \/ Killed
  BY <1>2, EndsInv, Zenon
<1>3. CASE HandleNewEpoch
  BY <1>3, BeginInv, Zenon DEF HandleNewEpoch, parts
<1>4. ASSUME NEW k \in running, NewEpochDone(k) PROVE RunInv'
  BY <1>4, EndInv, Zenon DEF NewEpochDone, parts
<1>5. CASE UNCHANGED vars
  BY <1>5, SameInv, Zenon DEF vars, keys
<1> QED
  BY <1>1, <1>2, <1>3, <1>4, <1>5, StartInv, FailsInv, RequestInv, Zenon DEF Next

\* Whenever a request is handled, the ledger is open or RunNode is unwinding: the order in
\* which RunNode opens the ledger and adds the watchers suffices, however handlers,
\* set-ups, errors and signals interleave with it.
THEOREM LedgerBeforeRequests == Spec => []LedgerThere
<1>1. RunInv => LedgerThere
  BY Zenon DEF RunInv, LedgerInv, LedgerThere, Unwinding
<1> QED
  BY <1>1, RunInit, RunStep, PTL DEF Spec

\* A session never holds keys of two set-ups unless set-ups overlapped or failed half way.
THEOREM KeysFromOneSetup == Spec => []KeysOfOneSetup
<1>1. RunInv => KeysOfOneSetup
  BY Zenon DEF RunInv
<1> QED
  BY <1>1, RunInit, RunStep, PTL DEF Spec

-----------------------------------------------------------------------------
(***************************************************************************)
(* TimeStream.  Rounds are the times Round(k).  A timer is due at a round, *)
(* a ticker late by what the first event was, and neither is overdue by    *)
(* Delay: so an event is sent less than a minute after its round.          *)
(***************************************************************************)
Phases == {"new", "timer", "ticker", "blocked", "closed"}
\* The types of TimeStream.
STypes == /\ now \in 0..MaxTime /\ stream \in [Nodes -> Phases]
          /\ due \in [Nodes -> 0..MaxTime + 2 * Interval]
          /\ buffered \in [Nodes -> 0..1] /\ left \subseteq Nodes

\* The k-th time after the start.
Round(k) == StartTime + k * Interval

\* A timer is set to a round, a ticker less than Delay after it, and neither is overdue.
OnTime == \A n \in Nodes : stream[n] \in {"timer", "ticker"} =>
  /\ now < due[n] + Delay
  /\ \E k \in Nat : /\ Round(k) <= due[n]
                    /\ due[n] <= Round(k) + (IF stream[n] = "timer" THEN 0 ELSE Delay - 1)

\* An event has the topic of its round.
Named == \A e \in events : e.topic = Streams!TimeToTopicName(Round(e.round))

SInv == STypes /\ OnTime /\ Named

\* The constants of TimeStream.
LEMMA StreamsSetting ==
  /\ Minute \in Nat \ {0} /\ Delay \in Nat \ {0} /\ MaxTime \in Nat
  /\ Interval \in Nat \ {0} /\ Interval % Minute = 0
  /\ StartTime \in 0..MaxTime /\ StartTime % Minute = 0
  /\ 2 * (Delay - 1) < Minute
BY SettingsOK, Zenon DEF Streams!Setting

\* Division by d of what lies less than d above a multiple of d.
LEMMA Quotient ==
  ASSUME NEW q \in Nat, NEW d \in Nat \ {0}, NEW r \in 0..(d - 1)
  PROVE  (q * d + r) \div d = q
OBVIOUS

\* A multiple is its quotient times the divisor.
LEMMA Multiple ==
  ASSUME NEW x \in Nat, NEW d \in Nat \ {0}, x % d = 0
  PROVE  x \div d \in Nat /\ x = (x \div d) * d
OBVIOUS

\* Rounds are as long as a minute or longer.
LEMMA LongRounds == Interval >= Minute
BY StreamsSetting

\* The start time and whole intervals make a whole number of minutes.
LEMMA RoundMinutes ==
  ASSUME NEW k \in Nat
  PROVE  \E q \in Nat : Round(k) = q * Minute
<1> USE StreamsSetting
<1>0. StartTime \in Nat
  OBVIOUS
<1>1. PICK s \in Nat : StartTime = s * Minute
  BY <1>0, Multiple, Zenon
<1>2. PICK i \in Nat : Interval = i * Minute
  BY Multiple, Zenon
<1>3. s + k * i \in Nat
  OBVIOUS
<1>4. Round(k) = (s + k * i) * Minute
  <2>1. StartTime + k * (i * Minute) = (s + k * i) * Minute
    BY <1>1
  <2> QED BY <1>2, <2>1 DEF Round
<1> QED BY <1>3, <1>4

\* A time less than a minute after a round is in that round and has its topic.
LEMMA InRound ==
  ASSUME NEW k \in Nat, NEW t \in Nat, Round(k) <= t, t < Round(k) + Minute
  PROVE  /\ (t - StartTime) \div Interval = k
         /\ Streams!TimeToTopicName(t) = Streams!TimeToTopicName(Round(k))
<1> USE StreamsSetting
<1> DEFINE r == t - Round(k)
<1>1. r \in 0..(Minute - 1) /\ r \in 0..(Interval - 1) /\ Round(k) \in Nat
      /\ t - StartTime = k * Interval + r
  <2>1. k * Interval \in Nat
    OBVIOUS
  <2> DEFINE x == k * Interval
  <2>2. Round(k) = StartTime + x /\ x \in Nat
    BY <2>1 DEF Round
  <2> HIDE DEF x
  <2>3. /\ r \in 0..(Minute - 1) /\ r \in 0..(Interval - 1)
        /\ t - StartTime = x + r /\ Round(k) \in Nat
    BY <2>2, LongRounds
  <2> QED BY <2>3 DEF x
<1>2. PICK q \in Nat : Round(k) = q * Minute
  BY RoundMinutes, Zenon
<1> HIDE DEF r
<1>3. (t - StartTime) \div Interval = k
  BY <1>1, Quotient, Zenon
<1>4. t = q * Minute + r /\ Round(k) = q * Minute + 0 /\ 0 \in 0..(Minute - 1)
  BY <1>1, <1>2 DEF r
<1>5. t \div Minute = q
  BY <1>1, <1>4, Quotient, Zenon
<1>6. Round(k) \div Minute = q
  BY <1>4, Quotient, Zenon
<1> QED BY <1>3, <1>5, <1>6, Zenon DEF Streams!TimeToTopicName

\* The first event is at a round that is not over.
LEMMA FirstRound ==
  ASSUME NEW t \in 0..MaxTime
  PROVE  /\ \E k \in Nat : Streams!FirstAfter(t) = Round(k)
         /\ Streams!FirstAfter(t) \in t..(MaxTime + Interval)
<1> USE StreamsSetting
<1>1. CASE StartTime - t < 0
  <2> DEFINE x == (t - StartTime) + Interval
             k == x \div Interval
  <2>1. x \in Nat /\ -((StartTime - t) - Interval) = x
    BY <1>1
  <2>2. Streams!FirstAfter(t) = StartTime + k * Interval
    BY <1>1, <2>1 DEF Streams!FirstAfter
  <2> HIDE DEF x
  <2>3. k \in Nat /\ k * Interval <= x /\ x < k * Interval + Interval /\ k * Interval \in Nat
    BY <2>1
  <2> DEFINE y == k * Interval
  <2>4. y \in Nat /\ y <= x /\ x < y + Interval /\ Streams!FirstAfter(t) = StartTime + y
    BY <2>2, <2>3
  <2> HIDE DEF k, y
  <2>5. Streams!FirstAfter(t) \in t..(MaxTime + Interval)
    BY <2>4 DEF x
  <2> QED BY <2>2, <2>3, <2>5 DEF Round
<1>2. CASE ~(StartTime - t < 0)
  <2>1. Streams!FirstAfter(t) = StartTime
    BY <1>2, Zenon DEF Streams!FirstAfter
  <2>2. StartTime = Round(0)
    BY DEF Round
  <2> QED BY <1>2, <2>1, <2>2
<1> QED BY <1>1, <1>2, Zenon

\* No stream has started.
LEMMA StreamsInit == Streams!Init => SInv
<1> SUFFICES ASSUME Streams!Init PROVE SInv
  BY Zenon
<1>1. 0 \in 0..MaxTime /\ 0 \in 0..MaxTime + 2 * Interval /\ 0 \in 0..1
  BY StreamsSetting
<1> QED BY <1>1, Zenon DEF Streams!Init, SInv, STypes, OnTime, Named, Phases

\* A stream starts with a timer.
LEMMA StartOnTime == ASSUME SInv, NEW n \in Nodes, Streams!Start(n) PROVE SInv'
<1> USE StreamsSetting
<1>1. /\ stream' = [stream EXCEPT ![n] = "timer"]
      /\ due' = [due EXCEPT ![n] = Streams!FirstAfter(now)]
      /\ UNCHANGED <<now, buffered, left, events>>
  BY Zenon DEF Streams!Start
<1>2. now \in 0..MaxTime
  BY Zenon DEF SInv, STypes
<1>3. PICK k \in Nat : Streams!FirstAfter(now) = Round(k)
  BY <1>2, FirstRound, Zenon
<1>4. Streams!FirstAfter(now) \in now..(MaxTime + Interval)
  BY <1>2, FirstRound, Zenon
<1> DEFINE f == Streams!FirstAfter(now)
<1> HIDE DEF f
<1>5. f \in 0..MaxTime + 2 * Interval /\ now < f + Delay /\ Round(k) <= f /\ f <= Round(k) + 0
  BY <1>2, <1>3, <1>4 DEF f
<1>6. /\ stream'[n] = "timer" /\ due'[n] = f
      /\ \A m \in Nodes \ {n} : stream'[m] = stream[m] /\ due'[m] = due[m]
  BY <1>1, Zenon DEF SInv, STypes, f
<1>7. STypes'
  BY <1>1, <1>5, Zenon DEF SInv, STypes, Phases, f
<1>8. OnTime'
  BY <1>1, <1>5, <1>6, Zenon DEF SInv, OnTime
<1> QED BY <1>1, <1>7, <1>8, Zenon DEF SInv, Named

\* An event is sent in its round, and the ticker keeps the lateness of the first.
LEMMA FireOnTime == ASSUME SInv, NEW n \in Nodes, Streams!Fire(n) PROVE SInv'
<1> USE StreamsSetting
<1>1. /\ stream[n] \in {"timer", "ticker"} /\ now >= due[n]
      /\ UNCHANGED <<now, left, cancelled>>
  BY Zenon DEF Streams!Fire
<1>2. CASE n \in left /\ buffered[n] = 1
  <2>1. stream' = [stream EXCEPT ![n] = "blocked"] /\ UNCHANGED <<due, buffered, events>>
    BY <1>2, Zenon DEF Streams!Fire
  <2>2. STypes'
    BY <1>1, <2>1, Zenon DEF SInv, STypes, Phases
  <2>3. OnTime'
    BY <1>1, <2>1, Zenon DEF SInv, OnTime, STypes
  <2> QED BY <2>1, <2>2, <2>3, Zenon DEF SInv, Named
<1>3. CASE ~(n \in left /\ buffered[n] = 1)
  <2> DEFINE d == (IF stream[n] = "timer" THEN now ELSE due[n]) + Interval
  <2>1. /\ events' = events \cup {[round |-> (now - StartTime) \div Interval,
                                  topic |-> Streams!TimeToTopicName(now)]}
        /\ stream' = [stream EXCEPT ![n] = "ticker"] /\ due' = [due EXCEPT ![n] = d]
        /\ buffered' = [buffered EXCEPT ![n] = IF n \in left THEN 1 ELSE 0]
    BY <1>3, Zenon DEF Streams!Fire, Streams!Sent
  <2>2. PICK k \in Nat :
          /\ Round(k) <= due[n]
          /\ due[n] <= Round(k) + (IF stream[n] = "timer" THEN 0 ELSE Delay - 1)
    BY <1>1, Zenon DEF SInv, OnTime
  <2>3. now < due[n] + Delay
    BY <1>1, Zenon DEF SInv, OnTime
  <2>4. now \in 0..MaxTime /\ due[n] \in 0..MaxTime + 2 * Interval
    BY Zenon DEF SInv, STypes
  <2>5. Round(k) \in Nat /\ Round(k + 1) = Round(k) + Interval /\ k + 1 \in Nat
    BY DEF Round
  <2>6. Round(k) <= now /\ now < Round(k) + Minute
    BY <1>1, <2>2, <2>3, <2>4, <2>5
  <2>7. /\ (now - StartTime) \div Interval = k
        /\ Streams!TimeToTopicName(now) = Streams!TimeToTopicName(Round(k))
    BY <2>4, <2>6, InRound
  <2>8. Named'
    BY <2>1, <2>7 DEF SInv, Named
  <2>9. /\ d \in 0..MaxTime + 2 * Interval /\ now < d + Delay
        /\ Round(k + 1) <= d /\ d <= Round(k + 1) + (Delay - 1)
    BY <1>1, <2>2, <2>3, <2>4, <2>5
  <2> HIDE DEF d
  <2>10. STypes'
    BY <1>1, <2>1, <2>9 DEF SInv, STypes, Phases
  <2>11. /\ stream'[n] = "ticker" /\ due'[n] = d
         /\ \A m \in Nodes \ {n} : stream'[m] = stream[m] /\ due'[m] = due[m]
    BY <2>1, Zenon DEF SInv, STypes
  <2>12. OnTime'
    BY <1>1, <2>5, <2>9, <2>11, Zenon DEF SInv, OnTime
  <2> QED BY <2>8, <2>10, <2>12, Zenon DEF SInv
<1> QED BY <1>2, <1>3, Zenon

\* Time passes a timer by less than Delay.
LEMMA TickOnTime == ASSUME SInv, Streams!Tick PROVE SInv'
<1> USE StreamsSetting
<1>1. /\ now < MaxTime /\ now' = now + 1 /\ UNCHANGED <<stream, due, buffered, left, events>>
      /\ \A n \in Nodes : stream[n] \in {"timer", "ticker"} => now + 1 < due[n] + Delay
  BY Zenon DEF Streams!Tick
<1>2. now' \in 0..MaxTime
  BY <1>1 DEF SInv, STypes
<1>3. STypes'
  BY <1>1, <1>2, Zenon DEF SInv, STypes
<1>4. OnTime'
  BY <1>1, Zenon DEF SInv, OnTime
<1> QED BY <1>1, <1>3, <1>4, Zenon DEF SInv, Named

\* Closing, leaving and cancelling set no timer.
LEMMA StopsOnTime ==
  ASSUME SInv,
         Streams!Cancel \/ \E n \in Nodes : Streams!Close(n) \/ Streams!Leave(n)
  PROVE  SInv'
<1> DEFINE Stops ==
      /\ UNCHANGED <<now, due, buffered, events>> /\ left' \subseteq Nodes
      /\ stream' \in [Nodes -> Phases]
      /\ \A n \in Nodes : stream'[n] = stream[n] \/ stream'[n] = "closed"
<1>1. Stops
  <2>1. CASE Streams!Cancel
    BY <2>1, Zenon DEF Streams!Cancel, SInv, STypes
  <2>2. ASSUME NEW n \in Nodes, Streams!Close(n) PROVE Stops
    BY <2>2, Zenon DEF Streams!Close, SInv, STypes, Phases
  <2>3. ASSUME NEW n \in Nodes, Streams!Leave(n) PROVE Stops
    BY <2>3, Zenon DEF Streams!Leave, SInv, STypes
  <2> QED BY <2>1, <2>2, <2>3, Zenon
<1>2. STypes' /\ OnTime'
  BY <1>1, Zenon DEF SInv, STypes, OnTime
<1> QED BY <1>1, <1>2, Zenon DEF SInv, Named

\* Every step keeps the invariant.
LEMMA StreamsNext == SInv /\ [Streams!Next]_streams => SInv'
<1> SUFFICES ASSUME SInv, [Streams!Next]_streams PROVE SInv'
  BY Zenon
<1>1. CASE Streams!Next
  BY <1>1, StartOnTime, FireOnTime, TickOnTime, StopsOnTime, Zenon DEF Streams!Next
<1>2. CASE UNCHANGED streams
  BY <1>2, Zenon DEF streams, SInv, STypes, OnTime, Named
<1> QED BY <1>1, <1>2, Zenon

\* The invariant of the streams holds.
LEMMA StreamsInvariance == Streams!Spec => []SInv
BY StreamsInit, StreamsNext, PTL DEF Streams!Spec, Streams!vars, streams

\* The clocks and channels have their types: no stream is ever due more than two intervals
\* after the last tick.
THEOREM StreamsTyped == Streams!Spec => []Streams!TypeOK
<1>1. SInv => Streams!TypeOK
  BY Zenon DEF SInv, STypes, Streams!TypeOK
<1> QED BY <1>1, StreamsInvariance, PTL

\* Two events of one round have one topic, whenever the nodes were started and however late
\* their timers fire, as long as twice that lateness is less than a minute (time.go:48).
THEOREM TopicsAgree == Streams!Spec => []SameTopic
<1>1. SInv => SameTopic
  BY Zenon DEF SInv, Named, SameTopic, Streams!SameTopic
<1> QED BY <1>1, StreamsInvariance, PTL

-----------------------------------------------------------------------------
(***************************************************************************)
(* Uptime.  The leader counts answers, ReportedWasUp speaks of nodes and   *)
(* of what they marked in this round.  So the invariant says that a node   *)
(* answers once in a round, and that an answer is what was marked since    *)
(* the last reset unless that reset did not reach the node.                *)
(***************************************************************************)
\* The types of Uptime, and who leads when.
RTypes ==
  /\ registry \in [Nodes -> Nat] /\ since \in [Nodes -> 0..MaxPasses] /\ stale \subseteq Nodes
  /\ server \in [Nodes -> Nodes \cup {None}] /\ waiting \in [Nodes -> BOOLEAN]
  /\ phase \in {"idle", "uptime", "reset"} /\ reported \in BOOLEAN
  /\ IF phase = "idle" THEN leader = None /\ todo = {} ELSE leader \in Nodes /\ rounds > 0
  /\ todo \subseteq Nodes \ {leader} /\ rounds \in 0..MaxRounds

\* A registry that the last reset reached holds the marks made since.
Exact == \A n \in Nodes \ stale : registry[n] = since[n]

\* What a set of answers is like: exact unless stale, and one of a node.
Sound(as) ==
  /\ \A a \in as : a.node \in Nodes /\ (a.stale \/ a.dur = a.since)
  /\ \A a, b \in as : a.node = b.node => a = b

\* The answers the leader has got in the running round.
Answered ==
  /\ Sound(answers)
  /\ phase = "idle" => answers = {}
  /\ phase = "uptime" => \A a \in answers : a.node \notin todo \cup {leader}
  /\ reported => phase = "reset" /\ Reports!Up(answers)

\* How often a node's marks were counted anew, and what they sum up to without a reset.
Resets(n) == IF phase = "uptime" \/ (phase = "reset" /\ n \in todo \cup {leader})
               THEN rounds - 1 ELSE rounds
Sums == \A n \in Nodes : registry[n] <= since[n] + Resets(n) * MaxPasses

RInv == RTypes /\ Exact /\ Answered /\ Sums

\* The constants of Uptime.
LEMMA ReportsSetting ==
  /\ None \notin Nodes /\ ReportInterval \in Nat /\ MaxPasses \in Nat /\ MaxRounds \in Nat
BY SettingsOK, Zenon DEF Reports!Setting

\* One more round's marks.
LEMMA MoreMarks ==
  ASSUME NEW r \in Nat, r > 0, NEW m \in Nat
  PROVE  (r - 1) * m + m = r * m /\ (r - 1) * m \in Nat /\ r * m \in Nat
OBVIOUS

\* No node knows the peer when everything starts.
LEMMA ReportsInit == Reports!Init => RInv
<1> SUFFICES ASSUME Reports!Init PROVE RInv
  BY Zenon
<1> USE ReportsSetting
<1>1. RTypes /\ Exact
  <2>1. 0 \in 0..MaxPasses /\ 0 \in 0..MaxRounds /\ 0 \in Nat
    OBVIOUS
  <2> QED BY <2>1, Zenon DEF Reports!Init, RTypes, Exact
<1>2. Answered
  BY Zenon DEF Reports!Init, Answered, Sound
<1>3. Sums
  <2>1. 0 <= 0 + 0 * MaxPasses
    OBVIOUS
  <2>2. \A n \in Nodes : registry[n] = 0 /\ since[n] = 0 /\ Resets(n) = 0
    BY Zenon DEF Reports!Init, Resets
  <2> QED BY <2>1, <2>2, Zenon DEF Sums
<1> QED BY <1>1, <1>2, <1>3, Zenon DEF RInv

\* A node that has not answered adds an answer of its own, or none.
LEMMA AnswerFacts ==
  ASSUME RTypes, Exact, NEW n \in Nodes, \A a \in answers : a.node # n, Sound(answers)
  PROVE  /\ Sound(answers \cup Reports!Answer(n))
         /\ \A a \in Reports!Answer(n) : a.node = n
<1> DEFINE x == [node |-> n, dur |-> registry[n], since |-> since[n], stale |-> n \in stale]
<1>1. x.node = n /\ x.dur = registry[n] /\ x.since = since[n] /\ x.stale = (n \in stale)
  OBVIOUS
<1>2. x.node = n /\ (x.stale \/ x.dur = x.since)
  BY <1>1, Zenon DEF Exact
<1>3. Reports!Answer(n) = {} \/ Reports!Answer(n) = {x}
  BY Zenon DEF Reports!Answer
<1> HIDE DEF x
<1>4. Sound(answers \cup {x})
  <2>1. \A a \in answers \cup {x} : a.node \in Nodes /\ (a.stale \/ a.dur = a.since)
    BY <1>2, Zenon DEF Sound
  <2>2. \A a, b \in answers \cup {x} : a.node = b.node => a = b
    BY <1>2, Zenon DEF Sound
  <2> QED BY <2>1, <2>2, Zenon DEF Sound
<1>5. CASE Reports!Answer(n) = {}
  <2>1. answers \cup Reports!Answer(n) = answers
    BY <1>5, Zenon
  <2> QED BY <1>5, <2>1, Zenon
<1>6. CASE Reports!Answer(n) = {x}
  BY <1>2, <1>4, <1>6, Zenon
<1> QED BY <1>3, <1>5, <1>6, Zenon

\* A mark counts in the registry and since the last reset.
LEMMA MarkKeeps == ASSUME RInv, NEW n \in Nodes, Reports!Mark(n) PROVE RInv'
<1> USE ReportsSetting
<1>1. /\ since[n] < MaxPasses
      /\ registry' = [registry EXCEPT ![n] = registry[n] + 1]
      /\ since' = [since EXCEPT ![n] = since[n] + 1]
      /\ UNCHANGED <<server, waiting, leader, phase, todo, answers, reported, rounds, stale>>
  BY Zenon DEF Reports!Mark, Reports!round
<1>2. registry[n] + 1 \in Nat /\ since[n] + 1 \in 0..MaxPasses
  BY <1>1 DEF RInv, RTypes
<1>3. RTypes' /\ Exact'
  BY <1>1, <1>2, Zenon DEF RInv, RTypes, Exact
<1>4. Answered'
  BY <1>1, Zenon DEF RInv, Answered, Reports!Up, Reports!InWindow
<1>5. Sums'
  <2> SUFFICES ASSUME NEW m \in Nodes
               PROVE  registry'[m] <= since'[m] + Resets(m)' * MaxPasses
    BY Zenon DEF Sums
  <2>1. Resets(m)' = Resets(m) /\ registry[m] <= since[m] + Resets(m) * MaxPasses
    BY <1>1, Zenon DEF Resets, RInv, Sums
  <2>2. /\ Resets(m) \in Nat /\ registry[m] \in Nat /\ since[m] \in Nat
    BY DEF RInv, RTypes, Resets
  <2>3. \/ registry'[m] = registry[m] /\ since'[m] = since[m]
        \/ registry'[m] = registry[m] + 1 /\ since'[m] = since[m] + 1
    BY <1>1, Zenon DEF RInv, RTypes
  <2>4. Resets(m) * MaxPasses \in Nat
    BY <2>2
  <2> HIDE DEF Resets
  <2> QED BY <2>1, <2>2, <2>3, <2>4
<1> QED BY <1>3, <1>4, <1>5, Zenon DEF RInv

\* The leader asks all the others.
LEMMA NewLeaderKeeps == ASSUME RInv, NEW n \in Nodes, Reports!NewLeader(n) PROVE RInv'
<1> USE ReportsSetting
<1>1. /\ phase = "idle" /\ rounds < MaxRounds /\ leader' = n /\ phase' = "uptime"
      /\ todo' = Nodes \ {n} /\ rounds' = rounds + 1
      /\ UNCHANGED <<registry, since, stale, server, waiting, answers, reported>>
  BY Zenon DEF Reports!NewLeader, Reports!meters
<1>2. rounds' > 0 /\ rounds' \in 0..MaxRounds /\ rounds' - 1 = rounds
  BY <1>1 DEF RInv, RTypes
<1>3. RTypes' /\ Exact'
  BY <1>1, <1>2, Zenon DEF RInv, RTypes, Exact
<1>4. Answered'
  BY <1>1, Zenon DEF RInv, Answered
<1>5. Sums'
  BY <1>1, <1>2, Zenon DEF RInv, Sums, Resets
<1> QED BY <1>3, <1>4, <1>5, Zenon DEF RInv

\* Registering and giving up touch no registry.
LEMMA ServersKeep ==
  ASSUME RInv, NEW n \in Nodes, Reports!Deadline(n) \/ \E l \in Nodes : Reports!NewServer(n, l)
  PROVE  RInv'
<1>1. /\ server' \in [Nodes -> Nodes \cup {None}] /\ waiting' \in [Nodes -> BOOLEAN]
      /\ UNCHANGED <<registry, since, stale, leader, phase, todo, answers, reported, rounds>>
  <2>1. CASE Reports!Deadline(n)
    BY <2>1, Zenon DEF Reports!Deadline, Reports!meters, Reports!round, RInv, RTypes
  <2>2. CASE \E l \in Nodes : Reports!NewServer(n, l)
    <3>1. PICK l \in Nodes : Reports!NewServer(n, l)
      BY <2>2
    <3> QED BY <3>1, Zenon DEF Reports!NewServer, Reports!meters, Reports!round, RInv, RTypes
  <2> QED BY <2>1, <2>2, Zenon
<1> QED BY <1>1, Zenon
        DEF RInv, RTypes, Exact, Answered, Sums, Resets, Reports!Up, Reports!InWindow

\* A node answers once, since it is called once.
LEMMA CallUptimeKeeps == ASSUME RInv, NEW n \in Nodes, Reports!CallUptime(n) PROVE RInv'
<1>1. /\ phase = "uptime" /\ n \in todo /\ todo' = todo \ {n}
      /\ answers' = answers \/ answers' = answers \cup Reports!Answer(n)
      /\ UNCHANGED <<registry, since, stale, server, waiting, leader, phase, reported, rounds>>
  BY Zenon DEF Reports!CallUptime, Reports!meters
<1>2. RTypes' /\ Exact'
  BY <1>1, Zenon DEF RInv, RTypes, Exact
<1>3. Sums'
  BY <1>1, Zenon DEF RInv, Sums, Resets
<1>4. Answered'
  <2>1. CASE answers' = answers
    BY <1>1, <2>1, Zenon DEF RInv, Answered
  <2>2. CASE answers' = answers \cup Reports!Answer(n)
    <3>0. \A a \in answers : a.node # n
      BY <1>1, Zenon DEF RInv, Answered
    <3>1. Sound(answers') /\ \A a \in answers' : a \in answers \/ a.node = n
      BY <2>2, <3>0, AnswerFacts, Zenon DEF RInv, Answered
    <3>2. n # leader
      BY <1>1, Zenon DEF RInv, RTypes
    <3> QED BY <1>1, <3>1, <3>2, Zenon DEF RInv, Answered
  <2> QED BY <1>1, <2>1, <2>2, Zenon
<1> QED BY <1>2, <1>3, <1>4, Zenon DEF RInv

\* The leader adds its own answer and counts.
LEMMA CollectKeeps == ASSUME RInv, Reports!Collect PROVE RInv'
<1>1. /\ phase = "uptime" /\ todo = {} /\ answers' = answers \cup Reports!Answer(leader)
      /\ phase' = "reset" /\ todo' = Nodes \ {leader}
      /\ reported' = (answers' # {} /\ Reports!Up(answers'))
      /\ UNCHANGED <<registry, since, stale, server, waiting, leader, rounds>>
  BY Zenon DEF Reports!Collect, Reports!meters
<1>2. leader \in Nodes
  BY <1>1, Zenon DEF RInv, RTypes
<1>3. RTypes' /\ Exact'
  BY <1>1, Zenon DEF RInv, RTypes, Exact
<1>4. Sums'
  BY <1>1, <1>2, Zenon DEF RInv, Sums, Resets
<1>5. Answered'
  <2>1. \A a \in answers : a.node # leader
    BY <1>1, Zenon DEF RInv, Answered
  <2>2. Sound(answers')
    BY <1>1, <1>2, <2>1, AnswerFacts, Zenon DEF RInv, Answered
  <2> QED BY <1>1, <2>2, Zenon DEF Answered, Reports!Up, Reports!InWindow
<1> QED BY <1>3, <1>4, <1>5, Zenon DEF RInv

\* A node that is called starts anew, and what it keeps is at most one round's marks more.
LEMMA CallResetKeeps == ASSUME RInv, NEW n \in Nodes, Reports!CallReset(n) PROVE RInv'
<1> USE ReportsSetting
<1>1. /\ phase = "reset" /\ n \in todo /\ todo' = todo \ {n}
      /\ since' = [since EXCEPT ![n] = 0]
      /\ UNCHANGED <<server, leader, phase, answers, reported, rounds>>
  BY Zenon DEF Reports!CallReset
<1>2. \/ registry' = [registry EXCEPT ![n] = 0] /\ stale' = stale \ {n}
      \/ registry' = registry /\ stale' = stale \cup {n}
  BY Zenon DEF Reports!CallReset, Reports!Cleared
<1>3. waiting' \in [Nodes -> BOOLEAN]
  BY Zenon DEF Reports!CallReset, RInv, RTypes
<1>4. 0 \in Nat /\ 0 \in 0..MaxPasses
  OBVIOUS
<1>5. registry' \in [Nodes -> Nat] /\ since' \in [Nodes -> 0..MaxPasses] /\ stale' \subseteq Nodes
  <2>1. since' \in [Nodes -> 0..MaxPasses]
    BY <1>1, <1>4, Zenon DEF RInv, RTypes
  <2>2. registry' \in [Nodes -> Nat]
    BY <1>2, <1>4, Zenon DEF RInv, RTypes
  <2>3. stale' \subseteq Nodes
    BY <1>2, Zenon DEF RInv, RTypes
  <2> QED BY <2>1, <2>2, <2>3, Zenon
<1>6. RTypes'
  BY <1>1, <1>3, <1>5, Zenon DEF RInv, RTypes
<1>7. Exact'
  BY <1>1, <1>2, Zenon DEF RInv, RTypes, Exact
<1>8. Answered'
  BY <1>1, Zenon DEF RInv, Answered, Reports!Up, Reports!InWindow
<1>9. Sums'
  <2> SUFFICES ASSUME NEW m \in Nodes
               PROVE  registry'[m] <= since'[m] + Resets(m)' * MaxPasses
    BY Zenon DEF Sums
  <2>1. registry[m] <= since[m] + Resets(m) * MaxPasses
    BY Zenon DEF RInv, Sums
  <2>2. rounds \in Nat /\ rounds > 0
    BY <1>1 DEF RInv, RTypes
  <2>3. CASE m # n
    <3>1. registry'[m] = registry[m] /\ since'[m] = since[m] /\ Resets(m)' = Resets(m)
      BY <1>1, <1>2, <2>3, Zenon DEF RInv, RTypes, Resets
    <3> QED BY <2>1, <3>1, Zenon
  <2>4. CASE m = n
    <3>1. n # leader /\ n \notin todo'
      BY <1>1, Zenon DEF RInv, RTypes
    <3>2. since'[m] = 0 /\ Resets(m) = rounds - 1 /\ Resets(m)' = rounds
      BY <1>1, <2>4, <3>1, Zenon DEF RInv, RTypes, Resets
    <3>3. registry'[m] = 0 \/ registry'[m] = registry[m]
      BY <1>2, <2>4, Zenon DEF RInv, RTypes
    <3>4. registry[m] \in Nat /\ since[m] \in 0..MaxPasses
      BY Zenon DEF RInv, RTypes
    <3>5. (rounds - 1) * MaxPasses + MaxPasses = rounds * MaxPasses
          /\ (rounds - 1) * MaxPasses \in Nat /\ rounds * MaxPasses \in Nat
      BY <2>2, MoreMarks
    <3> DEFINE p == (rounds - 1) * MaxPasses  q == rounds * MaxPasses
    <3>6. /\ p \in Nat /\ q \in Nat /\ p + MaxPasses = q /\ registry[m] <= since[m] + p
      BY <2>1, <3>2, <3>5
    <3> HIDE DEF p, q
    <3>7. registry'[m] <= q
      BY <3>3, <3>4, <3>6
    <3> QED BY <3>2, <3>7, <3>6 DEF q
  <2> QED BY <2>3, <2>4, Zenon
<1> QED BY <1>6, <1>7, <1>8, <1>9, Zenon DEF RInv

\* The round ends with the leader's own registry.
LEMMA ClearKeeps == ASSUME RInv, Reports!Clear PROVE RInv'
<1> USE ReportsSetting
<1>1. /\ phase = "reset" /\ todo = {} /\ registry' = [registry EXCEPT ![leader] = 0]
      /\ stale' = stale \ {leader} /\ since' = [since EXCEPT ![leader] = 0]
      /\ leader' = None /\ phase' = "idle" /\ answers' = {} /\ reported' = FALSE
      /\ UNCHANGED <<server, waiting, todo, rounds>>
  BY Zenon DEF Reports!Clear, Reports!Cleared
<1>2. 0 \in Nat /\ 0 \in 0..MaxPasses
  OBVIOUS
<1>3. RTypes' /\ Exact'
  BY <1>1, <1>2, Zenon DEF RInv, RTypes, Exact
<1>4. Answered'
  BY <1>1, Zenon DEF Answered, Sound
<1>5. Sums'
  <2> SUFFICES ASSUME NEW m \in Nodes
               PROVE  registry'[m] <= since'[m] + Resets(m)' * MaxPasses
    BY Zenon DEF Sums
  <2>1. CASE m # leader
    <3>1. registry'[m] = registry[m] /\ since'[m] = since[m] /\ Resets(m)' = Resets(m)
      BY <1>1, <2>1, Zenon DEF RInv, RTypes, Resets
    <3> QED BY <3>1, Zenon DEF RInv, Sums
  <2>2. CASE m = leader
    <3>1. registry'[m] = 0 /\ since'[m] = 0 /\ Resets(m)' = rounds
      BY <1>1, <2>2, Zenon DEF RInv, RTypes, Resets
    <3>2. rounds * MaxPasses \in Nat
      BY DEF RInv, RTypes
    <3> QED BY <3>1, <3>2
  <2> QED BY <2>1, <2>2, Zenon
<1> QED BY <1>3, <1>4, <1>5, Zenon DEF RInv

\* Every step of a round keeps the invariant.
LEMMA ReportsNext == RInv /\ [Reports!Next]_reports => RInv'
<1> SUFFICES ASSUME RInv, [Reports!Next]_reports PROVE RInv'
  BY Zenon
<1>1. CASE Reports!Next
  BY <1>1, MarkKeeps, NewLeaderKeeps, ServersKeep, CallUptimeKeeps, CollectKeeps, CallResetKeeps,
     ClearKeeps, Zenon DEF Reports!Next
<1>2. CASE UNCHANGED reports
  BY <1>2, Zenon
  DEF reports, RInv, RTypes, Exact, Answered, Sums, Resets, Reports!Up, Reports!InWindow
<1> QED BY <1>1, <1>2, Zenon

\* The invariant bounds the registries.
LEMMA RegistriesBounded == RInv => Reports!TypeOK
<1> SUFFICES ASSUME RInv PROVE Reports!TypeOK
  BY Zenon
<1> USE ReportsSetting
<1>1. ASSUME NEW n \in Nodes
      PROVE  registry[n] \in 0..(MaxRounds + 1) * MaxPasses
  <2>1. /\ registry[n] \in Nat /\ since[n] \in 0..MaxPasses
        /\ registry[n] <= since[n] + Resets(n) * MaxPasses
    BY Zenon DEF RInv, RTypes, Sums
  <2>2. Resets(n) \in 0..MaxRounds
    BY DEF RInv, RTypes, Resets
  <2> HIDE DEF Resets
  <2>3. ASSUME NEW k \in 0..MaxRounds
        PROVE  /\ k * MaxPasses + MaxPasses <= (MaxRounds + 1) * MaxPasses
               /\ k * MaxPasses \in Nat
    OBVIOUS
  <2> DEFINE p == Resets(n) * MaxPasses  q == (MaxRounds + 1) * MaxPasses
  <2>4. p + MaxPasses <= q /\ p \in Nat /\ q \in Nat /\ registry[n] <= since[n] + p
    BY <2>1, <2>2, <2>3
  <2> HIDE DEF p, q
  <2>5. registry[n] \in 0..q
    BY <2>1, <2>4
  <2> QED BY <2>5, Zenon DEF q
<1>2. registry \in [Nodes -> 0..(MaxRounds + 1) * MaxPasses]
  BY <1>1, Zenon DEF RInv, RTypes
<1> QED BY <1>2, Zenon DEF Reports!TypeOK, RInv, RTypes

\* The invariant of the reports holds.
LEMMA ReportsInvariance == Reports!Spec => []RInv
BY ReportsInit, ReportsNext, PTL DEF Reports!Spec, Reports!vars, reports

\* The rounds have their types: a registry never holds more than the marks of all rounds,
\* however many resets it has missed, and a leader never asks itself.
THEOREM ReportsTyped == Reports!Spec => []Reports!TypeOK
BY ReportsInvariance, RegistriesBounded, PTL

\* The leader counts what it has got.
INSTANCE FiniteSetTheorems

Countable == IsFiniteSet(answers)

\* Each step adds at most one answer.
LEMMA AnswersFinite == Countable /\ [Reports!Next]_reports => Countable'
<1> SUFFICES ASSUME IsFiniteSet(answers), [Reports!Next]_reports PROVE IsFiniteSet(answers')
  BY Zenon DEF Countable
<1>1. ASSUME NEW n PROVE IsFiniteSet(answers \cup Reports!Answer(n))
  BY FS_AddElement, Zenon DEF Reports!Answer
<1>2. \/ answers' = answers \/ answers' = {}
      \/ \E n : answers' = answers \cup Reports!Answer(n)
  BY Zenon
  DEF Reports!Next, Reports!Mark, Reports!NewLeader, Reports!Deadline, Reports!CallUptime,
      Reports!CallReset, Reports!NewServer, Reports!Collect, Reports!Clear, Reports!round, reports
<1> QED BY <1>1, <1>2, FS_EmptySet, Zenon

\* As many nodes as answers, when no node answers twice.
LEMMA OneEach ==
  ASSUME NEW S, IsFiniteSet(S), \A a, b \in S : a.node = b.node => a = b
  PROVE  Cardinality({a.node : a \in S}) = Cardinality(S)
<1> DEFINE T == {a.node : a \in S}
           f == [a \in S |-> a.node]
<1>1. f \in [S -> T] /\ (\A a, b \in S : f[a] = f[b] => a = b) /\ \A t \in T : \E a \in S : f[a] = t
  BY Zenon
<1>2. ExistsBijection(S, T)
  BY <1>1, Zenon DEF ExistsBijection, Bijection, Injection, Surjection, IsInjective
<1> QED BY <1>2, FS_Bijection, Zenon

\* Uptime counts as this module does.
LEMMA SameCount == ASSUME NEW S PROVE Reports!Cardinality(S) = Cardinality(S)
BY DEF Reports!Cardinality, Cardinality, Reports!IsFiniteSet, IsFiniteSet

\* The majority of the answers is one of the nodes.
LEMMA ReportedHolds == RInv /\ Countable => ReportedWasUp
<1> SUFFICES ASSUME RInv, Countable, reported
             PROVE  2 * Cardinality({a.node : a \in {b \in answers :
                                                       b.stale \/ Reports!InWindow(b.since)}})
                      > Cardinality({a.node : a \in answers})
  BY SameCount, Zenon DEF ReportedWasUp, Reports!ReportedWasUp
<1> DEFINE W == {b \in answers : b.stale \/ Reports!InWindow(b.since)}
           V == {b \in answers : Reports!InWindow(b.dur)}
<1>1. IsFiniteSet(answers) /\ Cardinality(V) > Cardinality(answers) \div 2
  BY SameCount, Zenon DEF Countable, RInv, Answered, Reports!Up
<1>2. V \in SUBSET W /\ W \in SUBSET answers
  BY Zenon DEF RInv, Answered, Sound
<1>3. IsFiniteSet(W) /\ IsFiniteSet(V) /\ Cardinality(V) <= Cardinality(W)
  BY <1>1, <1>2, FS_Subset, Zenon
<1>4. /\ Cardinality({a.node : a \in W}) = Cardinality(W)
      /\ Cardinality({a.node : a \in answers}) = Cardinality(answers)
  <2>1. \A a, b \in answers : a.node = b.node => a = b
    BY Zenon DEF RInv, Answered, Sound
  <2> QED BY <1>1, <1>2, <1>3, <2>1, OneEach, Zenon
<1>5. Cardinality(V) \in Nat /\ Cardinality(W) \in Nat /\ Cardinality(answers) \in Nat
  BY <1>1, <1>3, FS_CardinalityType, Zenon
<1> HIDE DEF W, V
<1>6. 2 * Cardinality(W) > Cardinality(answers)
  BY <1>1, <1>3, <1>5
<1> QED BY <1>4, <1>6 DEF W

\* A peer on the leader's list was marked in the window by more than half of the nodes that
\* know it, or by nodes the last reset did not reach: for any number of nodes and rounds,
\* whichever calls fail and whenever nodes give up waiting (uptime/client.go:82).
THEOREM ReportsAreSeen == Reports!Spec => []ReportedWasUp
<1>1. Reports!Init => Countable
  BY FS_EmptySet, Zenon DEF Reports!Init, Countable
<1>2. Reports!Spec => []Countable
  BY <1>1, AnswersFinite, PTL DEF Reports!Spec, Reports!vars, reports
<1> QED BY <1>2, ReportsInvariance, ReportedHolds, PTL
=============================================================================
