------------------------------ MODULE NodeRun -------------------------------
(* The life of a relayer process: RunNode of node/bridge/init.go brings up the parts one
   after the other while the handlers of the watchers it has already added run beside it,
   and the process ends by a signal, a fatal error, or an error that unwinds RunNode.

   The parts are abstracted to what the handlers need of them: the ledger and the pubsub are
   there or not, the epoch key and the membership key are the set-up they come from (as if
   every set-up found another registry and made other keys).  What
   the set-up, the session and the client do inside is in EpochSetup, OracleSession and
   EthClient; from there comes that Close of a client whose subLoop has been started never
   returns: CloseReturns waits for a wait group that subLoop does not leave. *)
EXTENDS Integers, FiniteSets

CONSTANTS
  Chains,     \* config.Bridge.Chains
  RegChain,   \* config.Bridge.RegChainId
  Requests,   \* OracleRequest events
  MaxEpochs,  \* NewEpoch events that ask for a set-up (noEpochKey)
  MaxErrors   \* start-up steps that fail

EpochWatch == "NewEpoch"

ASSUME RegChainAssumption == RegChain \in Chains /\ EpochWatch \notin Chains

VARIABLES
  pc,        \* where RunNode stands
  exit,      \* how the process ended, or "no"
  ledger,    \* Node.Ledger
  pubsub,    \* Node.P2PPubSub
  epochKey,  \* Node.EpochPublicKey, as the number of its set-up
  memberKey, \* Node.MembershipKey, as the number of its set-up
  setups,    \* set-ups started
  mine,      \* the set-up RunNode has called, or 0
  running,   \* the set-ups whose StartEpoch has not returned
  disturbed, \* has a set-up started while another was running, or failed half way?
  watched,   \* the watchers: EpochWatch, and the chains watched for OracleRequest
  started,   \* chains whose client has a subLoop
  discovery, \* the goroutine of DiscoverByRendezvous
  req,       \* the handler of each event
  errors

vars == <<pc, exit, ledger, pubsub, epochKey, memberKey, setups, mine, running, disturbed,
          watched, started, discovery, req, errors>>
parts == <<ledger, pubsub, watched, started, discovery>>
keys == <<epochKey, memberKey, setups, mine, running, disturbed>>

\* logrus.Fatal ends the process there and then; the other errors are returned.
Fatal == {"clients", "bridge", "host", "gsn", "exists"}
Returned == {"load", "blsid", "dht", "pubsub", "privkey", "watchepoch", "startepoch", "setup",
             "ledger", "watch", "chainid"}

Idle == [at |-> "idle", epoch |-> 0, member |-> 0, overlap |-> FALSE, open |-> TRUE]

Init ==
  /\ pc = "load" /\ exit = "no"
  /\ ledger = "none" /\ pubsub = "none"
  /\ epochKey = 0 /\ memberKey = 0 /\ setups = 0 /\ mine = 0 /\ running = {} /\ disturbed = FALSE
  /\ watched = {} /\ started = {} /\ discovery = "none"
  /\ req = [e \in Requests |-> Idle]
  /\ errors = 0

Running == exit = "no"
-----------------------------------------------------------------------------
(* RunNode. *)

\* The steps that leave nothing the handlers see.
Step(from, to) == /\ Running /\ pc = from
                  /\ pc' = to
                  /\ UNCHANGED <<exit, parts, keys, req, errors>>

LoadSecp256k1Key == Step("load", "clients")
NewNodeWithClients == Step("clients", "bridge")
NewBridge == Step("bridge", "host")
NewHostFromKeyFile == Step("host", "blsid")
getNodeBlsId == Step("blsid", "dht")
InitDHT == Step("dht", "discover")
NewGsnClient == Step("gsn", "exists")
NodeExists == Step("exists", "pubsub")
NotRegistered == Step("exists", "closeledger")  \* RunNode returns nil
KeysFromFiles == Step("privkey", "watchepoch")

Fail == /\ Running /\ errors < MaxErrors
        /\ \/ pc \in Fatal /\ exit' = "fatal" /\ UNCHANGED pc
           \/ pc \in Returned /\ pc' = "closeledger" /\ UNCHANGED exit
        /\ errors' = errors + 1
        /\ UNCHANGED <<parts, keys, req>>

DiscoverByRendezvous == /\ Running /\ pc = "discover"
                        /\ discovery' = "ticking"
                        /\ pc' = "gsn"
                        /\ UNCHANGED <<exit, ledger, pubsub, watched, started, keys, req,
                                       errors>>

InitializeCommonPubSub == /\ Running /\ pc = "pubsub"
                          /\ pubsub' = "open"
                          /\ pc' = "privkey"
                          /\ UNCHANGED <<exit, ledger, watched, started, discovery, keys, req,
                                         errors>>

\* From here on HandleNewEpoch runs beside RunNode.
AddEpochWatcher == /\ Running /\ pc = "watchepoch"
                   /\ started' = started \cup {RegChain}
                   /\ watched' = watched \cup {EpochWatch}
                   /\ pc' = "startepoch"
                   /\ UNCHANGED <<exit, ledger, pubsub, discovery, keys, req, errors>>

\* StartEpoch sets the epoch key at once and the membership key when BlsSetup returns.
BeginEpoch == /\ setups' = setups + 1
              /\ epochKey' = setups + 1
              /\ running' = running \cup {setups + 1}
              /\ disturbed' = (disturbed \/ running # {})
              /\ UNCHANGED memberKey

EndEpoch(k) == /\ memberKey' = k
               /\ running' = running \ {k}
               /\ UNCHANGED <<epochKey, setups, mine, disturbed>>

\* Mutant: the watchers are added without waiting for the set-up of the first epoch.
StartEpochBehind == /\ Running /\ pc = "startepoch"
                    /\ setups' = setups + 1
                    /\ epochKey' = setups + 1
                    /\ mine' = setups + 1
                    /\ pc' = "ledger"
                    /\ UNCHANGED <<exit, parts, memberKey, running, disturbed, req, errors>>

StartEpoch == /\ Running /\ pc = "startepoch"
              /\ BeginEpoch
              /\ mine' = setups + 1
              /\ pc' = "setup"
              /\ UNCHANGED <<exit, parts, req, errors>>

\* Mutant: the watchers are added before the ledger is opened.
BlsSetupFirst == /\ Running /\ pc = "setup"
                 /\ EndEpoch(mine)
                 /\ pc' = "watch"
                 /\ UNCHANGED <<exit, parts, req, errors>>

BlsSetup == /\ Running /\ pc = "setup"
            /\ EndEpoch(mine)
            /\ pc' = "ledger"
            /\ UNCHANGED <<exit, parts, req, errors>>

initLedger == /\ Running /\ pc = "ledger"
              /\ ledger' = "open"
              /\ pc' = "watch"
              /\ UNCHANGED <<exit, pubsub, watched, started, discovery, keys, req,
                             errors>>

\* The loop over the chains: the watcher is added, and then the id of the network is
\* compared; an id that cannot be read passes.
AddWatcher(c) == /\ Running /\ pc = "watch" /\ c \notin watched
                 /\ watched' = watched \cup {c}
                 /\ started' = started \cup {c}
                 /\ pc' = "chainid"
                 /\ UNCHANGED <<exit, ledger, pubsub, discovery, keys, req, errors>>

ChainID == /\ Running /\ pc = "chainid"
           /\ pc' = IF Chains \subseteq watched THEN "host.wait" ELSE "watch"
           /\ UNCHANGED <<exit, parts, keys, req, errors>>
-----------------------------------------------------------------------------
(* The ends of the process. *)

\* runa.Host: a signal cancels the context; Host waits for the goroutines in wg, closes the
\* host and exits.  The deferred calls of RunNode do not run.
Signal == /\ Running /\ pc = "host.wait"
          /\ pc' = "wg.Wait"
          /\ UNCHANGED <<exit, parts, keys, req, errors>>

\* Before Host asks for them, signals kill the process.
Killed == /\ Running /\ pc \notin {"host.wait", "wg.Wait"}
          /\ exit' = "killed"
          /\ UNCHANGED <<pc, parts, keys, req, errors>>

\* Mutant: the goroutine of the discovery does not look at the context.
DiscoveryEndsNever == FALSE /\ UNCHANGED vars

DiscoveryEnds == /\ Running /\ discovery = "ticking" /\ pc \in {"wg.Wait", "main"}
                 /\ discovery' = "ended"
                 /\ UNCHANGED <<pc, exit, ledger, pubsub, watched, started, keys,
                                req, errors>>

\* FindPeers has failed.
DiscoveryFails == /\ Running /\ discovery = "ticking" /\ errors < MaxErrors
                  /\ exit' = "fatal"
                  /\ errors' = errors + 1
                  /\ UNCHANGED <<pc, parts, keys, req>>

HostExits == /\ Running /\ pc = "wg.Wait" /\ discovery = "ended"
             /\ exit' = "exit"
             /\ UNCHANGED <<pc, parts, keys, req, errors>>

\* RunNode returns: Ledger.Close, P2PPubSub.Disconnect, clients.Close, cancel, in this order
\* and as far as they were deferred.
CloseLedger == /\ Running /\ pc = "closeledger"
               /\ ledger' = IF ledger = "open" THEN "closed" ELSE ledger
               /\ pc' = "disconnect"
               /\ UNCHANGED <<exit, pubsub, watched, started, discovery, keys, req,
                              errors>>

Disconnect == /\ Running /\ pc = "disconnect"
              /\ pubsub' = IF pubsub = "open" THEN "closed" ELSE pubsub
              /\ pc' = "closeclients"
              /\ UNCHANGED <<exit, ledger, watched, started, discovery, keys, req,
                             errors>>

CloseClients == /\ Running /\ pc = "closeclients"
                /\ \/ started = {} /\ pc' = "main" /\ UNCHANGED watched
                   \/ /\ started # {} /\ pc' = "client.wg.Wait"
                      /\ \E c \in started :
                           watched' = watched \ IF c = RegChain THEN {c, EpochWatch} ELSE {c}
                /\ UNCHANGED <<exit, ledger, pubsub, started, discovery, keys, req,
                               errors>>

MainExits == /\ Running /\ pc = "main"
             /\ exit' = "main"
             /\ UNCHANGED <<pc, parts, keys, req, errors>>
-----------------------------------------------------------------------------
(* The handlers. *)

\* HandleNewEpoch with noEpochKey calls StartEpoch.
HandleNewEpoch == /\ Running /\ EpochWatch \in watched
                  /\ Cardinality((1..setups) \ {mine}) < MaxEpochs
                  /\ BeginEpoch
                  /\ UNCHANGED <<pc, exit, parts, mine, req, errors>>

NewEpochDone(k) == /\ Running /\ k \in running \ {mine}
                   /\ EndEpoch(k)
                   /\ UNCHANGED <<pc, exit, parts, req, errors>>

\* It cannot join its topic or subscribe to it; the error is dropped.
NewEpochFails(k) == /\ Running /\ k \in running \ {mine} /\ errors < MaxErrors
                    /\ running' = running \ {k}
                    /\ disturbed' = TRUE
                    /\ errors' = errors + 1
                    /\ UNCHANGED <<pc, exit, parts, epochKey, memberKey, setups, mine, req>>

\* HandleOracleRequest opens a session with the keys the node has now.
HandleOracleRequest(e) ==
  /\ Running /\ req[e].at = "idle" /\ watched \cap Chains # {}
  /\ req' = [req EXCEPT ![e] = [at |-> "session", epoch |-> epochKey, member |-> memberKey,
                                overlap |-> running # {}, open |-> TRUE]]
  /\ UNCHANGED <<pc, exit, parts, keys, errors>>

\* Its session has agreed, and the leader creates the block, the others receive and save it.
UseLedger(e) ==
  /\ Running /\ req[e].at = "session"
  /\ req' = [req EXCEPT ![e].at = "ledger", ![e].open = ledger = "open"]
  /\ UNCHANGED <<pc, exit, parts, keys, errors>>

Start == \/ LoadSecp256k1Key \/ NewNodeWithClients \/ NewBridge \/ NewHostFromKeyFile
         \/ getNodeBlsId \/ InitDHT \/ DiscoverByRendezvous \/ NewGsnClient
         \/ NodeExists \/ NotRegistered \/ InitializeCommonPubSub \/ KeysFromFiles
         \/ AddEpochWatcher \/ StartEpoch \/ BlsSetup \/ initLedger
         \/ (\E c \in Chains : AddWatcher(c)) \/ ChainID
End == HostExits \/ DiscoveryEnds \/ CloseLedger \/ Disconnect \/ CloseClients \/ MainExits

Next == \/ Start \/ End \/ Fail \/ Signal \/ DiscoveryFails
        \/ Killed \/ HandleNewEpoch \/ (\E k \in running : NewEpochDone(k) \/ NewEpochFails(k))
        \/ \E e \in Requests : HandleOracleRequest(e) \/ UseLedger(e)

Spec == Init /\ [][Next]_vars

\* The goroutines of RunNode and of the discovery are scheduled.
FairSpec == Spec /\ WF_vars(Start) /\ WF_vars(End)
-----------------------------------------------------------------------------
\* The type invariant; a chain with a watcher has its subLoop started.
TypeOK ==
  /\ exit \in {"no", "exit", "main", "fatal", "killed"}
  /\ ledger \in {"none", "open", "closed"} /\ pubsub \in {"none", "open", "closed"}
  /\ setups \in 0..MaxEpochs + 1
  /\ epochKey \in 0..setups /\ memberKey \in 0..setups
  /\ mine \in 0..setups /\ running \subseteq 1..setups
  /\ watched \subseteq started \cup {EpochWatch} /\ started \subseteq Chains
  /\ discovery \in {"none", "ticking", "ended"}

(* A session holds an epoch key and a membership key of different set-ups only when a
   set-up was running as it was opened, or two set-ups have run at a time and the older one
   may have returned last, or one has failed after it set the epoch key: the first set-up is
   complete before RunNode adds the first watcher for requests. *)
KeysOfOneSetup ==
  \A e \in Requests : req[e].epoch # req[e].member => req[e].overlap \/ disturbed

(* A request is handled without an open ledger only after RunNode has given up on a later
   chain and begun to unwind: the ledger is opened before the first watcher. *)
LedgerThere ==
  \A e \in Requests :
    ~req[e].open => pc \in {"disconnect", "closeclients", "client.wg.Wait"}

(* A signal ends the process, whatever the handlers and the discovery are doing. *)
SignalEnds == pc = "wg.Wait" ~> exit # "no"
=============================================================================
