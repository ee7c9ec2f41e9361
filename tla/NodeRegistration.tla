-------------------------- MODULE NodeRegistration --------------------------
(* The keys of a relayer and its entry in the node registry: the commands "bridge -init"
   (InitNode) and "bridge -register" (RegisterNode) of node/bridge/init.go, run any number
   of times by the operator, each of which may stop half way.

   A key is the number of the draw that made it.  The peer id, and with it the address a
   node is registered under, is the ecdsa key; the owner is the secp256k1 key.  The
   registry contract, the token with its permits and the network are external: a
   transaction of createRelayer succeeds when the node is new, the permit's nonce is the
   owner's next one and the permit is over the collateral. *)
EXTENDS Integers, Sequences, FiniteSets

CONSTANTS
  MaxRuns,     \* commands the operator starts
  MaxStops,    \* commands that are stopped half way
  MaxErrors    \* calls of the network that fail

Files == {"ecdsa", "bls", "secp256k1"}
Following == [ecdsa |-> "bls", bls |-> "secp256k1"]   \* the order InitNode makes them in
Absent == 0
Partial == -1

VARIABLES
  files,    \* what the key files hold: Absent, Partial, or a key
  drawn,    \* keys drawn so far
  pc,       \* where the running command stands
  ret,      \* how the last registration ended, and of which node
  gsn,      \* does the running command use the gsn (no -no-gsn, and a forwarder)?
  permit,   \* nonce and value of the permit the registration has signed
  funded,   \* has the operator transferred the collateral to the owner?
  sent,     \* transactions of createRelayer on their way or mined, in the order sent
  mine,     \* the position in sent of this registration's transaction
  permits,  \* permits of each owner the token has consumed
  nodes,    \* the nodes of the registry: pairs of peer id and owner
  runs, stops, errors

vars == <<files, drawn, pc, ret, gsn, permit, funded, sent, mine, permits, nodes,
          runs, stops, errors>>
keyvars == <<files, drawn>>
chainvars == <<sent, permits, nodes, funded>>
bounds == <<runs, stops, errors>>

Id == files["ecdsa"]
Owner == files["secp256k1"]
NoPermit == [nonce |-> 0, value |-> FALSE]
None == [end |-> "none", id |-> 0]
NextPermit(o) == IF o \in DOMAIN permits THEN permits[o] ELSE 0

Init ==
  /\ files = [f \in Files |-> Absent] /\ drawn = 0
  /\ pc = "shell" /\ ret = None /\ gsn = FALSE /\ permit = NoPermit /\ mine = 0
  /\ funded = FALSE
  /\ sent = << >> /\ permits = << >> /\ nodes = {}
  /\ runs = 0 /\ stops = 0 /\ errors = 0

Goto(p) == pc' = p
Return(how) == pc' = "shell" /\ ret' = [end |-> how, id |-> Id]

\* The operator starts a command.
Command(c) == /\ pc = "shell" /\ runs < MaxRuns
              /\ Goto(c)
              /\ gsn' \in BOOLEAN
              /\ ret' = None /\ permit' = NoPermit /\ mine' = 0
              /\ runs' = runs + 1
              /\ UNCHANGED <<keyvars, chainvars, stops, errors>>
-----------------------------------------------------------------------------
(* InitNode: GenAndSaveECDSAKey, GenAndSaveBlsKey, GetOrGenAndSaveSecp256k1Key. *)

\* Mutant: the key is drawn whether or not there is a file.
GenAndSaveAlways(f) ==
  /\ pc = f
  /\ drawn' = drawn + 1
  /\ files' = [files EXCEPT ![f] = drawn + 1]
  /\ pc' = IF f = "secp256k1" THEN "shell" ELSE Following[f]
  /\ UNCHANGED <<ret, gsn, permit, mine, chainvars, bounds>>

\* A key is drawn and written when there is no file; a file there is reused.  One that
\* cannot be read ends the command.
GenAndSave(f) ==
  /\ pc = f
  /\ IF files[f] = Absent
       THEN drawn' = drawn + 1 /\ files' = [files EXCEPT ![f] = drawn + 1]
       ELSE UNCHANGED keyvars
  /\ pc' = IF f = "secp256k1" \/ files[f] = Partial THEN "shell"
           ELSE Following[f]
  /\ UNCHANGED <<ret, gsn, permit, mine, chainvars, bounds>>

\* The process is stopped; a key file being written stays behind, cut short.
Stop == /\ pc # "shell" /\ stops < MaxStops
        /\ \/ UNCHANGED files
           \/ pc \in Files /\ files[pc] = Absent /\ files' = [files EXCEPT ![pc] = Partial]
        /\ Goto("shell")
        /\ ret' = None
        /\ stops' = stops + 1
        /\ UNCHANGED <<drawn, gsn, permit, mine, chainvars, runs, errors>>
-----------------------------------------------------------------------------
(* RegisterNode. *)

\* The three key files are read, the clients, the registry and the host are made, and
\* with the gsn the DHT and the gsn client.
Prepare == /\ pc = "register" /\ \A f \in Files : files[f] > 0
           /\ Goto("exists")
           /\ UNCHANGED <<keyvars, ret, gsn, permit, mine, chainvars, bounds>>

\* A file is missing or cut short, a client or the DHT cannot be made, or
\* WaitForDiscoveryGsn has timed out.
PrepareFails == /\ pc = "register"
                /\ \/ \E f \in Files : files[f] <= 0
                   \/ errors < MaxErrors
                /\ errors' = IF \A f \in Files : files[f] > 0 THEN errors + 1 ELSE errors
                /\ Return("error")
                /\ UNCHANGED <<keyvars, gsn, permit, mine, chainvars, runs, stops>>

\* NodeExists: a known node returns at once.  A call that fails is taken for a no.
NodeExists == /\ pc = "exists"
              /\ \/ /\ \E o \in 1..drawn : <<Id, o>> \in nodes
                    /\ Return("exists") /\ UNCHANGED errors
                 \/ /\ \A o \in 1..drawn : <<Id, o>> \notin nodes
                    /\ Goto("nonce") /\ UNCHANGED <<ret, errors>>
                 \/ /\ errors < MaxErrors /\ errors' = errors + 1
                    /\ Goto("nonce") /\ UNCHANGED ret
              /\ UNCHANGED <<keyvars, gsn, permit, mine, chainvars, runs, stops>>

\* SignErc20Permit: the permit is good for the nonce and the value it was signed over.
SignErc20Permit(value, nonce) == [nonce |-> nonce, value |-> value]

\* The owner's permit nonce and balance are read and the permit is signed; the errors of
\* the two calls are dropped, and signing over what a failed call returned ends the process.
SignPermit ==
  /\ pc = "nonce"
  /\ \/ /\ permit' = SignErc20Permit(funded, NextPermit(Owner))
        /\ Goto("send") /\ UNCHANGED <<ret, errors>>
     \/ /\ errors < MaxErrors /\ errors' = errors + 1
        /\ Return("error") /\ UNCHANGED permit
  /\ UNCHANGED <<keyvars, gsn, mine, chainvars, runs, stops>>

Tx == [id |-> Id, owner |-> Owner, permit |-> permit, status |-> "pending"]

\* NodeRegistryCreateNode over the gsn.
CreateNode == /\ pc = "send" /\ gsn
              /\ sent' = Append(sent, Tx)
              /\ mine' = Len(sent) + 1
              /\ Goto("wait")
              /\ UNCHANGED <<keyvars, ret, gsn, permit, permits, nodes, funded, bounds>>

\* It returns an error, before the gsn node has sent the transaction or after.
CreateNodeFails == /\ pc = "send" /\ gsn /\ errors < MaxErrors
                   /\ sent' \in {sent, Append(sent, Tx)}
                   /\ errors' = errors + 1
                   /\ Return("error")
                   /\ UNCHANGED <<keyvars, gsn, permit, mine, permits, nodes, funded, runs, stops>>

\* CreateRelayer without the gsn: NodeRegistrySession asks the registry's client for the
\* transaction options, and NewRegistry has not set that client.
CreateRelayer == /\ pc = "send" /\ ~gsn
                 /\ Return("panic")
                 /\ UNCHANGED <<keyvars, gsn, permit, mine, chainvars, bounds>>

\* The operator transfers the collateral to the address InitNode printed (external).
Transfer == /\ Owner > 0 /\ ~funded /\ funded' = TRUE
            /\ UNCHANGED <<keyvars, pc, ret, gsn, permit, mine, sent, permits, nodes, bounds>>

\* The chain mines a transaction (external).
Mine(k) == /\ sent[k].status = "pending"
           /\ LET tx == sent[k]
                  ok == /\ \A o \in 1..drawn : <<tx.id, o>> \notin nodes
                        /\ tx.permit.nonce = NextPermit(tx.owner) /\ tx.permit.value
              IN /\ sent' = [sent EXCEPT ![k].status = IF ok THEN "success" ELSE "reverted"]
                 /\ nodes' = IF ok THEN nodes \cup {<<tx.id, tx.owner>>} ELSE nodes
                 /\ permits' = IF ok THEN [o \in DOMAIN permits \cup {tx.owner} |->
                                             IF o = tx.owner THEN NextPermit(o) + 1 ELSE permits[o]]
                               ELSE permits
           /\ UNCHANGED <<keyvars, pc, ret, gsn, permit, mine, funded, bounds>>

\* Mutant: a receipt is a receipt, whatever its status.
WaitTransactionAny ==
  /\ pc = "wait" /\ sent[mine].status # "pending"
  /\ Return("registered")
  /\ UNCHANGED <<keyvars, gsn, permit, mine, chainvars, bounds>>

\* WaitTransaction answers with the receipt of a successful transaction only, or times out;
\* RegisterNode may still fail to read the event CreatedRelayer.
WaitTransaction ==
  /\ pc = "wait"
  /\ \/ sent[mine].status = "success" /\ Return("registered") /\ UNCHANGED errors
     \/ sent[mine].status = "reverted" /\ Return("error") /\ UNCHANGED errors
     \/ errors < MaxErrors /\ errors' = errors + 1 /\ Return("error")
  /\ UNCHANGED <<keyvars, gsn, permit, mine, chainvars, runs, stops>>

Next == \/ \E c \in {"ecdsa", "register"} : Command(c)
        \/ \E f \in Files : GenAndSave(f)
        \/ Stop \/ Prepare \/ PrepareFails \/ NodeExists \/ SignPermit
        \/ CreateNode \/ CreateNodeFails \/ CreateRelayer \/ WaitTransaction
        \/ Transfer \/ \E k \in DOMAIN sent : Mine(k)

Spec == Init /\ [][Next]_vars
-----------------------------------------------------------------------------
(* The type invariant; no more than the three keys are ever drawn. *)
TypeOK ==
  /\ files \in [Files -> Partial..drawn] /\ drawn \in 0..3
  /\ pc \in Files \cup {"shell", "register", "exists", "nonce", "send", "wait"}
  /\ ret.end \in {"none", "error", "exists", "registered", "panic"}
  /\ mine \in 0..Len(sent) /\ permit.nonce \in 0..MaxRuns /\ permit.value \in BOOLEAN
  /\ nodes \subseteq (1..drawn) \X (1..drawn)

(* Init run again, after a stop anywhere or after a registration, never replaces a key: the
   peer id and the owner a node was registered under stay the ones in its files. *)
KeysKept == [][\A f \in Files : files[f] > 0 => files'[f] = files[f]]_vars

(* RegisterNode returns without an error only when the registry has this node, whatever
   failed on the way and however many earlier registrations were left half done. *)
RegisteredIsRegistered ==
  ret.end \in {"registered", "exists"} => <<ret.id, Owner>> \in nodes
=============================================================================
