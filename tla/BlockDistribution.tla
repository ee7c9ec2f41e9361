-------------------------- MODULE BlockDistribution -------------------------
(* Blocks after the agreement: the leader of a request appends a block to its ledger and
   broadcasts it on the main topic (DistributeBlock); every other node of the session enters
   ReceiveAndSaveBlock, whose loop takes blocks of any session from the node's one
   subscription and saves each in a goroutine of its own.

   The ledger is external: a block stands for the chain it ends, and a ledger saves it
   when it extends what it holds.  So is gossipsub: a message reaches the subscriptions of
   all nodes, its sender's too, in any order, and is dropped by a full one. *)
EXTENDS Integers, Sequences, FiniteSets

CONSTANTS
  Nodes, Events,
  Capacity,     \* length of a subscription's channel
  MaxFailures   \* errors of CreateBlockFromEvent

ASSUME SizesAreFinite == IsFiniteSet(Events) /\ Capacity \in Nat

VARIABLES
  leader,    \* the leader of each event's session
  done,      \* for each event the nodes that have acted on the agreement
  ledger,    \* the events in the blocks of each node's ledger
  created,   \* blocks created, with their creator
  publish,   \* messages that gossipsub still has to bring to a node
  queue,     \* the subscription of each node to the main topic
  loops,     \* loops of ReceiveAndSaveBlock in each node
  saving,    \* blocks the goroutines of each node are about to save
  down,      \* nodes whose process has panicked
  failures

vars == <<leader, done, ledger, created, publish, queue, loops, saving, down, failures>>

Init ==
  /\ leader \in [Events -> Nodes] /\ done = [e \in Events |-> {}]
  /\ ledger = [n \in Nodes |-> << >>] /\ created = {} /\ publish = {}
  /\ queue = [n \in Nodes |-> << >>] /\ loops = [n \in Nodes |-> 0]
  /\ saving = [n \in Nodes |-> {}] /\ down = {} /\ failures = 0

\* The session of e has agreed on n, which goes on to its part.
Agreed(n, e) == /\ n \notin down /\ n \notin done[e]
                /\ done' = [done EXCEPT ![e] = @ \cup {n}]

\* Mutant: the block is distributed and not kept.
LeadForgets(n, e) ==
  /\ Agreed(n, e) /\ leader[e] = n
  /\ LET block == Append(ledger[n], e)
     IN /\ created' = created \cup {[by |-> n, block |-> block]}
        /\ publish' = publish \cup {[to |-> m, block |-> block] : m \in Nodes}
  /\ UNCHANGED <<leader, ledger, queue, loops, saving, down, failures>>

\* CreateBlockFromEvent and DistributeBlock.
Lead(n, e) ==
  /\ Agreed(n, e) /\ leader[e] = n
  /\ LET block == Append(ledger[n], e)
     IN /\ ledger' = [ledger EXCEPT ![n] = block]
        /\ created' = created \cup {[by |-> n, block |-> block]}
        /\ publish' = publish \cup {[to |-> m, block |-> block] : m \in Nodes}
  /\ UNCHANGED <<leader, queue, loops, saving, down, failures>>

\* Its error is logged, and the nil block ends the process in DistributeBlock.
LeadPanics(n, e) ==
  /\ Agreed(n, e) /\ leader[e] = n /\ failures < MaxFailures
  /\ down' = down \cup {n} /\ failures' = failures + 1
  /\ queue' = [queue EXCEPT ![n] = << >>] /\ saving' = [saving EXCEPT ![n] = {}]
  /\ loops' = [loops EXCEPT ![n] = 0]
  /\ UNCHANGED <<leader, ledger, created, publish>>

\* The other nodes of the session.  break leaves the select only: the loop never ends.
ReceiveAndSaveBlock(n, e) ==
  /\ Agreed(n, e) /\ leader[e] # n
  /\ loops' = [loops EXCEPT ![n] = @ + 1]
  /\ UNCHANGED <<leader, ledger, created, publish, queue, saving, down, failures>>

Deliver(m) ==
  /\ m \in publish
  /\ publish' = publish \ {m}
  /\ queue' = [queue EXCEPT ![m.to] = IF m.to \in down \/ Len(@) = Capacity THEN @
                                      ELSE Append(@, m.block)]
  /\ UNCHANGED <<leader, done, ledger, created, loops, saving, down, failures>>

\* Mutant: the loop ends with its first block, as the follower's session does.
ReceiveOne(n) ==
  /\ loops[n] > 0 /\ queue[n] # << >>
  /\ saving' = [saving EXCEPT ![n] = @ \cup {Head(queue[n])}]
  /\ queue' = [queue EXCEPT ![n] = Tail(@)]
  /\ loops' = [loops EXCEPT ![n] = @ - 1]
  /\ UNCHANGED <<leader, done, ledger, created, publish, down, failures>>

\* One of the loops receives a message and starts a goroutine for it.
Receive(n) ==
  /\ loops[n] > 0 /\ queue[n] # << >>
  /\ saving' = [saving EXCEPT ![n] = @ \cup {Head(queue[n])}]
  /\ queue' = [queue EXCEPT ![n] = Tail(@)]
  /\ UNCHANGED <<leader, done, ledger, created, publish, loops, down, failures>>

\* The goroutine saves its block; an error is logged and the block dropped.
ExecAndSaveBlock(n, b) ==
  /\ b \in saving[n]
  /\ saving' = [saving EXCEPT ![n] = @ \ {b}]
  /\ ledger' = [ledger EXCEPT ![n] = IF \E e \in Events : b = Append(@, e) THEN b ELSE @]
  /\ UNCHANGED <<leader, done, created, publish, queue, loops, down, failures>>

Next == \/ \E n \in Nodes, e \in Events : Lead(n, e) \/ LeadPanics(n, e) \/ ReceiveAndSaveBlock(n, e)
        \/ \E m \in publish : Deliver(m)
        \/ \E n \in Nodes : Receive(n) \/ \E b \in saving[n] : ExecAndSaveBlock(n, b)

Spec == Init /\ [][Next]_vars

\* The loops are scheduled.
FairSpec == Spec /\ \A n \in Nodes : WF_vars(Receive(n))
-----------------------------------------------------------------------------
\* The type invariant; a block is in the queue of a node once.
TypeOK ==
  /\ done \in [Events -> SUBSET Nodes] /\ down \subseteq Nodes
  /\ \A n \in Nodes : /\ Len(queue[n]) <= Capacity /\ loops[n] \in 0..Cardinality(Events)
                      /\ \A b \in saving[n] : b # << >>
                      /\ \A k, l \in DOMAIN queue[n] : queue[n][k] = queue[n][l] => k = l

Agree(s, t) == \A k \in DOMAIN s \cap DOMAIN t : s[k] = t[k]

(* Two ledgers hold different blocks at a height only if two leaders have each created a
   block there: no order in which loops and goroutines take and save blocks makes a node
   save one in a wrong place, or one leader put two at a height. *)
ForkNeedsTwoLeaders ==
  \A n, m \in Nodes : ~Agree(ledger[n], ledger[m]) =>
    \E c, d \in created : /\ c.by # d.by /\ c.block # d.block
                          /\ Len(c.block) = Len(d.block)

(* A block in the subscription of a node that has once followed a session is taken from it,
   whichever sessions the node follows later. *)
BlocksTaken == \A n \in Nodes : loops[n] > 0 /\ queue[n] # << >> ~> queue[n] = << >>
=============================================================================
