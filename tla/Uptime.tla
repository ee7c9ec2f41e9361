------------------------------- MODULE Uptime -------------------------------
(* The uptime protocol, package libp2p/rpc/uptime: every pass of the discovery marks the peers
   the node is connected to; once a round a leader asks the others for what they have
   marked, reports the peers that more than half of the answers find up, and has
   everybody start anew.

   One observed peer stands for all.  A meter counts what was marked; the sweep that makes a
   mark visible in a snapshot is taken to have run.  The calls over the network are
   external: each may fail before or after the handler has run. *)
EXTENDS Integers, FiniteSets

CONSTANTS
  Nodes,       \* the participants of a round
  None,        \* no server yet
  Interval,    \* config.Bridge.UptimeReportInterval, in units of TickerInterval
  MaxPasses,   \* passes of the discovery per node between two resets
  MaxRounds, MaxServers, MaxFailures

\* What is taken for granted of them.
Setting == /\ None \notin Nodes /\ Interval \in Nat
           /\ MaxPasses \in Nat /\ MaxRounds \in Nat

VARIABLES
  registry,  \* uptimeRegistry: what each node has marked for the peer, 0 without a meter
  server,    \* the leader each node's rpc server answers to
  waiting,   \* is the node in WaitForReset?
  leader, phase,
  todo,      \* nodes the leader still has to call
  answers,   \* the durations the leader has got, with the marks they are made of
  reported,  \* is the peer in the list Uptime has returned?
  since,     \* marks since the leader last ended a round for this node
  stale,     \* nodes whose registry that last reset did not clear
  rounds, servers, failures

vars == <<registry, server, waiting, leader, phase, todo, answers, reported, since, stale,
          rounds, servers, failures>>
meters == <<registry, since, stale>>
round == <<leader, phase, todo, answers, reported, rounds>>

Init ==
  /\ registry = [n \in Nodes |-> 0] /\ since = [n \in Nodes |-> 0] /\ stale = {}
  /\ server = [n \in Nodes |-> None] /\ waiting = [n \in Nodes |-> FALSE]
  /\ leader = None /\ phase = "idle" /\ todo = {} /\ answers = {} /\ reported = FALSE
  /\ rounds = 0 /\ servers = 0 /\ failures = 0

\* A pass of DiscoverByRendezvous finds the peer connected.
Mark(n) == /\ since[n] < MaxPasses
           /\ registry' = [registry EXCEPT ![n] = @ + 1]
           /\ since' = [since EXCEPT ![n] = @ + 1]
           /\ UNCHANGED <<server, waiting, round, stale, servers, failures>>

NewLeader(l) == /\ phase = "idle" /\ rounds < MaxRounds /\ ~waiting[l]
                /\ leader' = l /\ phase' = "uptime" /\ todo' = Nodes \ {l}
                /\ rounds' = rounds + 1
                /\ UNCHANGED <<meters, server, waiting, answers, reported, servers, failures>>

\* A node takes l for the leader and waits for its reset.  The server stays registered
\* when the wait is over.
NewServer(n, l) == /\ ~waiting[n] /\ n # l /\ n # leader /\ servers < MaxServers
                   /\ server' = [server EXCEPT ![n] = l]
                   /\ waiting' = [waiting EXCEPT ![n] = TRUE]
                   /\ servers' = servers + 1
                   /\ UNCHANGED <<meters, round, failures>>

Deadline(n) == /\ waiting[n]
               /\ waiting' = [waiting EXCEPT ![n] = FALSE]
               /\ UNCHANGED <<meters, server, round, servers, failures>>
-----------------------------------------------------------------------------
(* Uptime. *)

\* What a node answers: nothing about a peer it has no meter for.
Answer(n) == IF registry[n] = 0 THEN {}
                 ELSE {[node |-> n, dur |-> registry[n], since |-> since[n],
                        stale |-> n \in stale]}

\* A call to n: UptimeHandler answers its own leader only.
CallUptime(n) == /\ phase = "uptime" /\ n \in todo
                 /\ todo' = todo \ {n}
                 /\ \/ /\ server[n] = leader
                       /\ answers' = answers \cup Answer(n) /\ UNCHANGED failures
                    \/ server[n] # leader /\ UNCHANGED <<answers, failures>>
                    \/ /\ failures < MaxFailures /\ failures' = failures + 1
                       /\ UNCHANGED answers
                 /\ UNCHANGED <<meters, server, waiting, leader, phase, reported, rounds, servers>>

InWindow(dur) == dur >= Interval - 1 /\ dur <= Interval + 1

\* The peer is on the list if more than half of the answers put it into the window.
Up(as) == Cardinality({a \in as : InWindow(a.dur)}) > Cardinality(as) \div 2

\* All calls have returned: the leader adds its own registry and makes the list.
Collect == /\ phase = "uptime" /\ todo = {}
           /\ answers' = answers \cup Answer(leader)
           /\ reported' = (answers' # {} /\ Up(answers'))
           /\ phase' = "reset" /\ todo' = Nodes \ {leader}
           /\ UNCHANGED <<meters, server, waiting, leader, rounds, servers, failures>>
-----------------------------------------------------------------------------
(* Reset. *)

Cleared(n) == /\ registry' = [registry EXCEPT ![n] = 0]
              /\ stale' = stale \ {n}

\* A call to n: ResetHandler clears for its own leader and answers in any case.  A call that
\* fails may have been handled.
CallReset(n) == /\ phase = "reset" /\ n \in todo
                /\ todo' = todo \ {n}
                /\ since' = [since EXCEPT ![n] = 0]
                /\ \/ /\ server[n] = leader
                      /\ Cleared(n)
                      /\ waiting' = [waiting EXCEPT ![n] = FALSE]
                      /\ UNCHANGED failures
                   \/ /\ server[n] # leader
                      /\ stale' = stale \cup {n} /\ UNCHANGED <<registry, waiting, failures>>
                   \/ /\ failures < MaxFailures /\ failures' = failures + 1
                      /\ stale' = stale \cup {n} /\ UNCHANGED <<registry, waiting>>
                /\ UNCHANGED <<server, leader, phase, answers, reported, rounds, servers>>

\* Mutant: the leader forgets its own registry.
ClearOthers == /\ phase = "reset" /\ todo = {}
               /\ since' = [since EXCEPT ![leader] = 0]
               /\ leader' = None /\ phase' = "idle" /\ answers' = {} /\ reported' = FALSE
               /\ UNCHANGED <<registry, stale, server, waiting, todo, rounds, servers, failures>>

Clear == /\ phase = "reset" /\ todo = {}
         /\ Cleared(leader)
         /\ since' = [since EXCEPT ![leader] = 0]
         /\ leader' = None /\ phase' = "idle" /\ answers' = {} /\ reported' = FALSE
         /\ UNCHANGED <<server, waiting, todo, rounds, servers, failures>>

Next == \/ \E n \in Nodes : \/ Mark(n) \/ NewLeader(n) \/ Deadline(n)
                            \/ CallUptime(n) \/ CallReset(n)
                            \/ \E l \in Nodes : NewServer(n, l)
        \/ Collect \/ Clear

Spec == Init /\ [][Next]_vars
-----------------------------------------------------------------------------
\* The type invariant; a leader never asks itself.
TypeOK ==
  /\ registry \in [Nodes -> 0..(MaxRounds + 1) * MaxPasses]
  /\ since \in [Nodes -> 0..MaxPasses] /\ stale \subseteq Nodes
  /\ server \in [Nodes -> Nodes \cup {None}] /\ waiting \in [Nodes -> BOOLEAN]
  /\ leader \in Nodes \cup {None} /\ todo \subseteq Nodes \ {leader}
  /\ reported \in BOOLEAN

(* A peer the leader reports was marked for the length of the round by more than half of the
   nodes that know it, except for nodes that an earlier reset did not reach: what those
   answer is the sum of several rounds. *)
ReportedWasUp ==
  reported =>
    LET nodes == {a.node : a \in answers}
        witnesses == {a.node : a \in {b \in answers : b.stale \/ InWindow(b.since)}}
    IN 2 * Cardinality(witnesses) > Cardinality(nodes)
=============================================================================
