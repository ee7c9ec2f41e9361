----------------------------- MODULE Reporting ------------------------------
(* The two parts of the uptime reports: TimeStream tells the nodes when a round is due and on
   which topic, Uptime makes the report of a round.  UptimeSchedule, which would tie them
   together, is commented out (node.go:413), so they share no state. *)
CONSTANTS
  Nodes, None,
  ReportInterval, MaxPasses, MaxRounds, MaxServers, MaxFailures,
  StartTime, Interval, Minute, Delay, MaxTime

VARIABLES
  registry, server, waiting, leader, phase, todo, answers, reported, since, stale, rounds,
  servers, failures,
  now, stream, due, buffered, left, cancelled, events

Reports == INSTANCE Uptime WITH Interval <- ReportInterval
Streams == INSTANCE TimeStream WITH pc <- stream

\* The instances satisfy what Uptime and TimeStream take for granted.
ASSUME SettingsOK == Reports!Setting /\ Streams!Setting

reports == <<registry, server, waiting, leader, phase, todo, answers, reported, since, stale,
             rounds, servers, failures>>
streams == <<now, stream, due, buffered, left, cancelled, events>>
-----------------------------------------------------------------------------
\* A peer the leader reports was marked for the length of the round by more than half of the
\* nodes that know it, except for nodes that an earlier reset did not reach
\* (uptime/client.go:82).
ReportedWasUp == Reports!ReportedWasUp

\* Nodes have the same time topic in the same round, whenever they were started and however
\* late their timers fire (time.go:48).
SameTopic == Streams!SameTopic
=============================================================================
