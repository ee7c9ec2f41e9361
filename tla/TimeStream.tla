----------------------------- MODULE TimeStream -----------------------------
(* TimeStream and TimeToTopicName of libp2p/schedule/time.go: nodes started at different
   times get events at the same times and derive the same topic name from them.

   Time is counted in ticks; Minute of them share a topic name.  A timer fires late by
   less than Delay (the first event passes its lateness on to the ticker), and a consumer
   that has not left reads an event before the next one. *)
EXTENDS Integers

CONSTANTS Nodes, StartTime, Interval, Minute, Delay, MaxTime

\* Interval and StartTime are multiples of Minute, the start time is reached, and twice the
\* lateness of a timer is less than a minute.
Setting == /\ Minute \in Nat \ {0} /\ Delay \in Nat \ {0} /\ MaxTime \in Nat
           /\ Interval \in Nat \ {0} /\ Interval % Minute = 0
           /\ StartTime \in 0..MaxTime /\ StartTime % Minute = 0
           /\ 2 * (Delay - 1) < Minute

VARIABLES
  now,
  pc,         \* where each node's stream stands
  due,        \* when its timer or ticker fires next
  buffered,   \* events in its channel
  left,       \* nodes that have stopped reading
  cancelled,
  events      \* round and topic of the events sent so far

vars == <<now, pc, due, buffered, left, cancelled, events>>

Init == /\ now = 0 /\ cancelled = FALSE /\ left = {} /\ events = {}
        /\ pc = [n \in Nodes |-> "new"] /\ due = [n \in Nodes |-> 0]
        /\ buffered = [n \in Nodes |-> 0]

\* The first event: a start time that has passed is moved by whole intervals.  Go divides
\* toward zero, which for total < 0 is minus the quotient of -total.
FirstAfter(t) == LET total == (StartTime - t) - Interval
                 IN IF StartTime - t < 0 THEN StartTime + ((-total) \div Interval) * Interval
                    ELSE StartTime

Start(n) == /\ pc[n] = "new"
            /\ pc' = [pc EXCEPT ![n] = "timer"]
            /\ due' = [due EXCEPT ![n] = FirstAfter(now)]
            /\ UNCHANGED <<now, buffered, left, cancelled, events>>

TimeToTopicName(t) == t \div Minute

Sent(n) == events' = events \cup {[round |-> (now - StartTime) \div Interval,
                                   topic |-> TimeToTopicName(now)]}

\* Mutant: the ticker is made anew after every event.
FireDrifting(n) == /\ pc[n] \in {"timer", "ticker"} /\ now >= due[n] /\ n \notin left
                   /\ Sent(n)
                   /\ pc' = [pc EXCEPT ![n] = "ticker"]
                   /\ due' = [due EXCEPT ![n] = now + Interval]
                   /\ UNCHANGED <<now, buffered, left, cancelled>>

\* The timer or the ticker fires and its time is sent; without a reader one event fits the
\* channel, and at the next the goroutine stays.  The ticker runs from the first event.
Fire(n) == /\ pc[n] \in {"timer", "ticker"} /\ now >= due[n]
           /\ IF n \in left /\ buffered[n] = 1
                THEN /\ pc' = [pc EXCEPT ![n] = "blocked"]
                     /\ UNCHANGED <<due, buffered, events>>
                ELSE /\ Sent(n)
                     /\ pc' = [pc EXCEPT ![n] = "ticker"]
                     /\ due' = [due EXCEPT ![n] = (IF pc[n] = "timer" THEN now ELSE @) + Interval]
                     /\ buffered' = [buffered EXCEPT ![n] = IF n \in left THEN 1 ELSE 0]
           /\ UNCHANGED <<now, left, cancelled>>

\* Only the loop looks at the context, not the wait for the first event.
Close(n) == /\ pc[n] = "ticker" /\ cancelled
            /\ pc' = [pc EXCEPT ![n] = "closed"]
            /\ UNCHANGED <<now, due, buffered, left, cancelled, events>>

Leave(n) == /\ pc[n] = "ticker" /\ n \notin left
            /\ left' = left \cup {n}
            /\ UNCHANGED <<now, pc, due, buffered, cancelled, events>>

Cancel == ~cancelled /\ cancelled' = TRUE /\ UNCHANGED <<now, pc, due, buffered, left, events>>

Tick == /\ now < MaxTime
        /\ \A n \in Nodes : pc[n] \in {"timer", "ticker"} => now + 1 < due[n] + Delay
        /\ now' = now + 1
        /\ UNCHANGED <<pc, due, buffered, left, cancelled, events>>

Next == Tick \/ Cancel \/ \E n \in Nodes : Start(n) \/ Fire(n) \/ Close(n) \/ Leave(n)

Spec == Init /\ [][Next]_vars
-----------------------------------------------------------------------------
\* The type invariant of the clocks, the channels and the start times.
TypeOK == /\ now \in 0..MaxTime /\ due \in [Nodes -> 0..MaxTime + 2 * Interval]
          /\ buffered \in [Nodes -> 0..1] /\ left \subseteq Nodes

(* Nodes have the same time topic in the same round, whenever they were started and however
   late their timers fire. *)
SameTopic == \A e, f \in events : e.round = f.round => e.topic = f.topic
=============================================================================
