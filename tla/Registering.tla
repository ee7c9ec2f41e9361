---------------------------- MODULE Registering -----------------------------
(* The commands an operator gives before a relayer runs, any of them again after a stop:
   NodeRegistration makes the keys and registers the node. *)
CONSTANTS MaxRuns, MaxStops, MaxCallErrors

VARIABLES files, drawn, command, ret, gsn, permit, funded, sent, own, permits, nodes, runs,
          stops, callErrors

Reg == INSTANCE NodeRegistration WITH
  pc <- command, mine <- own, errors <- callErrors, MaxErrors <- MaxCallErrors

registration == <<files, drawn, command, ret, gsn, permit, funded, sent, own, permits, nodes,
                  runs, stops, callErrors>>

\* RegisterNode returns without an error only when the registry has this node, whatever
\* failed on the way and however many earlier registrations were left half done
\* (init.go:61).
RegisteredIsRegistered == Reg!RegisteredIsRegistered

\* Init run again, after a stop anywhere or after a registration, never replaces a key: the
\* peer id and the owner a node was registered under stay the ones in its files (keys.go:113).
KeysKept == Reg!KeysKept
=============================================================================
