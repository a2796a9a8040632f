-------------------------- MODULE GatewayProcesses --------------------------
(***************************************************************************)
(* What clients and stop commands may rely on of the `tela serve'          *)
(* processes that share one gateway.lock: a process writes it once, when   *)
(* its endpoint is bound, withdraws it before it tears a failed startup    *)
(* down, and ends with a result only when the file is not its own any      *)
(* more.  A process that dies leaves the file as it is, and others may     *)
(* delete it.                                                              *)
(***************************************************************************)
CONSTANTS
  Gateways,   \* serve processes
  None        \* no process

VARIABLES
  phase,      \* where each process is
  lockfile    \* the process that gateway.lock names, or None

vars == <<phase, lockfile>>

Ended == {"exited", "gone"}

Init ==
  /\ phase \in [Gateways -> {"unborn", "starting"}]
  /\ lockfile = None

Goes(g, from, to) == phase[g] \in from /\ phase' = [phase EXCEPT ![g] = to]

Starts(g)    == Goes(g, {"unborn"}, "starting") /\ UNCHANGED lockfile
Publishes(g) == Goes(g, {"starting"}, "published") /\ lockfile' = g
Converges(g) == Goes(g, {"published"}, "serving") /\ UNCHANGED lockfile
Stops(g)     == Goes(g, {"serving"}, "stopping") /\ UNCHANGED lockfile

\* The file is left alone or deleted; it is not g's afterwards.
Disowned(g) == lockfile' \in {lockfile, None} /\ lockfile' # g

\* A startup that fails after the bind, and an orderly end.
Withdraws(g) == Goes(g, {"starting", "published"}, "failing") /\ Disowned(g)
Exits(g)     == Goes(g, {"starting", "failing", "stopping"}, "exited") /\ Disowned(g)

\* Killed, or ended by an exception that nothing catches.
Dies(g) == phase[g] \notin Ended \cup {"unborn"} /\ Goes(g, {phase[g]}, "gone") /\ UNCHANGED lockfile

\* Another process deletes a file that it takes for stale, or for its own.
Unlinked == lockfile' = None /\ UNCHANGED phase

Next ==
  \/ \E g \in Gateways :
       \/ Starts(g) \/ Publishes(g) \/ Converges(g) \/ Stops(g)
       \/ Withdraws(g) \/ Exits(g) \/ Dies(g)
  \/ Unlinked

Spec == Init /\ [][Next]_vars

-----------------------------------------------------------------------------

\* A process that is named has its endpoint bound, or died with it: nobody is led to a process
\* that is starting, rolling back or gone in good order (write_lockfile, delete_lockfile).
NamesBound == \A g \in Gateways :
  lockfile = g => phase[g] \in {"published", "serving", "stopping", "gone"}
=============================================================================
