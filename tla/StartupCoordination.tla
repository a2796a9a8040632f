------------------------ MODULE StartupCoordination ------------------------
(***************************************************************************)
(* How `tela connect' processes find or start the shared gateway: the      *)
(* discovery lockfile ~/.tela/gateway.lock, the startup lock (an flock per *)
(* config), discover_or_autostart, and the lifecycle of the `tela serve'   *)
(* processes and of `tela stop', all of which may crash.                   *)
(*                                                                         *)
(* Processes share nothing but the file system, so a step is one access to *)
(* it: a read of the lockfile together with the liveness check of its pid, *)
(* a replace, an unlink, an flock.  delete_lockfile_if_stale reads and     *)
(* checks in one step and unlinks in another.                              *)
(*                                                                         *)
(* Abstractions: pids are not reused; a lockfile is the gateway that wrote *)
(* it; a config path is a member of Configs; the polls of one wait are     *)
(* reads at arbitrary moments until it times out.                          *)
(***************************************************************************)
EXTENDS Naturals, FiniteSets

CONSTANTS
  Clients,    \* `tela connect' processes
  Stoppers,   \* `tela stop' processes
  Gateways,   \* `tela serve' processes (pids)
  ByHand,     \* the ones a user starts, not a client
  Configs,    \* resolved config paths
  None,       \* nothing
  Retries     \* START_RACE_RETRIES, and the bound on the attempts of a discovery

ASSUME StartupAssumptions ==
  /\ None \notin Clients \cup Gateways \cup Configs
  /\ Retries \in Nat \ {0}
  /\ Clients \cap Stoppers = {} /\ ByHand \subseteq Gateways

VARIABLES
  lockfile,   \* the gateway named by gateway.lock, or None
  flock,      \* the client that holds the startup lock of a config
  gw,         \* where each gateway process is
  gwConfig,   \* the config a gateway was started with
  pc,         \* where each connect or stop process is
  want,       \* the config a client asks for
  attempts,   \* attempts of the current coordinator run
  chances,    \* coordinator runs the client has left
  spawned,    \* the gateway a leader started and waits for
  found       \* the gateway a client attached to, or a stop is for

vars == <<lockfile, flock, gw, gwConfig, pc, want, attempts, chances, spawned, found>>
clientVars == <<want, attempts, chances, spawned, found>>

Procs == Clients \cup Stoppers

TypeOK ==
  /\ lockfile \in Gateways \cup {None}
  /\ flock \in [Configs -> Clients \cup {None}]
  /\ gw \in [Gateways -> {"unborn", "starting", "published", "serving", "stopping", "failing",
                       "exited", "gone"}]
  /\ gwConfig \in [Gateways -> Configs \cup {None}]
  /\ pc \in [Procs -> {"off", "look", "try", "race", "raceUnlink", "spawn", "lead", "leadUnlink",
                       "follow", "followUnlink", "done", "failed", "signal", "await", "clean"}]
  /\ want \in [Clients -> Configs]
  /\ attempts \in [Clients -> 0..(Retries - 1)]
  /\ chances \in [Clients -> 0..1]
  /\ spawned \in [Clients -> Gateways \cup {None}]
  /\ found \in [Procs -> Gateways \cup {None}]

Init ==
  /\ lockfile = None
  /\ flock = [k \in Configs |-> None]
  /\ gw = [g \in Gateways |-> "unborn"]
  /\ gwConfig = [g \in Gateways |-> None]
  /\ pc = [p \in Procs |-> "off"]
  /\ want \in [Clients -> Configs]
  /\ attempts = [c \in Clients |-> 0]
  /\ chances = [c \in Clients |-> 1]
  /\ spawned = [c \in Clients |-> None]
  /\ found = [p \in Procs |-> None]

-----------------------------------------------------------------------------
(* The lockfile *)

Alive(g) == gw[g] \notin {"unborn", "exited", "gone"}
\* read_lockfile: no file, a stale file, or a live gateway.
Stale == lockfile # None /\ ~Alive(lockfile)
Live  == lockfile # None /\ Alive(lockfile)
\* _lockfile_owned_by_config.
Owned(c) == Live /\ gwConfig[lockfile] = want[c]

Goto(p, to) == pc' = [pc EXCEPT ![p] = to]

-----------------------------------------------------------------------------
(* discover_or_autostart *)

\* The startup lock is released when the attempt ends, whatever its outcome.
Releases(c) == flock' = [k \in Configs |-> IF flock[k] = c THEN None ELSE flock[k]]

Finds(c) == Goto(c, "done") /\ found' = [found EXCEPT ![c] = lockfile]

\* Mutant: one attempt too many.
AttemptFailsLate(c) ==
  /\ IF attempts[c] < Retries
       THEN Goto(c, "try") /\ attempts' = [attempts EXCEPT ![c] = @ + 1] /\ UNCHANGED chances
       ELSE /\ attempts' = [attempts EXCEPT ![c] = 0]
            /\ chances' = [chances EXCEPT ![c] = 0]
            /\ Goto(c, IF chances[c] = 1 THEN "look" ELSE "failed")
  /\ spawned' = [spawned EXCEPT ![c] = None]
  /\ UNCHANGED <<want, found>>

\* Mutant: the second chance is given again and again.
AttemptFailsForever(c) ==
  /\ IF attempts[c] + 1 < Retries
       THEN Goto(c, "try") /\ attempts' = [attempts EXCEPT ![c] = @ + 1] /\ UNCHANGED chances
       ELSE attempts' = [attempts EXCEPT ![c] = 0] /\ Goto(c, "look") /\ UNCHANGED chances
  /\ spawned' = [spawned EXCEPT ![c] = None]
  /\ UNCHANGED <<want, found>>

\* One attempt fails; after the last the coordinator reports DISCOVERY_FAILED and
\* _discover_or_autostart gives it one more run.
AttemptFails(c) ==
  /\ IF attempts[c] + 1 < Retries
       THEN Goto(c, "try") /\ attempts' = [attempts EXCEPT ![c] = @ + 1] /\ UNCHANGED chances
       ELSE /\ attempts' = [attempts EXCEPT ![c] = 0]
            /\ chances' = [chances EXCEPT ![c] = 0]
            /\ Goto(c, IF chances[c] = 1 THEN "look" ELSE "failed")
  /\ spawned' = [spawned EXCEPT ![c] = None]
  /\ UNCHANGED <<want, found>>

Start(c) ==
  /\ pc[c] = "off" /\ Goto(c, "look")
  /\ UNCHANGED <<lockfile, flock, gw, gwConfig, clientVars>>

\* The immediate read: a live gateway of the same config, or on to the attempts.
Look(c) ==
  /\ pc[c] = "look"
  /\ IF Owned(c) THEN Finds(c) ELSE Goto(c, "try") /\ UNCHANGED found
  /\ UNCHANGED <<lockfile, flock, gw, gwConfig, want, attempts, chances, spawned>>

\* Mutant: every client that tries becomes a leader.
TryLockIgnored(c) ==
  /\ pc[c] = "try"
  /\ flock' = [flock EXCEPT ![want[c]] = c] /\ Goto(c, "race")
  /\ UNCHANGED <<lockfile, gw, gwConfig, clientVars>>

\* A non-blocking flock elects the leader; the others follow.
TryLock(c) ==
  /\ pc[c] = "try"
  /\ IF flock[want[c]] = None
       THEN flock' = [flock EXCEPT ![want[c]] = c] /\ Goto(c, "race")
       ELSE Goto(c, "follow") /\ UNCHANGED flock
  /\ UNCHANGED <<lockfile, gw, gwConfig, clientVars>>

\* A waiting process meets a stale lockfile: read and check, then unlink.
MeetsStale(c) ==
  /\ Stale
  /\ \/ pc[c] = "race" /\ Goto(c, "raceUnlink")
     \/ pc[c] = "lead" /\ Goto(c, "leadUnlink")
     \/ pc[c] = "follow" /\ Goto(c, "followUnlink")
  /\ UNCHANGED <<lockfile, flock, gw, gwConfig, clientVars>>

Unlink(c) ==
  /\ \/ pc[c] = "raceUnlink" /\ Goto(c, "race")
     \/ pc[c] = "leadUnlink" /\ Goto(c, "lead")
     \/ pc[c] = "followUnlink" /\ Goto(c, "follow")
  /\ lockfile' = None
  /\ UNCHANGED <<flock, gw, gwConfig, clientVars>>

\* The leader's short race wait: a gateway of its config came up meanwhile.
RaceFound(c) ==
  /\ pc[c] = "race" /\ Owned(c)
  /\ Finds(c) /\ Releases(c)
  /\ UNCHANGED <<lockfile, gw, gwConfig, want, attempts, chances, spawned>>

\* Nothing live in time, or a live gateway of another config: autostart.
RaceEnds(c) ==
  /\ pc[c] = "race" /\ ~Owned(c)
  /\ Goto(c, "spawn")
  /\ UNCHANGED <<lockfile, flock, gw, gwConfig, clientVars>>

Autostart(c, g) ==
  /\ pc[c] = "spawn" /\ gw[g] = "unborn" /\ g \notin ByHand
  /\ gw' = [gw EXCEPT ![g] = "starting"]
  /\ gwConfig' = [gwConfig EXCEPT ![g] = want[c]]
  /\ spawned' = [spawned EXCEPT ![c] = g]
  /\ Goto(c, "lead")
  /\ UNCHANGED <<lockfile, flock, want, attempts, chances, found>>

AutostartFails(c) ==
  /\ pc[c] = "spawn" /\ AttemptFails(c) /\ Releases(c)
  /\ UNCHANGED <<lockfile, gw, gwConfig>>

\* Mutant: the leader accepts a lockfile of whichever gateway.
LeadFoundAny(c) ==
  /\ pc[c] = "lead" /\ Live
  /\ Finds(c) /\ Releases(c)
  /\ spawned' = [spawned EXCEPT ![c] = None]
  /\ UNCHANGED <<lockfile, gw, gwConfig, want, attempts, chances>>

\* The leader accepts only the lockfile of the process it started.
LeadFound(c) ==
  /\ pc[c] = "lead" /\ Live /\ lockfile = spawned[c] /\ Owned(c)
  /\ Finds(c) /\ Releases(c)
  /\ spawned' = [spawned EXCEPT ![c] = None]
  /\ UNCHANGED <<lockfile, gw, gwConfig, want, attempts, chances>>

\* The started gateway is slow or dead: the leader gives up the lock.
LeadTimesOut(c) ==
  /\ pc[c] = "lead" /\ AttemptFails(c) /\ Releases(c)
  /\ UNCHANGED <<lockfile, gw, gwConfig>>

FollowFound(c) ==
  /\ pc[c] = "follow" /\ Owned(c)
  /\ Finds(c)
  /\ UNCHANGED <<lockfile, flock, gw, gwConfig, want, attempts, chances, spawned>>

FollowTimesOut(c) ==
  /\ pc[c] = "follow" /\ AttemptFails(c)
  /\ UNCHANGED <<lockfile, flock, gw, gwConfig>>

\* The process is killed, or an I/O error on the startup lock or the lockfile's config
\* path ends it: the finally clause, or the kernel, drops its flock.
ClientCrashes(c) ==
  /\ pc[c] \notin {"off", "done", "failed"}
  /\ Goto(c, "failed") /\ Releases(c)
  /\ UNCHANGED <<lockfile, gw, gwConfig, clientVars>>

-----------------------------------------------------------------------------
(* tela serve *)

Serve(g, k) ==
  /\ g \in ByHand /\ gw[g] = "unborn"
  /\ gw' = [gw EXCEPT ![g] = "starting"]
  /\ gwConfig' = [gwConfig EXCEPT ![g] = k]
  /\ UNCHANGED <<lockfile, flock, pc, clientVars>>

\* The HTTP server is bound: write_lockfile replaces whatever is there.
Publish(g) ==
  /\ gw[g] = "starting"
  /\ gw' = [gw EXCEPT ![g] = "published"]
  /\ lockfile' = g
  /\ UNCHANGED <<flock, gwConfig, pc, clientVars>>

Converged(g) ==
  /\ gw[g] = "published"
  /\ gw' = [gw EXCEPT ![g] = "serving"]
  /\ UNCHANGED <<lockfile, flock, gwConfig, pc, clientVars>>

\* Mutant: the rollback leaves the lockfile to the teardown.
ConvergeFailsKeeps(g) ==
  /\ gw[g] = "published"
  /\ gw' = [gw EXCEPT ![g] = "failing"]
  /\ UNCHANGED <<lockfile, flock, gwConfig, pc, clientVars>>

\* Convergence failed after the bind: the lockfile goes, whoever wrote it, ...
ConvergeFails(g) ==
  /\ gw[g] = "published"
  /\ lockfile' = None
  /\ gw' = [gw EXCEPT ![g] = "failing"]
  /\ UNCHANGED <<flock, gwConfig, pc, clientVars>>

\* ... and then the HTTP server and the runtime are torn down.
RolledBack(g) ==
  /\ gw[g] = "failing"
  /\ gw' = [gw EXCEPT ![g] = "exited"]
  /\ UNCHANGED <<lockfile, flock, gwConfig, pc, clientVars>>

\* The upstream server is unusable: the error path before the bind deletes a lockfile
\* that this process never wrote.
StartFails(g) ==
  /\ gw[g] = "starting"
  /\ lockfile' = None
  /\ gw' = [gw EXCEPT ![g] = "exited"]
  /\ UNCHANGED <<flock, gwConfig, pc, clientVars>>

\* Idle timeout, signal or HTTP failure: the endpoint is closed.
BeginsStop(g) ==
  /\ gw[g] = "serving"
  /\ gw' = [gw EXCEPT ![g] = "stopping"]
  /\ UNCHANGED <<lockfile, flock, gwConfig, pc, clientVars>>

\* The last act of the finally clause: delete_lockfile, whoever wrote it.
EndsStop(g) ==
  /\ gw[g] = "stopping"
  /\ lockfile' = None
  /\ gw' = [gw EXCEPT ![g] = "exited"]
  /\ UNCHANGED <<flock, gwConfig, pc, clientVars>>

\* Any other startup error up to write_lockfile, or a kill at any time: the lockfile stays.
GatewayDies(g) ==
  /\ Alive(g)
  /\ gw' = [gw EXCEPT ![g] = "gone"]
  /\ UNCHANGED <<lockfile, flock, gwConfig, pc, clientVars>>

-----------------------------------------------------------------------------
(* tela stop *)

StopReads(p) ==
  /\ pc[p] = "off" /\ Live
  /\ Goto(p, "signal") /\ found' = [found EXCEPT ![p] = lockfile]
  /\ UNCHANGED <<lockfile, flock, gw, gwConfig, want, attempts, chances, spawned>>

\* SIGTERM: before the gateway's own handlers are installed it kills the process,
\* at once or when the HTTP server has shut down.
StopSignals(p) ==
  /\ pc[p] = "signal" /\ Goto(p, "await")
  /\ LET g == found[p]
     IN  \/ gw[g] = "serving" /\ gw' = [gw EXCEPT ![g] = "stopping"]
         \/ gw[g] \in {"published", "failing"} /\ gw' = [gw EXCEPT ![g] = "gone"]
         \/ gw[g] # "serving" /\ UNCHANGED gw
  /\ UNCHANGED <<lockfile, flock, gwConfig, clientVars>>

StopSeesExit(p) ==
  /\ pc[p] = "await" /\ ~Alive(found[p]) /\ Goto(p, "clean")
  /\ UNCHANGED <<lockfile, flock, gw, gwConfig, clientVars>>

StopTimesOut(p) ==
  /\ pc[p] = "await" /\ Alive(found[p]) /\ Goto(p, "failed")
  /\ UNCHANGED <<lockfile, flock, gw, gwConfig, clientVars>>

StopCleans(p) ==
  /\ pc[p] = "clean" /\ Goto(p, "done")
  /\ lockfile' = None
  /\ UNCHANGED <<flock, gw, gwConfig, clientVars>>

-----------------------------------------------------------------------------

ClientSteps(c) ==
  \/ Look(c) \/ TryLock(c) \/ MeetsStale(c) \/ Unlink(c) \/ RaceFound(c) \/ RaceEnds(c)
  \/ (\E g \in Gateways : Autostart(c, g)) \/ AutostartFails(c)
  \/ LeadFound(c) \/ LeadTimesOut(c) \/ FollowFound(c) \/ FollowTimesOut(c)

GatewaySteps(g) ==
  \/ Publish(g) \/ StartFails(g) \/ Converged(g) \/ ConvergeFails(g) \/ RolledBack(g) \/ EndsStop(g)

Next ==
  \/ \E c \in Clients : Start(c) \/ ClientSteps(c) \/ ClientCrashes(c)
  \/ \E g \in Gateways, k \in Configs : Serve(g, k)
  \/ \E g \in Gateways : GatewaySteps(g) \/ BeginsStop(g) \/ GatewayDies(g)
  \/ \E p \in Stoppers :
       StopReads(p) \/ StopSignals(p) \/ StopSeesExit(p) \/ StopTimesOut(p) \/ StopCleans(p)

Spec == Init /\ [][Next]_vars

\* Every wait of a client has a deadline, so a client that is not killed goes on; the
\* operating system runs every process.  Timeouts are counted among a client's steps.
FairSpec ==
  /\ Spec
  /\ \A c \in Clients :
       /\ WF_vars(ClientSteps(c))
       /\ SF_vars(FollowTimesOut(c) \/ LeadTimesOut(c) \/ RaceEnds(c))
  /\ \A g \in Gateways : WF_vars(GatewaySteps(g))

-----------------------------------------------------------------------------
(* Properties *)

Leading == {"race", "raceUnlink", "spawn", "lead", "leadUnlink"}

\* discover_or_autostart: while a client leads, it holds the startup lock of its config,
\* across every failure, timeout and crash; so no second client of the config spawns.
LeaderHoldsLock == \A c \in Clients : pc[c] \in Leading <=> flock[want[c]] = c

\* A client attaches only to a gateway of the config it asked for.
OwnConfig == \A c \in Clients : pc[c] = "done" => gwConfig[found[c]] = want[c]

\* Discovery is bounded: a client that started is attached or gives up.
DiscoveryEnds == \A c \in Clients : pc[c] = "look" ~> pc[c] \in {"done", "failed"}

\* What a client may still try, in this run of the coordinator and in the next.
Budget(c) == (IF chances[c] = 1 THEN Retries ELSE 0) + (Retries - attempts[c])
\* Every new attempt is paid for, whatever made the last one fail, and nothing gives attempts
\* back, so a discovery tries at most 2 * START_RACE_RETRIES times however the gateways behave
\* (discover_or_autostart, _discover_or_autostart).
RetriesPaid ==
  [][\A c \in Clients : pc'[c] # "failed" =>
       /\ Budget(c)' <= Budget(c)
       /\ pc[c] \notin {"off", "look", "try"} /\ pc'[c] \in {"look", "try"} =>
            Budget(c)' < Budget(c)]_vars

Process == INSTANCE GatewayProcesses WITH phase <- gw
\* Through races of starts, stops, rollbacks and crashes the file never leads to a process that is
\* starting, rolling back or gone in good order: the processes keep the protocol of
\* GatewayProcesses (_run_serve_gateway, rollback_after_post_bind_convergence_failure).
GatewaySpec == Process!Spec

\* README and test_startup_coord_liveness: the clients of one config share one gateway.
OneGateway ==
  \A g, h \in Gateways : gw[g] = "serving" /\ gw[h] = "serving" /\ gwConfig[g] = gwConfig[h] => g = h
=============================================================================
