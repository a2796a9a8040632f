---------------------------- MODULE ServeLifecycle ----------------------------
(***************************************************************************)
(* One `tela serve' process from its configuration to its exit: the main   *)
(* task binds, publishes the lockfile and connects the downstream servers; *)
(* the watcher reloads the file; clients initialize, list and call; and a  *)
(* stop, a failed HTTP server or an error of either task takes it down.    *)
(* All of it is one asyncio loop, so a step ends at an await.              *)
(*                                                                         *)
(* A reload sets the new configuration first and closes, clears and        *)
(* reconnects the servers afterwards, while requests go on.  _registry_lock*)
(* is held while sessions are closed and while they are opened.  The       *)
(* recovery of a single server is one step here (DownstreamRecovery has    *)
(* its steps), and so is connection bookkeeping (GatewayConnections).      *)
(***************************************************************************)
EXTENDS Authorization

CONSTANTS
  Clients,     \* upstream clients, one request each at a time
  Files,       \* what the configuration file may contain, by name
  Deployed,    \* ... and may contain when the process starts
  Content,     \* ... and the configuration each is
  Offer,       \* the raw tools each downstream server offers
  Tokens,      \* the capability tokens clients present in token mode
  CliDefault,  \* --default-profile, or "unset"
  MaxEdits     \* edits of the file in a behaviour

ASSUME ServeAssumptions ==
  /\ MaxEdits \in Nat /\ "none" \notin Files /\ Deployed \subseteq Files /\ DOMAIN Content = Files
  /\ \A f \in Files : IsConfig(Content[f]) /\ DOMAIN Content[f].servers \subseteq DOMAIN Offer

\* Names with one prefix are as different as they are without it.
ASSUME PrefixAssumption ==
  \A f \in Files : \A s \in DOMAIN Content[f].servers : \A x, y \in DOMAIN Offer[s] :
    Exposed(Content[f].servers[s].prefix, x) = Exposed(Content[f].servers[s].prefix, y) => x = y

VARIABLES
  main,      \* where _run_serve_gateway is
  final,     \* its finally clause runs, which deletes the lockfile at the end
  stop,      \* stop_event
  http,      \* the HTTP server's task
  lockfile,  \* whether gateway.lock of this process exists
  disk,      \* the file: what it contains and its mtime
  unread,    \* edited since the watcher started and not loaded since
  config,    \* _runtime.config: the name of a file, or "none"
  pinned,    \* startup_config.default_profile
  secrets,   \* _runtime.secrets
  event,     \* the convergence event: "unset", "set" or "none"
  registry,  \* server to its resolved tools
  sessions,  \* the servers in _clients
  track,     \* attempted, in progress, failed: the startup diagnostics
  watcher,   \* where watch_config_changes is
  stat,      \* the mtime it read
  seen,      \* last_mtime_ns
  old,       \* on_config_changed: the configuration and the registry to go back to
  bound,     \* the profile of each client's connection
  req        \* each client's request

vars == <<main, final, stop, http, lockfile, disk, unread, config, pinned, secrets, event, registry,
          sessions, track, watcher, stat, seen, old, bound, req>>
runtime == <<config, pinned, secrets, event>>
downstream == <<registry, sessions, track>>
watching == <<watcher, stat, seen, old>>
upstream == <<bound, req>>

Servers == DOMAIN Offer
Profiles == UNION { DOMAIN Content[f].profiles : f \in Files }
Empty == [s \in {} |-> {}]
NoTrack == [attempted |-> {}, inProgress |-> {}, failed |-> {}]
Idle == [st |-> "idle", what |-> "list", tool |-> {}, stale |-> FALSE]
Configured == IF config = "none" THEN {} ELSE DOMAIN Content[config].servers
Resolved(f, s) == resolve_tools(s, Content[f].servers[s], Offer[s])
Tools == UNION { UNION { Resolved(f, s) : s \in DOMAIN Content[f].servers } : f \in Files }
Names == { t.name : t \in Tools } \ Reserved
Starting == {"prepare", "launch", "publish", "connect", "connecting", "finish"}
Ended == {"exited", "raised", "killed"}
NoOld == [config |-> "none", registry |-> Empty]
Registries == UNION { [D -> SUBSET Tools] : D \in SUBSET Servers }
Tracks == [attempted : SUBSET Servers, inProgress : SUBSET Servers, failed : SUBSET Servers]
Requests == [st : {"idle", "wait", "queued", "ahead", "recover", "sent"},
             what : Names \cup {"list"}, tool : SUBSET Tools, stale : BOOLEAN]

\* Every variable of the process has its type.
TypeOK ==
  /\ main \in Starting \cup {"serving", "awaiting", "stopHttp", "shutdown", "unlock"} \cup Ended
  /\ final \in BOOLEAN /\ stop \in BOOLEAN /\ lockfile \in BOOLEAN /\ unread \in BOOLEAN
  /\ http \in {"off", "up", "ended", "failed"}
  /\ disk \in [file : Files, mtime : 0..MaxEdits]
  /\ config \in Files \cup {"none"} /\ pinned \in Profiles \cup {"unset", CliDefault}
  /\ secrets \subseteq UNION { Content[f].secrets : f \in Files }
  /\ event \in {"none", "unset", "set"}
  /\ registry \in Registries /\ sessions \subseteq Servers /\ track \in Tracks
  /\ watcher \in {"off", "sleep", "load", "closing", "between", "gather", "undo", "notify",
                  "ended", "raised"}
  /\ stat \in 0..MaxEdits /\ seen \in 0..MaxEdits
  /\ old \in [config : Files \cup {"none"}, registry : Registries]
  /\ bound \in [Clients -> Profiles \cup {"unset"}] /\ req \in [Clients -> Requests]
  /\ \A c \in Clients : Cardinality(req[c].tool) <= 1

\* load_config accepts file f.
Loads(f, cli) == Valid(Content[f], cli)

\* serve_command has loaded the file; config is what it hands to _run_serve_gateway.
Init ==
  /\ \E f \in Deployed :
       /\ Loads(f, CliDefault)
       /\ disk = [file |-> f, mtime |-> 0] /\ config = f
       /\ pinned = IF CliDefault # "unset" \/ Content[f].mode = "token" THEN CliDefault
                   ELSE resolve_open_mode_default_profile(Content[f], "unset")
  /\ main = "prepare" /\ final = FALSE /\ stop = FALSE /\ http = "off" /\ lockfile = FALSE
  /\ unread = FALSE /\ secrets = {} /\ event = "none"
  /\ registry = Empty /\ sessions = {} /\ track = NoTrack
  /\ watcher = "off" /\ stat = 0 /\ seen = 0 /\ old = NoOld
  /\ bound = [c \in Clients |-> "unset"] /\ req = [c \in Clients |-> Idle]

-----------------------------------------------------------------------------
(* connect_all, disconnect_all and what the status says of them *)

Locked == main = "connecting" \/ watcher \in {"closing", "gather"}

\* connect_all up to the await: old sessions are closed, the registry is empty.
BeginsConnect(servers) ==
  /\ registry' = Empty /\ sessions' = {}
  /\ track' = [attempted |-> servers, inProgress |-> servers, failed |-> {}]

\* A server that did not raise: what publishing the sessions of up makes of the registry.
Published(f, up) == [s \in up |-> Resolved(f, s)]
ConnectRaises(f, up) == \E s \in up : Raises(Content[f].servers[s], Offer[s])
ConnectConflicts(f, up) == detect_conflicts(Published(f, up))

\* _mark_startup_finished.
FinishesTrack(f, up) ==
  track' = [track EXCEPT !.inProgress = {}, !.failed = DOMAIN Content[f].servers \ up]

\* The servers in up answered.  Names in conflict: nothing is published.
ConnectRefused(f, up) ==
  /\ ~ConnectRaises(f, up) /\ ConnectConflicts(f, up)
  /\ registry' = Empty /\ sessions' = {} /\ FinishesTrack(f, up)
ConnectDone(f, up) ==
  /\ ~ConnectRaises(f, up) /\ ~ConnectConflicts(f, up)
  /\ registry' = Published(f, up) /\ sessions' = up /\ FinishesTrack(f, up)

DisconnectAll == registry' = Empty /\ sessions' = {} /\ track' = NoTrack

\* Mutant: a registry short of servers is not degraded.
StateUncounted ==
  CASE Configured = {} -> "ready"
    [] Configured # {} /\ track.inProgress # {} -> "warming"
    [] OTHER -> IF track.failed # {} THEN "degraded" ELSE "ready"
\* get_lifecycle_status_facts.
LifecycleState ==
  IF Configured = {} THEN "ready"
  ELSE IF track.inProgress # {} THEN "warming"
  ELSE IF DOMAIN registry # {}
    THEN IF track.failed # {} \/ Cardinality(DOMAIN registry) < Cardinality(Configured)
           THEN "degraded" ELSE "ready"
  ELSE IF ~(Configured \subseteq track.attempted) THEN "warming" ELSE "degraded"

-----------------------------------------------------------------------------
(* _run_serve_gateway: startup *)

\* gateway_prepare_startup: a fresh event, the configuration's secrets, tracking begun.
Prepare ==
  /\ main = "prepare" /\ main' = "launch"
  /\ secrets' = Content[config].secrets /\ event' = "unset"
  /\ track' = [attempted |-> Configured, inProgress |-> Configured, failed |-> {}]
  /\ UNCHANGED <<final, stop, http, lockfile, disk, unread, config, pinned, registry, sessions,
                 watching, upstream>>

\* launch_streamable_http_server: bound, or an error (early exit, bind timeout).
Launch ==
  /\ main = "launch"
  /\ \/ http' = "up" /\ main' = "publish"
     \/ http' = "off" /\ main' = "shutdown"
  /\ UNCHANGED <<final, stop, lockfile, disk, unread, runtime, downstream, watching, upstream>>

\* write_lockfile; its failure takes the HTTP server down again.
Publish ==
  /\ main = "publish"
  /\ \/ lockfile' = TRUE /\ main' = "connect"
     \/ lockfile' = FALSE /\ main' = "stopHttp"
  /\ UNCHANGED <<final, stop, http, disk, unread, runtime, downstream, watching, upstream>>

Connect ==
  /\ main = "connect" /\ main' = "connecting" /\ BeginsConnect(Configured)
  /\ UNCHANGED <<final, stop, http, lockfile, disk, unread, runtime, watching, upstream>>

\* Mutant: the rollback keeps the lockfile.
RolledBackKeepsLock == main' = "stopHttp" /\ UNCHANGED lockfile
\* rollback_after_post_bind_convergence_failure: the lockfile goes first.
RolledBack == main' = "stopHttp" /\ lockfile' = FALSE

\* The process ends without another step of its own: its memory is gone, its files stay.
Dies(how) ==
  /\ main' = how /\ final' = FALSE /\ stop' = FALSE /\ http' = "off" /\ unread' = FALSE
  /\ config' = "none" /\ secrets' = {} /\ event' = "none" /\ DisconnectAll
  /\ watcher' = "off" /\ stat' = 0 /\ seen' = 0 /\ old' = NoOld
  /\ bound' = [c \in Clients |-> "unset"] /\ req' = [c \in Clients |-> Idle]
  /\ UNCHANGED <<lockfile, disk, pinned>>

\* The servers have answered, each with a session or an error.
Connected ==
  /\ main = "connecting"
  /\ \E up \in SUBSET Configured :
       \/ ConnectRefused(config, up) /\ RolledBack
       \/ ConnectDone(config, up) /\ main' = "finish" /\ UNCHANGED lockfile
  /\ UNCHANGED <<final, stop, http, disk, unread, runtime, watching, upstream>>

\* A reserved name is an exception that nothing catches.
ConnectDies ==
  /\ main = "connecting" /\ \E up \in SUBSET Configured : ConnectRaises(config, up)
  /\ Dies("raised")

\* Mutant: the event is left unset.
FinishForgetsEvent ==
  /\ main = "finish" /\ main' = "serving" /\ watcher' = "sleep" /\ seen' = disk.mtime
  /\ UNCHANGED <<final, stop, http, lockfile, disk, unread, runtime, downstream, stat, old, upstream>>

\* audit_init may fail; otherwise the reaper starts, the clients are notified, the event is set,
\* and the watcher starts with the mtime the file has by now.
Finish ==
  /\ main = "finish"
  /\ \/ RolledBack /\ UNCHANGED <<event, watcher, seen>>
     \/ /\ main' = "serving" /\ event' = "set" /\ watcher' = "sleep" /\ seen' = disk.mtime
        /\ UNCHANGED lockfile
  /\ UNCHANGED <<final, stop, http, disk, unread, config, pinned, secrets, downstream, stat, old,
                 upstream>>

-----------------------------------------------------------------------------
(* watch_config_changes and on_config_changed *)

Leaving == main = "serving" /\ (stop \/ http # "up")

watcherIdle == <<main, final, stop, http, lockfile, pinned, secrets, event, bound>>

\* The file is edited, while the process is not leaving; unread remembers it for the properties.
Edit(f) ==
  /\ disk.mtime < MaxEdits /\ main \in Starting \cup {"serving"} /\ ~Leaving
  /\ disk' = [file |-> f, mtime |-> disk.mtime + 1] /\ unread' = (watcher # "off")
  /\ UNCHANGED <<main, final, stop, http, lockfile, runtime, downstream, watching, upstream>>

\* Mutant: the loop does not look at the stop event.
LoopsForever == "sleep"
\* The test of the watcher's loop.
Loops == IF stop THEN "ended" ELSE "sleep"

\* The poll: a newer mtime is remembered until the reload has ended.
WatcherPolls ==
  /\ watcher = "sleep"
  /\ IF disk.mtime > seen THEN stat' = disk.mtime /\ watcher' = "load"
                          ELSE watcher' = Loops /\ UNCHANGED stat
  /\ UNCHANGED <<watcherIdle, disk, unread, config, downstream, seen, old, req>>

\* Mutant: the mtime is read again after the reload.
ReloadEndsRestats == watcher' = Loops /\ seen' = disk.mtime
\* The reload has ended, well or not: last_mtime_ns is what the poll read.
ReloadEnds == watcher' = Loops /\ seen' = stat

\* The requests under way were admitted before this change of configuration.
MarksStale == req' = [c \in Clients |-> [req[c] EXCEPT !.stale = req[c].st # "idle"]]

\* gateway_reload_config_from_disk.  The default profile resolved at startup counts as a CLI
\* choice.  The new configuration is in force at once; if the servers differ the sessions are
\* taken out and closed one after the other.
WatcherLoads ==
  /\ watcher = "load" /\ unread' = FALSE
  /\ LET f == disk.file IN
     \/ ~Loads(f, pinned) /\ ReloadEnds /\ UNCHANGED <<config, sessions, old, req>>
     \/ /\ Loads(f, pinned) /\ Content[f].servers = Content[config].servers
        /\ config' = f /\ MarksStale /\ ReloadEnds /\ UNCHANGED <<sessions, old>>
     \/ /\ Loads(f, pinned) /\ Content[f].servers # Content[config].servers
        /\ config' = f /\ MarksStale /\ sessions' = {}
        /\ old' = [config |-> config, registry |-> registry]
        /\ watcher' = "closing" /\ UNCHANGED seen
  /\ UNCHANGED <<watcherIdle, disk, registry, track, stat>>

\* disconnect_all is done: the registry and the diagnostics are empty.  The lock is fair: the
\* calls that have queued for it come before connect_all, later ones after it.
Closed ==
  /\ watcher = "closing" /\ watcher' = "between" /\ DisconnectAll
  /\ req' = [c \in Clients |-> [req[c] EXCEPT !.st = IF @ = "queued" THEN "ahead" ELSE @]]
  /\ UNCHANGED <<watcherIdle, disk, unread, config, stat, seen, old>>

Reconnect ==
  /\ watcher = "between" /\ \A c \in Clients : req[c].st # "ahead"
  /\ watcher' = "gather" /\ BeginsConnect(Configured)
  /\ UNCHANGED <<watcherIdle, disk, unread, config, stat, seen, old, req>>

\* As at startup, but an exception ends the watcher, with the servers in progress for good.
Reconnected ==
  /\ watcher = "gather"
  /\ \E up \in SUBSET Configured :
       \/ ConnectRaises(config, up) /\ watcher' = "raised" /\ UNCHANGED downstream
       \/ ConnectRefused(config, up) /\ watcher' = "undo"
       \/ ConnectDone(config, up) /\ watcher' = "notify"
  /\ UNCHANGED <<watcherIdle, disk, unread, config, stat, seen, old, req>>

\* Mutant: the registry is restored but the new configuration stays.
RefusedKeepsConfig ==
  /\ watcher = "undo" /\ registry' = old.registry /\ old' = NoOld /\ ReloadEnds
  /\ UNCHANGED <<watcherIdle, disk, unread, config, sessions, track, stat, req>>

\* A conflict: registry and configuration go back; the sessions stay closed.
Refused ==
  /\ watcher = "undo" /\ registry' = old.registry /\ config' = old.config /\ old' = NoOld
  /\ MarksStale /\ ReloadEnds
  /\ UNCHANGED <<watcherIdle, disk, unread, sessions, track, stat>>

\* _notify_registry_tool_digest has told every client.
Notified ==
  /\ watcher = "notify" /\ old' = NoOld /\ ReloadEnds
  /\ UNCHANGED <<watcherIdle, disk, unread, config, downstream, stat, req>>

-----------------------------------------------------------------------------
(* Clients.  BearerAuthMiddleware turns away whoever lacks the bearer token, and every POST /mcp *)
(* while the gateway is warming; neither changes anything.                                      *)

clientIdle == <<main, final, stop, http, lockfile, disk, unread, runtime, watching>>

PostAdmitted == http = "up" /\ config # "none" /\ LifecycleState # "warming"
Reloading == watcher \in {"closing", "between", "gather", "undo"}

\* initialize: handle_initialize binds a profile, or rejects and there is no connection.
Initialize(c, token) ==
  /\ PostAdmitted /\ req[c].st = "idle"
  /\ LET default == resolve_open_mode_default_profile(Content[config], pinned)
     IN  bound' = [bound EXCEPT ![c] = Binding(Content[config], default, secrets, token)]
  /\ UNCHANGED <<clientIdle, downstream, req>>

\* tools/list, or tools/call of a name: the connection is there, the event is awaited.
Request(c, what) ==
  /\ PostAdmitted /\ bound[c] # "unset" /\ req[c].st = "idle"
  /\ req' = [req EXCEPT ![c] = [Idle EXCEPT !.st = "wait", !.what = what]]
  /\ UNCHANGED <<clientIdle, downstream, bound>>

Registered(name) == { t \in UNION { registry[s] : s \in DOMAIN registry } : t.name = name }

\* handle_tools_call up to the registry lock: the tool, the profile and the verdict.
Admitted(c) ==
  { t \in Registered(req[c].what) :
      /\ bound[c] \in DOMAIN Content[config].profiles
      /\ enforce(t, Content[config].profiles[bound[c]], DefaultPosture(Content[config], t.server))
           = "allow" }

\* The event is set: a list is answered, a call is refused or queues for its session.
Proceed(c) ==
  /\ req[c].st = "wait" /\ event = "set"
  /\ req' = IF req[c].what = "list" \/ Admitted(c) = {} THEN [req EXCEPT ![c] = Idle]
            ELSE [req EXCEPT ![c] = [@ EXCEPT !.st = "queued", !.tool = Admitted(c),
                                              !.stale = Reloading]]
  /\ UNCHANGED <<clientIdle, downstream, bound>>

ToolOf(c) == CHOOSE t \in req[c].tool : TRUE
Becomes(c, st) == req' = [req EXCEPT ![c] = IF st = "idle" THEN Idle ELSE [@ EXCEPT !.st = st]]

\* call_tool: the raw name goes to the server's session, or the server is recovered first.
Dispatch(c) ==
  /\ ~Locked /\ (req[c].st = "ahead" \/ (req[c].st = "queued" /\ watcher # "between"))
  /\ Becomes(c, IF ToolOf(c).server \in sessions THEN "sent" ELSE "recover")
  /\ UNCHANGED <<clientIdle, downstream, bound>>

\* _recover_server_client fails: the server is gone from the configuration or cannot be reached,
\* its names are reserved or in conflict.
RecoveryFails(c) ==
  /\ req[c].st = "recover" /\ ~Locked /\ Becomes(c, "idle")
  /\ UNCHANGED <<clientIdle, downstream, bound>>

\* It succeeds under the configuration in force: a session, the server's tools, and the retry.
Recovers(c) ==
  /\ req[c].st = "recover" /\ ~Locked
  /\ LET s == ToolOf(c).server
         r == [x \in DOMAIN registry \cup {s} |->
                 IF x = s THEN Resolved(config, s) ELSE registry[x]]
     IN  /\ s \in Configured /\ ~Raises(Content[config].servers[s], Offer[s])
         /\ ~detect_conflicts(r)
         /\ registry' = r /\ sessions' = sessions \cup {s}
  /\ Becomes(c, "sent")
  /\ UNCHANGED <<clientIdle, track, bound>>

\* The server's answer, or its error, is audited and returned.
Answer(c) ==
  /\ req[c].st = "sent" /\ Becomes(c, "idle")
  /\ UNCHANGED <<clientIdle, downstream, bound>>

-----------------------------------------------------------------------------
(* _run_serve_gateway: the end *)

ending == <<disk, unread, pinned, secrets, config, event, downstream, stat, old, bound>>

\* A signal, or the idle manager's expiry.
Stop ==
  /\ main = "serving" /\ ~stop /\ stop' = TRUE
  /\ UNCHANGED <<main, final, http, lockfile, disk, unread, runtime, downstream, watching, upstream>>

\* The HTTP server's task ends by itself, with or without an exception; its requests go on.
HttpEnds ==
  /\ http = "up" /\ main \in {"connect", "connecting", "finish", "serving"}
  /\ http' \in {"ended", "failed"}
  /\ UNCHANGED <<main, final, stop, lockfile, disk, unread, runtime, downstream, watching, upstream>>

\* asyncio.wait returns: the finally clause sets the stop event and awaits the watcher, cancelled
\* at its await.  aclose swallows the cancellation, and then the reload goes on to its end.
Join ==
  /\ Leaving \/ main = "awaiting"
  /\ \/ /\ main = "serving" /\ watcher \in {"sleep", "between", "gather", "undo", "notify"}
        /\ watcher' = "ended" /\ main' = "stopHttp"
     \/ main = "serving" /\ watcher = "closing" /\ main' = "awaiting" /\ UNCHANGED watcher
     \/ watcher = "ended" /\ main' = "stopHttp" /\ UNCHANGED watcher
  /\ final' = TRUE /\ stop' = TRUE
  /\ UNCHANGED <<ending, http, lockfile, seen, req>>

\* An exception of the watcher is raised again by await_task, and one of the HTTP server by
\* stop_http_server: nothing more of the finally clause or of the rollback happens.
JoinDies ==
  /\ \/ (Leaving \/ main = "awaiting") /\ watcher = "raised"
     \/ main = "stopHttp" /\ http = "failed"
  /\ Dies("raised")

\* stop_http_server: a server that runs ends, or is cancelled after two seconds, with the
\* requests it serves.
StopHttp ==
  /\ main = "stopHttp" /\ http # "failed" /\ main' = "shutdown"
  /\ http' = "off" /\ req' = IF http = "up" THEN [c \in Clients |-> Idle] ELSE req
  /\ UNCHANGED <<ending, final, stop, lockfile, watcher, seen>>

\* Mutant: the process ends without the last act of its finally clause.
ShutdownExits ==
  /\ main = "shutdown" /\ main' = "exited"
  /\ DisconnectAll /\ config' = "none" /\ secrets' = {} /\ event' = "none"
  /\ bound' = [c \in Clients |-> "unset"]
  /\ UNCHANGED <<final, stop, http, lockfile, disk, unread, pinned, watching, req>>

\* gateway_shutdown.
Shutdown ==
  /\ main = "shutdown" /\ main' = (IF final THEN "unlock" ELSE "exited")
  /\ DisconnectAll /\ config' = "none" /\ secrets' = {} /\ event' = "none"
  /\ bound' = [c \in Clients |-> "unset"]
  /\ UNCHANGED <<final, stop, http, lockfile, disk, unread, pinned, watching, req>>

\* delete_lockfile, the last act.
Unlock ==
  /\ main = "unlock" /\ main' = "exited" /\ lockfile' = FALSE
  /\ UNCHANGED <<ending, final, stop, http, watcher, seen, req>>

\* Killed, or signalled before its handlers are installed.
Kill == main \notin Ended /\ Dies("killed")

-----------------------------------------------------------------------------

MainTask == \/ Prepare \/ Launch \/ Publish \/ Connect \/ Connected \/ ConnectDies \/ Finish
            \/ Join \/ JoinDies \/ StopHttp \/ Shutdown \/ Unlock
WatcherTask == WatcherPolls \/ Closed \/ Reconnect \/ Reconnected \/ Refused \/ Notified
RequestTask(c) == Proceed(c) \/ Dispatch(c) \/ RecoveryFails(c) \/ Recovers(c) \/ Answer(c)

\* The watcher does not await between its stat and its read of the file, but the file may change.
Next ==
  \/ Kill \/ \E f \in Files : Edit(f)
  \/ WatcherLoads /\ main \notin Ended
  \/ /\ watcher # "load" /\ main \notin Ended
     /\ \/ MainTask \/ WatcherTask \/ Stop \/ HttpEnds
        \/ \E c \in Clients : \/ RequestTask(c)
                              \/ \E token \in Tokens : Initialize(c, token)
                              \/ \E what \in Names \cup {"list"} : Request(c, what)

Spec == Init /\ [][Next]_vars

\* The event loop runs every task that can go on; servers answer or time out, sessions close.
Fairness ==
  /\ WF_vars(main \notin Ended /\ watcher # "load" /\ MainTask)
  /\ WF_vars(main \notin Ended /\ watcher # "load" /\ WatcherTask)
  /\ WF_vars(main \notin Ended /\ WatcherLoads)
  /\ \A c \in Clients : WF_vars(main \notin Ended /\ watcher # "load" /\ RequestTask(c))
FairSpec == Spec /\ Fairness

-----------------------------------------------------------------------------
(* Properties *)

Settled == main = "serving" /\ watcher = "sleep"

\* The catalogue is exact: whenever no reload is under way, whatever reloads were applied, refused
\* or failed before, tools/list shows each profile exactly the tools that the configuration in
\* force grants it on the servers that answered, the explain endpoint agrees, and no name has two
\* servers (on_config_changed, connect_all, resolve_tools, enforce, explain_authorization).
CatalogueExact ==
  Settled =>
    /\ DOMAIN registry \subseteq Configured /\ ~detect_conflicts(registry)
    /\ \A p \in DOMAIN Content[config].profiles :
         LET profile == Content[config].profiles[p]
             shown   == filter_tools_for_profile(registry, Content[config], profile)
         IN  /\ { <<t.server, t.raw>> : t \in shown } =
                  UNION { { <<s, raw>> : raw \in { r \in DOMAIN Offer[s] :
                              MayUse(Content[config], p, s, r, Offer[s]) } } : s \in DOMAIN registry }
             /\ \A s \in DOMAIN registry : \A t \in registry[s] :
                  t \in shown <=> explain_authorization(t, profile, DefaultPosture(Content[config], s))
                                    = "allowed"

\* "ready" is honest about the registry: with no reload under way, GET /status says ready only if
\* every configured server is registered, after partial startups and refused reloads too
\* (get_lifecycle_status_facts, connect_all, on_config_changed).
ReadyMeansRegistered == Settled /\ LifecycleState = "ready" => DOMAIN registry = Configured

\* A call that reaches a downstream server is granted by the configuration in force, unless a
\* reload overlapped it after it was admitted or while it was (handle_tools_call, call_tool).
CallAuthorized ==
  \A c \in Clients :
    req[c].st = "sent" /\ ~req[c].stale /\ main \notin Ended \cup {"unlock"} =>
      /\ ToolOf(c).server \in Configured /\ bound[c] \in DOMAIN Content[config].profiles
      /\ MayUse(Content[config], bound[c], ToolOf(c).server, ToolOf(c).raw, Offer[ToolOf(c).server])

\* The lockfile leads to a gateway: a startup that fails withdraws it before anything is torn
\* down, and a process that ends with a result leaves no lockfile, session or configuration,
\* whatever its watcher was doing (_run_serve_gateway, rollback_after_post_bind_convergence_failure).
CleanExit ==
  /\ lockfile /\ ~final => main \in Starting \cup {"serving", "raised", "killed"}
  /\ main = "exited" => ~lockfile /\ http = "off" /\ sessions = {} /\ config = "none"

\* Where clients and stop commands see the process: its endpoint is bound from "connect" on, and
\* what comes after an error is a rollback unless the finally clause runs.
Phase ==
  CASE main \in {"prepare", "launch", "publish"}  -> "starting"
    [] main \in {"connect", "connecting", "finish"} -> "published"
    [] main \in {"serving", "exited"}             -> main
    [] main \in {"raised", "killed"}              -> "gone"
    [] main \in {"awaiting", "stopHttp", "shutdown", "unlock"} ->
         IF final THEN "stopping" ELSE "failing"

Process == INSTANCE GatewayProcesses
  WITH Gateways <- {"self"}, None <- "none",
       phase <- [g \in {"self"} |-> Phase], lockfile <- IF lockfile THEN "self" ELSE "none"

\* Whatever fails or is reloaded, the process uses its lockfile as the other processes assume: it
\* is written once, withdrawn before a rollback, and gone before an end with a result
\* (_run_serve_gateway, rollback_after_post_bind_convergence_failure, stop_http_server).
GatewaySpec == Process!Spec

\* No edit is lost: one made since the watcher started is ahead of the mtime the watcher has
\* kept, also if it fell into a reload, so the next poll finds it (watch_config_changes).
EditNoticed == watcher = "sleep" /\ unread => disk.mtime > seen

\* A stop ends the process, whatever the watcher is doing (await_task, stop_http_server,
\* gateway_shutdown).
StopEnds == stop ~> main \in Ended

\* A request that was admitted is answered, unless the process ends: nobody waits for the
\* convergence event or the registry lock for ever (_list_tools, _call_tool, call_tool).
RequestEnds == \A c \in Clients : req[c].st # "idle" ~> req[c].st = "idle" \/ main \in Ended

\* Warming ends: once the servers have answered, the status is ready or degraded
\* (get_lifecycle_status_facts, connect_all).
WarmingEnds == main = "serving" /\ LifecycleState = "warming" ~>
                 LifecycleState # "warming" \/ main # "serving"
=============================================================================
