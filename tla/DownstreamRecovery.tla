------------------------- MODULE DownstreamRecovery -------------------------
(***************************************************************************)
(* The downstream side of a running tela gateway: the tool registry, the   *)
(* client handles, the per-server recovery locks, and the tasks that move  *)
(* them: connect_all at startup, on_config_changed of the config watcher,  *)
(* call_tool with its single recovery and retry, the reconnect handler,    *)
(* and the handler of a server's tools/list_changed.                       *)
(*                                                                         *)
(* Everything runs on one asyncio event loop: `loop' names the coroutine   *)
(* that has not suspended since its last step.  _registry_lock is held     *)
(* across an await only by connect_all and disconnect_all (`locked');      *)
(* every other use of it is inside one step.  A coroutine that finds it    *)
(* taken, or finds others waiting, queues (`queue', first in, first out).  *)
(*                                                                         *)
(* Abstractions: a server's config is a version; a registry entry is the   *)
(* set of exposed tool names and the version they were resolved with (the  *)
(* names a server exposes are arbitrary); deadlines may pass at any await  *)
(* bounded by the recovery budget.                                         *)
(***************************************************************************)
EXTENDS Naturals, Sequences, FiniteSets

CONSTANTS
  Servers,     \* downstream server names
  Versions,    \* materially different configs of a server
  Tools,       \* exposed tool names
  Reserved,    \* the exposed names with the reserved tela prefix
  Handles,     \* client sessions
  Locks,       \* asyncio.Lock objects of _recovery_locks
  Calls,       \* tasks that run call_tool
  Events,      \* tasks that run the message handler of a downstream session
  Reloader,    \* the task that starts the servers and then watches the config
  None,        \* nothing
  MaxReloads   \* bound: config reloads in a behaviour

Tasks == Calls \cup Events

ASSUME DownstreamAssumptions ==
  /\ Reserved \subseteq Tools
  /\ None \notin Servers \cup Versions \cup Handles \cup Locks \cup Tasks \cup {Reloader}
  /\ None \notin [srv: Servers, ver: Versions]
  /\ Reloader \notin Tasks /\ Calls \cap Events = {}
  /\ MaxReloads \in Nat

Configs == [Servers -> Versions \cup {None}]
Registries == [tools: [Servers -> SUBSET Tools], ver: Configs, owner: [Tools -> Servers \cup {None}]]

VARIABLES
  config,     \* the servers of the runtime config
  registry,   \* _tools_by_server (tools, ver) and _tool_to_server (owner)
  clients,    \* _clients
  handles,    \* what an open session was opened for; None once closed
  lockOf,     \* _recovery_locks
  locked,     \* connect_all or disconnect_all is suspended inside _registry_lock
  queue,      \* the coroutines waiting for _registry_lock
  loop,       \* the coroutine running without having suspended, or None
  task,       \* the tool calls and message handlers
  rpc,        \* where startup or the reload is
  saved,      \* the reload's old config and registry snapshot
  reloads     \* reloads so far

lockVars   == <<locked, queue, loop>>
reloadVars == <<config, rpc, saved, reloads>>
vars == <<registry, clients, handles, lockOf, lockVars, task, reloadVars>>

\* The local variables of a task that does nothing.
Idle == [pc |-> "idle", srv |-> None, used |-> None, seen |-> None,
         lock |-> None, contended |-> FALSE, hand |-> None, got |-> {},
         prev |-> {}, prevVer |-> None, missing |-> FALSE]

TaskType ==
  [pc: {"idle", "read", "calling", "acquire", "wait", "recheck", "open", "enumerate", "snapshot",
        "converge", "digest", "notify", "swap", "close", "restore", "drop", "prune", "retry",
        "listread", "relist", "apply"},
   srv: Servers \cup {None}, used: Handles \cup {None}, seen: Versions \cup {None},
   lock: Locks \cup {None}, contended: BOOLEAN, hand: Handles \cup {None},
   got: SUBSET Tools, prev: SUBSET Tools, prevVer: Versions \cup {None}, missing: BOOLEAN]

EmptyRegistry ==
  [tools |-> [s \in Servers |-> {}], ver |-> [s \in Servers |-> None],
   owner |-> [x \in Tools |-> None]]

NoConfig == [s \in Servers |-> None]
NothingSaved == [config |-> NoConfig, registry |-> EmptyRegistry]

TypeOK ==
  /\ config \in Configs
  /\ registry \in Registries
  /\ clients \in [Servers -> Handles \cup {None}]
  /\ handles \in [Handles -> [srv: Servers, ver: Versions] \cup {None}]
  /\ lockOf \in [Servers -> Locks \cup {None}]
  /\ locked \in BOOLEAN
  /\ queue \in Seq(Tasks \cup {Reloader})
  /\ loop \in Tasks \cup {Reloader, None}
  /\ task \in [Tasks -> TaskType]
  /\ rpc \in {"idle", "disconnect", "connect", "connecting", "rollback", "failed"}
  /\ saved \in [config: Configs, registry: Registries]
  /\ reloads \in 0..MaxReloads

\* gateway_converge_startup is about to call connect_all with the loaded config.
Init ==
  /\ config \in Configs
  /\ registry = EmptyRegistry
  /\ clients = [s \in Servers |-> None]
  /\ handles = [h \in Handles |-> None]
  /\ lockOf = [s \in Servers |-> None]
  /\ locked = FALSE /\ queue = <<>> /\ loop = None
  /\ task = [t \in Tasks |-> Idle]
  /\ rpc = "connect" /\ saved = NothingSaved /\ reloads = 0

-----------------------------------------------------------------------------
(* The registry *)

Listed(s) == registry.ver[s] # None

\* Mutant: the names of replaced tools stay in the flat lookup.
OwnerKept(s) == registry.owner

\* The flat lookup after the tools of s are removed from it.
OwnerWithout(s) ==
  [x \in Tools |-> IF x \in registry.tools[s] /\ registry.owner[x] = s
                     THEN None ELSE registry.owner[x]]

Unregistered(s) ==
  [tools |-> [registry.tools EXCEPT ![s] = {}],
   ver   |-> [registry.ver EXCEPT ![s] = None],
   owner |-> OwnerWithout(s)]

Registered(s, T, v) ==
  [tools |-> [registry.tools EXCEPT ![s] = T],
   ver   |-> [registry.ver EXCEPT ![s] = v],
   owner |-> [x \in Tools |-> IF x \in T THEN s ELSE OwnerWithout(s)[x]]]

\* detect_conflicts: a name of two servers, or a reserved name.
Conflicts(tools) ==
  \/ \E s \in Servers : tools[s] \cap Reserved # {}
  \/ \E a, b \in Servers : a # b /\ tools[a] \cap tools[b] # {}

-----------------------------------------------------------------------------
(* The event loop and the locks *)

Goto(t, to) == task' = [task EXCEPT ![t].pc = to]
Returns(t) == task' = [task EXCEPT ![t] = Idle]
\* t is resumed by the event loop at an await, or is idle and may start.
At(t, pc) == rpc # "failed" /\ loop = None /\ task[t].pc = pc
Suspends == loop' = None /\ UNCHANGED <<locked, queue>>

\* async with _registry_lock by a coroutine that does not suspend inside it.
Takes(t) ==
  /\ rpc # "failed" /\ ~locked
  /\ \/ loop \in {t, None} /\ queue = <<>> /\ UNCHANGED queue
     \/ loop = None /\ queue # <<>> /\ Head(queue) = t /\ queue' = Tail(queue)

\* It goes on to code that awaits nothing, or to an await.
ThenRuns(t) == loop' = t /\ UNCHANGED locked
ThenAwaits == loop' = None /\ UNCHANGED locked

AtLock == {"read", "acquire", "recheck", "snapshot", "converge", "digest", "swap", "restore",
           "drop", "prune", "retry", "listread", "apply"}
WantsLock(t) == IF t = Reloader THEN rpc \in {"connect", "rollback"} ELSE task[t].pc \in AtLock

\* The lock is taken or others wait for it: t queues.
Queues(t) ==
  /\ rpc # "failed" /\ WantsLock(t) /\ loop \in {t, None}
  /\ locked \/ queue # <<>>
  /\ \A i \in DOMAIN queue : queue[i] # t
  /\ queue' = Append(queue, t) /\ loop' = None
  /\ UNCHANGED <<registry, clients, handles, lockOf, locked, task, reloadVars>>

\* Inside the recovery lock: from lock.acquire to the finally clause.
Critical == {"recheck", "open", "enumerate", "snapshot", "converge", "digest", "notify",
             "swap", "close", "restore", "drop"}
Held(l) == \E t \in Tasks : task[t].lock = l /\ task[t].pc \in Critical

Closed(h) == [handles EXCEPT ![h] = None]
\* Sessions and locks nobody refers to: they are interchangeable, a step takes any.
Fresh == {h \in Handles :
            /\ handles[h] = None
            /\ \A s \in Servers : clients[s] # h
            /\ \A t \in Tasks : h \notin {task[t].used, task[t].hand}}
FreshLocks == {l \in Locks : (\A s \in Servers : lockOf[s] # l) /\ \A t \in Tasks : task[t].lock # l}
FreshSessions(up) == {f \in [up -> Fresh] : \A a, b \in up : a # b => f[a] # f[b]}

-----------------------------------------------------------------------------
(* call_tool and the message handlers start *)

\* handle_tools_call finds the server in the flat lookup, without the lock.
CallBegin(t, x) ==
  /\ At(t, "idle") /\ registry.owner[x] # None
  /\ task' = [task EXCEPT ![t] = [Idle EXCEPT !.pc = "read",
                                              !.srv = registry.owner[x]]]
  /\ loop' = t
  /\ UNCHANGED <<registry, clients, handles, lockOf, locked, queue, reloadVars>>

\* call_tool reads the client; without one it goes straight to recovery.
ReadClient(t) ==
  /\ task[t].pc = "read" /\ Takes(t)
  /\ LET h == clients[task[t].srv]
     IN  IF h = None THEN Goto(t, "acquire") /\ ThenRuns(t)
                     ELSE task' = [task EXCEPT ![t].used = h, ![t].pc = "calling"] /\ ThenAwaits
  /\ UNCHANGED <<registry, clients, handles, lockOf, reloadVars>>

\* A result, or a failure that proves nothing about the client.
CallReturns(t) ==
  /\ At(t, "calling") /\ Returns(t) /\ Suspends
  /\ UNCHANGED <<registry, clients, handles, lockOf, reloadVars>>

\* The session is unusable: recovery-eligible.
CallFails(t) ==
  /\ At(t, "calling") /\ Goto(t, "acquire")
  /\ loop' = t
  /\ UNCHANGED <<registry, clients, handles, lockOf, locked, queue, reloadVars>>

\* The message handler of an open session receives an exception.
ReconnectBegin(t, h) ==
  /\ At(t, "idle") /\ handles[h] # None
  /\ task' = [task EXCEPT ![t] = [Idle EXCEPT !.pc = "acquire",
                                              !.srv = handles[h].srv]]
  /\ loop' = t
  /\ UNCHANGED <<registry, clients, handles, lockOf, locked, queue, reloadVars>>

-----------------------------------------------------------------------------
(* _recover_server_client *)

\* It returns without error, at the end of a step: a call goes on to its retry.
Recovered(t) ==
  IF t \in Calls
    THEN task' = [task EXCEPT ![t] = [Idle EXCEPT !.pc = "retry",
                                                  !.srv = task[t].srv, !.used = task[t].used]]
    ELSE Returns(t)
LoopAfterRecovered(t) == IF t \in Calls THEN t ELSE None

\* The server's lock object, made on first use; contention is noted here.
AcquireLock(t) ==
  /\ task[t].pc = "acquire" /\ Takes(t) /\ ThenAwaits
  /\ LET s == task[t].srv
         l == IF lockOf[s] = None THEN CHOOSE k \in FreshLocks : TRUE ELSE lockOf[s]
     IN  /\ lockOf[s] = None => FreshLocks # {}
         /\ lockOf' = [lockOf EXCEPT ![s] = l]
         /\ task' = [task EXCEPT ![t].lock = l, ![t].contended = Held(l), ![t].pc = "wait"]
  /\ UNCHANGED <<registry, clients, handles, reloadVars>>

WaitTimesOut(t) ==
  /\ At(t, "wait") /\ Returns(t) /\ Suspends
  /\ UNCHANGED <<registry, clients, handles, lockOf, reloadVars>>

\* Mutant: a server missing from the config is reconnected all the same.
LockAcquiredUnchecked(t) ==
  /\ At(t, "wait") /\ ~Held(task[t].lock)
  /\ LET to == IF task[t].contended THEN "recheck" ELSE "open"
     IN  /\ task' = [task EXCEPT ![t].seen = config[task[t].srv], ![t].contended = FALSE,
                                 ![t].pc = to]
         /\ loop' = IF to = "open" THEN None ELSE t
  /\ UNCHANGED <<registry, clients, handles, lockOf, locked, queue, reloadVars>>

\* The lock is free: the runtime config decides what follows.
LockAcquired(t) ==
  /\ At(t, "wait") /\ ~Held(task[t].lock)
  /\ LET v == config[task[t].srv]
         to == IF v = None THEN "drop" ELSE IF task[t].contended THEN "recheck" ELSE "open"
     IN  /\ task' = [task EXCEPT ![t].seen = v, ![t].contended = FALSE, ![t].pc = to]
         /\ loop' = IF to = "open" THEN None ELSE t
  /\ UNCHANGED <<registry, clients, handles, lockOf, locked, queue, reloadVars>>

\* A task that had to wait takes a present client for a healed one.
Recheck(t) ==
  /\ task[t].pc = "recheck" /\ Takes(t) /\ UNCHANGED locked
  /\ IF clients[task[t].srv] # None /\ Listed(task[t].srv)
       THEN Recovered(t) /\ loop' = LoopAfterRecovered(t)
       ELSE Goto(t, "open") /\ loop' = None
  /\ UNCHANGED <<registry, clients, handles, lockOf, reloadVars>>

Opened(t) ==
  /\ At(t, "open") /\ Fresh # {} /\ Suspends
  /\ LET h == CHOOSE k \in Fresh : TRUE
     IN  /\ handles' = [handles EXCEPT ![h] = [srv |-> task[t].srv, ver |-> task[t].seen]]
         /\ task' = [task EXCEPT ![t].hand = h, ![t].pc = "enumerate"]
  /\ UNCHANGED <<registry, clients, lockOf, reloadVars>>

\* Mutant: a recovery that fails after the session is open does not close it.
RecoveryFailsLeaking(t) ==
  /\ \E pc \in {"open", "enumerate", "notify"} : At(t, pc)
  /\ Returns(t) /\ Suspends
  /\ UNCHANGED <<registry, clients, handles, lockOf, reloadVars>>

\* No transport, no tool list, or the deadline passes (while waiting for a lock, as
\* soon as it is got; even during the notification,
\* with the registry already updated): the new session, if any, is closed.
RecoveryFails(t) ==
  /\ \E pc \in {"open", "enumerate", "notify"} : At(t, pc)
  /\ handles' = [h \in Handles |-> IF h = task[t].hand THEN None ELSE handles[h]]
  /\ Returns(t) /\ Suspends
  /\ UNCHANGED <<registry, clients, lockOf, reloadVars>>

\* The tools are listed; the config must still be the one that was read.
Enumerated(t, T) ==
  /\ At(t, "enumerate") /\ UNCHANGED <<locked, queue>>
  /\ LET v == config[task[t].srv]
     IN  \/ /\ v = task[t].seen
            /\ task' = [task EXCEPT ![t].got = T, ![t].pc = "snapshot"]
            /\ loop' = t
            /\ UNCHANGED handles
         \/ /\ v # task[t].seen
            /\ handles' = Closed(task[t].hand)
            /\ IF v = None
                 THEN task' = [task EXCEPT ![t].hand = None, ![t].pc = "drop"]
                 ELSE Returns(t)
            /\ loop' = None
  /\ UNCHANGED <<registry, clients, lockOf, reloadVars>>

\* previous_tools is read under the lock; convergence then takes it again, in a
\* task of its own where wait_for makes one.
SnapshotTools(t) ==
  /\ task[t].pc = "snapshot" /\ Takes(t) /\ UNCHANGED locked
  /\ task' = [task EXCEPT ![t].prev = registry.tools[task[t].srv],
                          ![t].prevVer = registry.ver[task[t].srv], ![t].pc = "converge"]
  /\ loop' \in {t, None}
  /\ UNCHANGED <<registry, clients, handles, lockOf, reloadVars>>

\* on_server_reconnect: register, or reject a conflict and close the new session.
Converge(t) ==
  /\ task[t].pc = "converge" /\ Takes(t) /\ UNCHANGED locked
  /\ LET new == Registered(task[t].srv, task[t].got, task[t].seen)
     IN  IF Conflicts(new.tools)
           THEN /\ handles' = Closed(task[t].hand) /\ Returns(t) /\ loop' = None
                /\ UNCHANGED registry
           ELSE /\ registry' = new
                /\ task' = [task EXCEPT ![t].got = {}, ![t].pc = "digest"]
                /\ loop' = t
                /\ UNCHANGED handles
  /\ UNCHANGED <<clients, lockOf, reloadVars>>

\* The digest of the tools is read under the lock; the notification that follows
\* awaits its sends, if there is anyone to send to.
Digest(t) ==
  /\ task[t].pc = "digest" /\ Takes(t) /\ UNCHANGED locked
  /\ Goto(t, "notify") /\ loop' \in {t, None}
  /\ UNCHANGED <<registry, clients, handles, lockOf, reloadVars>>

\* Upstream has been notified; the config is compared once more before the swap.
Notified(t) ==
  /\ rpc # "failed" /\ loop \in {t, None} /\ task[t].pc = "notify"
  /\ UNCHANGED <<locked, queue>>
  /\ LET v == config[task[t].srv]
     IN  IF v = task[t].seen
           THEN Goto(t, "swap") /\ loop' = t /\ UNCHANGED handles
           ELSE /\ handles' = Closed(task[t].hand)
                /\ task' = [task EXCEPT ![t].hand = None, ![t].missing = (v = None),
                                        ![t].pc = "restore"]
                /\ loop' = None
  /\ UNCHANGED <<registry, clients, lockOf, reloadVars>>

\* Mutant: the new session is closed in place of the old one.
SwapClosesNew(t) ==
  /\ task[t].pc = "swap" /\ Takes(t) /\ ThenAwaits
  /\ clients' = [clients EXCEPT ![task[t].srv] = task[t].hand]
  /\ task' = [task EXCEPT ![t].pc = "close", ![t].prev = {}, ![t].prevVer = None]
  /\ UNCHANGED <<registry, handles, lockOf, reloadVars>>

\* The new session replaces the old one, which is closed inside the recovery lock.
Swap(t) ==
  /\ task[t].pc = "swap" /\ Takes(t) /\ UNCHANGED locked
  /\ LET old == clients[task[t].srv]
     IN  /\ clients' = [clients EXCEPT ![task[t].srv] = task[t].hand]
         /\ IF old = None
              THEN Recovered(t) /\ loop' = LoopAfterRecovered(t)
              ELSE /\ task' = [task EXCEPT ![t].hand = old, ![t].pc = "close",
                                           ![t].prev = {}, ![t].prevVer = None]
                   /\ loop' = None
  /\ UNCHANGED <<registry, handles, lockOf, reloadVars>>

\* The old or dropped session is closed; after a drop the lock entry is pruned.
SessionClosed(t) ==
  /\ At(t, "close") /\ UNCHANGED <<locked, queue>>
  /\ handles' = Closed(task[t].hand)
  /\ IF task[t].missing
       THEN task' = [task EXCEPT ![t].hand = None, ![t].pc = "prune"] /\ loop' = t
       ELSE Recovered(t) /\ loop' = LoopAfterRecovered(t)
  /\ UNCHANGED <<registry, clients, lockOf, reloadVars>>

\* The config changed under the recovery: the tools it found before go back,
\* without conflict detection.
Restore(t) ==
  /\ task[t].pc = "restore" /\ Takes(t) /\ UNCHANGED locked
  /\ registry' = IF task[t].prev # {} THEN Registered(task[t].srv, task[t].prev, task[t].prevVer)
                                      ELSE Unregistered(task[t].srv)
  /\ IF task[t].missing THEN Goto(t, "drop") /\ loop' = t ELSE Returns(t) /\ loop' = None
  /\ UNCHANGED <<clients, handles, lockOf, reloadVars>>

\* The server is not configured any more: its client goes.
DropClient(t) ==
  /\ task[t].pc = "drop" /\ Takes(t) /\ UNCHANGED locked
  /\ LET old == clients[task[t].srv]
     IN  /\ clients' = [clients EXCEPT ![task[t].srv] = None]
         /\ task' = [task EXCEPT ![t].hand = old, ![t].missing = TRUE,
                                 ![t].pc = IF old = None THEN "prune" ELSE "close"]
         /\ loop' = IF old = None THEN t ELSE None
  /\ UNCHANGED <<registry, handles, lockOf, reloadVars>>

\* _prune_recovery_lock_if_unused, after the release.
PruneLock(t) ==
  /\ task[t].pc = "prune" /\ Takes(t) /\ ThenAwaits
  /\ LET s == task[t].srv
     IN  lockOf' = IF lockOf[s] # None /\ ~Held(lockOf[s]) /\ clients[s] = None
                     THEN [lockOf EXCEPT ![s] = None] ELSE lockOf
  /\ Returns(t)
  /\ UNCHANGED <<registry, clients, handles, reloadVars>>

\* The single retry, on whatever client is mapped now; its outcome is final.
Retry(t) ==
  /\ task[t].pc = "retry" /\ Takes(t) /\ ThenAwaits
  /\ Returns(t)
  /\ UNCHANGED <<registry, clients, handles, lockOf, reloadVars>>

-----------------------------------------------------------------------------
(* _handle_tools_list_changed: the handler keeps the config its session was opened with *)

ListChangedBegin(t, h) ==
  /\ At(t, "idle") /\ handles[h] # None
  /\ task' = [task EXCEPT ![t] = [Idle EXCEPT !.pc = "listread",
                                              !.srv = handles[h].srv, !.seen = handles[h].ver]]
  /\ loop' = t
  /\ UNCHANGED <<registry, clients, handles, lockOf, locked, queue, reloadVars>>

ReadForList(t) ==
  /\ task[t].pc = "listread" /\ Takes(t) /\ ThenAwaits
  /\ IF clients[task[t].srv] = None THEN Returns(t) ELSE Goto(t, "relist")
  /\ UNCHANGED <<registry, clients, handles, lockOf, reloadVars>>

Relisted(t, T) ==
  /\ At(t, "relist")
  /\ task' = [task EXCEPT ![t].got = T, ![t].pc = "apply"]
  /\ loop' = t
  /\ UNCHANGED <<registry, clients, handles, lockOf, locked, queue, reloadVars>>

RelistFails(t) ==
  /\ At(t, "relist") /\ Returns(t) /\ Suspends
  /\ UNCHANGED <<registry, clients, handles, lockOf, reloadVars>>

\* on_tools_changed: register, or keep the previous tools on a conflict.
ApplyList(t) ==
  /\ task[t].pc = "apply" /\ Takes(t) /\ ThenAwaits
  /\ LET new == Registered(task[t].srv, task[t].got, task[t].seen)
     IN  registry' = IF Conflicts(new.tools) THEN registry ELSE new
  /\ Returns(t)
  /\ UNCHANGED <<clients, handles, lockOf, reloadVars>>

-----------------------------------------------------------------------------
(* Startup and on_config_changed *)

AllClosed == [h \in Handles |-> IF \E s \in Servers : clients[s] = h THEN None ELSE handles[h]]

\* The new config is set and the registry saved; disconnect_all takes the lock and
\* empties the client map before it closes the sessions.  The watcher polls every
\* few seconds, long after the lock has gone to those who waited for it.
Reload(new) ==
  /\ rpc = "idle" /\ loop = None /\ queue = <<>>
  /\ reloads < MaxReloads /\ new # config
  /\ config' = new /\ reloads' = reloads + 1
  /\ saved' = [config |-> config, registry |-> registry]
  /\ locked' = TRUE /\ rpc' = "disconnect"
  /\ clients' = [s \in Servers |-> None]
  /\ handles' = AllClosed
  /\ UNCHANGED <<registry, lockOf, queue, loop, task>>

\* Mutant: the lock is not released.
DisconnectAllKeepsLock ==
  /\ rpc = "disconnect" /\ loop = None
  /\ registry' = EmptyRegistry
  /\ lockOf' = [s \in Servers |-> None]
  /\ rpc' = "connect" /\ loop' = Reloader
  /\ UNCHANGED <<config, clients, handles, locked, queue, task, saved, reloads>>

\* disconnect_all ends: the registry and the recovery locks are cleared.
DisconnectAll ==
  /\ rpc = "disconnect" /\ loop = None
  /\ registry' = EmptyRegistry
  /\ lockOf' = [s \in Servers |-> None]
  /\ locked' = FALSE /\ rpc' = "connect" /\ loop' = Reloader
  /\ UNCHANGED <<config, clients, handles, queue, task, saved, reloads>>

\* connect_all takes the lock, closes what is there and starts every server.
ConnectBegin ==
  /\ rpc = "connect" /\ Takes(Reloader)
  /\ locked' = TRUE /\ loop' = None /\ rpc' = "connecting"
  /\ registry' = EmptyRegistry
  /\ clients' = [s \in Servers |-> None]
  /\ handles' = AllClosed
  /\ UNCHANGED <<config, lockOf, task, saved, reloads>>

Configured == {s \in Servers : config[s] # None}

\* Some servers came up, each with a session and a tool list: they are published.
ConnectPublish(up, session, found) ==
  /\ ~Conflicts(found)
  /\ handles' = [h \in Handles |-> IF \E s \in up : session[s] = h
                   THEN LET s == CHOOSE s \in up : session[s] = h IN [srv |-> s, ver |-> config[s]]
                   ELSE handles[h]]
  /\ clients' = [s \in Servers |-> IF s \in up THEN session[s] ELSE None]
  /\ registry' = [tools |-> found,
                  ver |-> [s \in Servers |-> IF s \in up THEN config[s] ELSE None],
                  owner |-> [x \in Tools |-> IF \E s \in up : x \in found[s]
                                              THEN CHOOSE s \in up : x \in found[s] ELSE None]]
  /\ rpc' = "idle" /\ saved' = NothingSaved /\ loop' = None

\* Their tools conflict: all are closed.  At startup the gateway ends here.
ConnectConflict(found) ==
  /\ Conflicts(found)
  /\ IF reloads = 0 THEN rpc' = "failed" /\ loop' = None ELSE rpc' = "rollback" /\ loop' = Reloader
  /\ UNCHANGED <<registry, clients, handles, saved>>

\* connect_all ends: which servers came up, with which sessions and tools.
ConnectAll ==
  /\ rpc = "connecting" /\ loop = None
  /\ \E up \in SUBSET Configured :
       \E found \in {f \in [Servers -> SUBSET Tools] : \A s \in Servers \ up : f[s] = {}} :
         \/ ConnectConflict(found)
         \/ /\ FreshSessions(up) # {}
            /\ ConnectPublish(up, CHOOSE f \in FreshSessions(up) : TRUE, found)
  /\ locked' = FALSE
  /\ UNCHANGED <<config, lockOf, queue, task, reloads>>

\* The reload is taken back: registry snapshot and old config, but no clients.
Rollback ==
  /\ rpc = "rollback" /\ Takes(Reloader) /\ ThenAwaits
  /\ registry' = saved.registry /\ config' = saved.config
  /\ saved' = NothingSaved /\ rpc' = "idle"
  /\ UNCHANGED <<clients, handles, lockOf, task, reloads>>

-----------------------------------------------------------------------------

\* Inside a recovery nothing waits without a deadline.
RecoverySteps(t) ==
  \/ Queues(t) \/ ReadClient(t) \/ AcquireLock(t) \/ Recheck(t)
  \/ Opened(t) \/ RecoveryFails(t)
  \/ \E T \in SUBSET Tools : Enumerated(t, T)
  \/ SnapshotTools(t) \/ Converge(t) \/ Digest(t) \/ Notified(t) \/ Swap(t) \/ SessionClosed(t)
  \/ Restore(t) \/ DropClient(t) \/ PruneLock(t) \/ Retry(t)
  \/ ReadForList(t) \/ ApplyList(t)

ReloadSteps == Queues(Reloader) \/ DisconnectAll \/ ConnectBegin \/ ConnectAll \/ Rollback

Next ==
  \/ \E t \in Calls : (\E x \in Tools : CallBegin(t, x)) \/ CallReturns(t) \/ CallFails(t)
  \/ \E t \in Events :
       \/ \E h \in Handles : ReconnectBegin(t, h) \/ ListChangedBegin(t, h)
       \/ \E T \in SUBSET Tools : Relisted(t, T)
       \/ RelistFails(t)
  \/ \E t \in Tasks : WaitTimesOut(t) \/ LockAcquired(t) \/ RecoverySteps(t)
  \/ \E new \in Configs : Reload(new)
  \/ ReloadSteps

Spec == Init /\ [][Next]_vars

\* Every await of a recovery and of connect_all is bounded by a timeout, the ready
\* queue and both locks are first in, first out (strong fairness: other coroutines
\* hold the loop or the lock in between).  The first attempt of a call, the list of a
\* handler and the deadline of a lock wait are not promised.
Fairness ==
  /\ \A t \in Tasks : SF_vars(RecoverySteps(t)) /\ SF_vars(LockAcquired(t))
  /\ SF_vars(ReloadSteps)

FairSpec == Spec /\ Fairness

-----------------------------------------------------------------------------
(* Properties *)

\* The flat lookup never names a server that does not list the tool, whatever
\* registrations, removals and restored snapshots came before: get_tool finds the
\* tool wherever _tool_to_server points.
FlatLookup ==
  \A x \in Tools : registry.owner[x] # None => x \in registry.tools[registry.owner[x]]

\* _clients holds only open sessions, each opened for the server it is listed under.
ClientsOpen ==
  \A s \in Servers : clients[s] # None => handles[clients[s]] # None /\ handles[clients[s]].srv = s

\* No session leaks: whatever fails or is overtaken, an open session is in _clients
\* or in the hands of exactly one task that will close or publish it.
NoHandleLeak ==
  \A h \in Handles : handles[h] # None =>
     Cardinality({s \in Servers : clients[s] = h}) + Cardinality({t \in Tasks : task[t].hand = h}) = 1

\* A recovery ends: the recovery lock and the registry lock are always handed on,
\* even to a task whose deadline never passes.
RecoveryEnds == \A t \in Tasks : task[t].pc \in {"acquire", "wait"} ~> task[t].pc = "idle"

\* A reload ends: connected, or rolled back.
ReloadEnds == rpc \in {"disconnect", "connect"} ~> rpc \in {"idle", "failed"}

Quiet == rpc = "idle" /\ \A t \in Tasks : task[t].pc = "idle"

\* ADR-006, reload wins: with no reload or recovery under way, no tools of a server
\* that the config does not have are offered.
ReloadWins == Quiet => \A s \in Servers : Listed(s) => config[s] # None
=============================================================================
