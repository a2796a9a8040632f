------------------------- MODULE ServeLifecycleProofs -------------------------
(***************************************************************************)
(* Proofs about ServeLifecycle, for any files, servers, clients, tokens and*)
(* names and any number of edits.                                          *)
(***************************************************************************)
EXTENDS ServeLifecycle, AuthorizationProofs, FiniteSetTheorems

-----------------------------------------------------------------------------
(* Types *)

\* TypeOK in parts: the variables without structure, the flags, and the registries.
FlatTypes ==
  /\ main \in Starting \cup {"serving", "awaiting", "stopHttp", "shutdown", "unlock"} \cup Ended
  /\ http \in {"off", "up", "ended", "failed"}
  /\ disk \in [file : Files, mtime : 0..MaxEdits]
  /\ config \in Files \cup {"none"} /\ pinned \in Profiles \cup {"unset", CliDefault}
  /\ secrets \subseteq UNION { Content[f].secrets : f \in Files }
  /\ event \in {"none", "unset", "set"} /\ sessions \subseteq Servers
  /\ watcher \in {"off", "sleep", "load", "closing", "between", "gather", "undo", "notify",
                  "ended", "raised"}
  /\ stat \in 0..MaxEdits /\ seen \in 0..MaxEdits
Flags == final \in BOOLEAN /\ stop \in BOOLEAN /\ lockfile \in BOOLEAN /\ unread \in BOOLEAN
RegistryTypes ==
  /\ registry \in Registries /\ track \in Tracks
  /\ old \in [config : Files \cup {"none"}, registry : Registries]

\* The servers of the file in force are servers of some file.
LEMMA ConfiguredServers == config \in Files \cup {"none"} => Configured \subseteq Servers
BY ServeAssumptions DEF Configured, Servers

\* Where each task and the lockfile are when _run_serve_gateway is where it is.
MainInv ==
  /\ config = "none" <=> main \in Ended \cup {"unlock"}
  /\ event = "set" => config # "none"
  /\ main \in Starting => watcher = "off"
  /\ main \in {"serving", "awaiting"} => watcher # "off"
  /\ main \in {"stopHttp", "shutdown", "unlock"} \cup Ended => watcher \in {"off", "ended"}
  /\ watcher \in {"closing", "between", "gather", "undo"} => old.config \in Files
  /\ main \in {"prepare", "launch", "shutdown", "unlock", "exited"} => http = "off"
  /\ main \in {"prepare", "launch"} => ~lockfile
  /\ main \in {"stopHttp", "shutdown", "exited"} /\ ~final => ~lockfile
  /\ main = "exited" => ~lockfile
  /\ main \in {"awaiting", "unlock"} => final
  /\ main \in Starting \cup {"serving"} => ~final
  /\ main \in {"unlock", "exited"} => sessions = {}

\* A registry without servers is a registry (disconnect_all).
LEMMA EmptyRegistry == Empty \in Registries
<1>1. Empty \in [{} -> SUBSET Tools] /\ {} \in SUBSET Servers
  BY DEF Empty
<1>2. QED
  BY <1>1 DEF Registries

\* What a registry maps to what.
LEMMA IsRegistry ==
  ASSUME NEW r \in Registries
  PROVE  /\ DOMAIN r \subseteq Servers /\ r \in [DOMAIN r -> SUBSET Tools]
         /\ \A s \in DOMAIN r : r[s] \subseteq Tools
BY DEF Registries

\* What a server of a file offers is among the tools.
LEMMA ResolvedTools ==
  ASSUME NEW f \in Files, NEW s \in DOMAIN Content[f].servers
  PROVE  Resolved(f, s) \subseteq Tools /\ s \in Servers
BY ServeAssumptions DEF Tools, Servers

\* What connect_all publishes is a registry.
LEMMA PublishedRegistry ==
  ASSUME NEW f \in Files, NEW up \in SUBSET DOMAIN Content[f].servers
  PROVE  Published(f, up) \in Registries
<1>1. Published(f, up) \in [up -> SUBSET Tools]
  BY ResolvedTools DEF Published
<1>2. up \in SUBSET Servers
  BY ServeAssumptions DEF Servers
<1>3. QED
  BY <1>1, <1>2 DEF Registries

\* What a reload may have to go back to.
Olds == [config : Files \cup {"none"}, registry : Registries]
\* There is nothing to go back to before the first reload, and nothing tracked.
LEMMA Nothing == NoOld \in Olds /\ NoTrack \in Tracks
BY EmptyRegistry DEF NoOld, NoTrack, Tracks, Olds

\* The convergence tracker stays one of the servers of the file (finish, begin).
LEMMA Tracked ==
  ASSUME NEW f \in Files
  PROVE  /\ \A up : track \in Tracks /\ FinishesTrack(f, up) => track' \in Tracks
         /\ LET all == DOMAIN Content[f].servers
            IN  [attempted |-> all, inProgress |-> all, failed |-> {}] \in Tracks
BY ServeAssumptions DEF FinishesTrack, Tracks, Servers

\* Every step keeps the flags Boolean.
LEMMA FlagsStep == Flags /\ [Next]_vars => Flags'
<1> SUFFICES ASSUME Flags, [Next]_vars PROVE Flags'
  OBVIOUS
<1> USE DEF Flags
<1>1. CASE Kill
  BY <1>1 DEF Kill, Dies, DisconnectAll
<1>2. ASSUME NEW f \in Files, Edit(f) PROVE Flags'
  BY <1>2 DEF Edit, runtime, downstream, watching, upstream
<1>3. CASE WatcherLoads
  BY <1>3 DEF WatcherLoads, ReloadEnds, Loops, watcherIdle
<1>4. CASE Prepare
  BY <1>4 DEF Prepare, watching, upstream
<1>5. CASE Launch
  BY <1>5 DEF Launch, runtime, downstream, watching, upstream
<1>6. CASE Publish
  BY <1>6 DEF Publish, runtime, downstream, watching, upstream
<1>7. CASE Connect
  BY <1>7 DEF Connect, BeginsConnect, runtime, watching, upstream
<1>8. CASE Connected
  BY <1>8 DEF Connected, ConnectRefused, ConnectDone, FinishesTrack, RolledBack, runtime, watching,
     upstream
<1>9. CASE ConnectDies
  BY <1>9 DEF ConnectDies, Dies, DisconnectAll
<1>10. CASE Finish
  BY <1>10 DEF Finish, RolledBack, downstream, upstream
<1>11. CASE Join
  BY <1>11 DEF Join, ending, downstream
<1>12. CASE JoinDies
  BY <1>12 DEF JoinDies, Dies, DisconnectAll
<1>13. CASE StopHttp
  BY <1>13 DEF StopHttp, ending, downstream
<1>14. CASE Shutdown
  BY <1>14 DEF Shutdown, DisconnectAll, watching
<1>15. CASE Unlock
  BY <1>15 DEF Unlock, ending, downstream
<1>16. CASE WatcherPolls
  BY <1>16 DEF WatcherPolls, Loops, watcherIdle, downstream
<1>17. CASE Closed
  BY <1>17 DEF Closed, DisconnectAll, watcherIdle
<1>18. CASE Reconnect
  BY <1>18 DEF Reconnect, BeginsConnect, watcherIdle
<1>19. CASE Reconnected
  BY <1>19 DEF Reconnected, ConnectRefused, ConnectDone, FinishesTrack, watcherIdle, downstream
<1>20. CASE Refused
  BY <1>20 DEF Refused, ReloadEnds, Loops, watcherIdle
<1>21. CASE Notified
  BY <1>21 DEF Notified, ReloadEnds, Loops, watcherIdle, downstream
<1>22. CASE Stop
  BY <1>22 DEF Stop, runtime, downstream, watching, upstream
<1>23. CASE HttpEnds
  BY <1>23 DEF HttpEnds, runtime, downstream, watching, upstream
<1>24. ASSUME NEW c \in Clients, Proceed(c) PROVE Flags'
  BY <1>24 DEF Proceed, clientIdle, downstream, runtime, watching
<1>25. ASSUME NEW c \in Clients, Dispatch(c) PROVE Flags'
  BY <1>25 DEF Dispatch, clientIdle, downstream, runtime, watching
<1>26. ASSUME NEW c \in Clients, RecoveryFails(c) PROVE Flags'
  BY <1>26 DEF RecoveryFails, clientIdle, downstream, runtime, watching
<1>27. ASSUME NEW c \in Clients, Recovers(c) PROVE Flags'
  BY <1>27 DEF Recovers, clientIdle, runtime, watching
<1>28. ASSUME NEW c \in Clients, Answer(c) PROVE Flags'
  BY <1>28 DEF Answer, clientIdle, downstream, runtime, watching
<1>29. ASSUME NEW c \in Clients, NEW token \in Tokens, Initialize(c, token) PROVE Flags'
  BY <1>29 DEF Initialize, clientIdle, downstream, runtime, watching
<1>30. ASSUME NEW c \in Clients, NEW what \in Names \cup {"list"}, Request(c, what) PROVE Flags'
  BY <1>30 DEF Request, clientIdle, downstream, runtime, watching
<1>31. CASE UNCHANGED vars
  BY <1>31 DEF vars, runtime, downstream, watching, upstream
<1>32. QED
  BY <1>1, <1>2, <1>3, <1>4, <1>5, <1>6, <1>7, <1>8, <1>9, <1>10, <1>11, <1>12, <1>13, <1>14,
     <1>15, <1>16, <1>17, <1>18, <1>19, <1>20, <1>21, <1>22, <1>23, <1>24, <1>25, <1>26, <1>27,
     <1>28, <1>29, <1>30, <1>31
  DEF Next, MainTask, WatcherTask, RequestTask

\* Every step keeps the tasks and the lockfile where MainInv says.
LEMMA MainStep == FlatTypes /\ Flags /\ RegistryTypes /\ MainInv /\ [Next]_vars => MainInv'
<1> SUFFICES ASSUME FlatTypes, Flags, RegistryTypes, MainInv, [Next]_vars PROVE MainInv'
  OBVIOUS
<1> USE ServeAssumptions DEF FlatTypes, RegistryTypes, MainInv, Starting, Ended
<1>1. CASE Kill
  BY <1>1 DEF Kill, Dies, DisconnectAll
<1>2. ASSUME NEW f \in Files, Edit(f) PROVE MainInv'
  BY <1>2 DEF Edit, runtime, downstream, watching, upstream
<1>3. CASE WatcherLoads
  BY <1>3 DEF WatcherLoads, ReloadEnds, Loops, watcherIdle
<1>4. CASE Prepare
  BY <1>4 DEF Prepare, watching, upstream
<1>5. CASE Launch
  BY <1>5 DEF Launch, runtime, downstream, watching, upstream
<1>6. CASE Publish
  BY <1>6 DEF Publish, runtime, downstream, watching, upstream
<1>7. CASE Connect
  BY <1>7 DEF Connect, BeginsConnect, runtime, watching, upstream, Configured
<1>8. CASE Connected
  BY <1>8 DEF Connected, ConnectRefused, ConnectDone, FinishesTrack, RolledBack, runtime, watching,
     upstream
<1>9. CASE ConnectDies
  BY <1>9 DEF ConnectDies, Dies, DisconnectAll
<1>10. CASE Finish
  BY <1>10 DEF Finish, RolledBack, downstream, upstream
<1>11. CASE Join
  BY <1>11 DEF Join, ending, downstream, Leaving
<1>12. CASE JoinDies
  BY <1>12 DEF JoinDies, Dies, DisconnectAll, Leaving
<1>13. CASE StopHttp
  BY <1>13 DEF StopHttp, ending, downstream
<1>14. CASE Shutdown
  BY <1>14 DEF Shutdown, DisconnectAll, watching
<1>15. CASE Unlock
  BY <1>15 DEF Unlock, ending, downstream
<1>16. CASE WatcherPolls
  BY <1>16 DEF WatcherPolls, Loops, watcherIdle, downstream
<1>17. CASE Closed
  BY <1>17 DEF Closed, DisconnectAll, watcherIdle
<1>18. CASE Reconnect
  BY <1>18 DEF Reconnect, BeginsConnect, watcherIdle, Configured
<1>19. CASE Reconnected
  BY <1>19 DEF Reconnected, ConnectRefused, ConnectDone, FinishesTrack, watcherIdle, downstream
<1>20. CASE Refused
  BY <1>20 DEF Refused, ReloadEnds, Loops, watcherIdle
<1>21. CASE Notified
  BY <1>21 DEF Notified, ReloadEnds, Loops, watcherIdle, downstream
<1>22. CASE Stop
  BY <1>22 DEF Stop, runtime, downstream, watching, upstream
<1>23. CASE HttpEnds
  BY <1>23 DEF HttpEnds, runtime, downstream, watching, upstream
<1>24. ASSUME NEW c \in Clients, Proceed(c) PROVE MainInv'
  BY <1>24 DEF Proceed, clientIdle, downstream, runtime, watching
<1>25. ASSUME NEW c \in Clients, Dispatch(c) PROVE MainInv'
  BY <1>25 DEF Dispatch, clientIdle, downstream, runtime, watching, Locked
<1>26. ASSUME NEW c \in Clients, RecoveryFails(c) PROVE MainInv'
  BY <1>26 DEF RecoveryFails, clientIdle, downstream, runtime, watching
<1>27. ASSUME NEW c \in Clients, Recovers(c) PROVE MainInv'
  BY <1>27 DEF Recovers, clientIdle, runtime, watching, Configured, Locked
<1>28. ASSUME NEW c \in Clients, Answer(c) PROVE MainInv'
  BY <1>28 DEF Answer, clientIdle, downstream, runtime, watching
<1>29. ASSUME NEW c \in Clients, NEW token \in Tokens, Initialize(c, token) PROVE MainInv'
  BY <1>29 DEF Initialize, clientIdle, downstream, runtime, watching
<1>30. ASSUME NEW c \in Clients, NEW what \in Names \cup {"list"}, Request(c, what) PROVE MainInv'
  BY <1>30 DEF Request, clientIdle, downstream, runtime, watching
<1>31. CASE UNCHANGED vars
  BY <1>31 DEF vars, runtime, downstream, watching, upstream
<1>32. QED
  BY <1>1, <1>2, <1>3, <1>4, <1>5, <1>6, <1>7, <1>8, <1>9, <1>10, <1>11, <1>12, <1>13, <1>14,
     <1>15, <1>16, <1>17, <1>18, <1>19, <1>20, <1>21, <1>22, <1>23, <1>24, <1>25, <1>26, <1>27,
     <1>28, <1>29, <1>30, <1>31
  DEF Next, MainTask, WatcherTask, RequestTask

\* Every step keeps the types of the variables without structure.
LEMMA FlatStep == FlatTypes /\ Flags /\ RegistryTypes /\ MainInv /\ [Next]_vars => FlatTypes'
<1> SUFFICES ASSUME FlatTypes, Flags, RegistryTypes, MainInv, [Next]_vars PROVE FlatTypes'
  OBVIOUS
<1> USE ServeAssumptions, ConfiguredServers DEF FlatTypes, RegistryTypes, MainInv, Starting, Ended
<1>1. CASE Kill
  BY <1>1 DEF Kill, Dies, DisconnectAll
<1>2. ASSUME NEW f \in Files, Edit(f) PROVE FlatTypes'
  BY <1>2 DEF Edit, runtime, downstream, watching, upstream
<1>3. CASE WatcherLoads
  BY <1>3 DEF WatcherLoads, ReloadEnds, Loops, watcherIdle
<1>4. CASE Prepare
  BY <1>4 DEF Prepare, watching, upstream
<1>5. CASE Launch
  BY <1>5 DEF Launch, runtime, downstream, watching, upstream
<1>6. CASE Publish
  BY <1>6 DEF Publish, runtime, downstream, watching, upstream
<1>7. CASE Connect
  BY <1>7 DEF Connect, BeginsConnect, runtime, watching, upstream
<1>8. CASE Connected
  BY <1>8 DEF Connected, ConnectRefused, ConnectDone, FinishesTrack, RolledBack, runtime, watching,
     upstream
<1>9. CASE ConnectDies
  BY <1>9 DEF ConnectDies, Dies, DisconnectAll
<1>10. CASE Finish
  BY <1>10 DEF Finish, RolledBack, downstream, upstream
<1>11. CASE Join
  BY <1>11 DEF Join, ending, downstream
<1>12. CASE JoinDies
  BY <1>12 DEF JoinDies, Dies, DisconnectAll
<1>13. CASE StopHttp
  BY <1>13 DEF StopHttp, ending, downstream
<1>14. CASE Shutdown
  BY <1>14 DEF Shutdown, DisconnectAll, watching
<1>15. CASE Unlock
  BY <1>15 DEF Unlock, ending, downstream
<1>16. CASE WatcherPolls
  BY <1>16 DEF WatcherPolls, Loops, watcherIdle, downstream
<1>17. CASE Closed
  BY <1>17 DEF Closed, DisconnectAll, watcherIdle
<1>18. CASE Reconnect
  BY <1>18 DEF Reconnect, BeginsConnect, watcherIdle
<1>19. CASE Reconnected
  BY <1>19 DEF Reconnected, ConnectRefused, ConnectDone, FinishesTrack, watcherIdle, downstream
<1>20. CASE Refused
  BY <1>20 DEF Refused, ReloadEnds, Loops, watcherIdle
<1>21. CASE Notified
  BY <1>21 DEF Notified, ReloadEnds, Loops, watcherIdle, downstream
<1>22. CASE Stop
  BY <1>22 DEF Stop, runtime, downstream, watching, upstream
<1>23. CASE HttpEnds
  BY <1>23 DEF HttpEnds, runtime, downstream, watching, upstream
<1>24. ASSUME NEW c \in Clients, Proceed(c) PROVE FlatTypes'
  BY <1>24 DEF Proceed, clientIdle, downstream, runtime, watching
<1>25. ASSUME NEW c \in Clients, Dispatch(c) PROVE FlatTypes'
  BY <1>25 DEF Dispatch, clientIdle, downstream, runtime, watching
<1>26. ASSUME NEW c \in Clients, RecoveryFails(c) PROVE FlatTypes'
  BY <1>26 DEF RecoveryFails, clientIdle, downstream, runtime, watching
<1>27. ASSUME NEW c \in Clients, Recovers(c) PROVE FlatTypes'
  BY <1>27 DEF Recovers, clientIdle, runtime, watching
<1>28. ASSUME NEW c \in Clients, Answer(c) PROVE FlatTypes'
  BY <1>28 DEF Answer, clientIdle, downstream, runtime, watching
<1>29. ASSUME NEW c \in Clients, NEW token \in Tokens, Initialize(c, token) PROVE FlatTypes'
  BY <1>29 DEF Initialize, clientIdle, downstream, runtime, watching
<1>30. ASSUME NEW c \in Clients, NEW what \in Names \cup {"list"}, Request(c, what) PROVE FlatTypes'
  BY <1>30 DEF Request, clientIdle, downstream, runtime, watching
<1>31. CASE UNCHANGED vars
  BY <1>31 DEF vars, runtime, downstream, watching, upstream
<1>32. QED
  BY <1>1, <1>2, <1>3, <1>4, <1>5, <1>6, <1>7, <1>8, <1>9, <1>10, <1>11, <1>12, <1>13, <1>14,
     <1>15, <1>16, <1>17, <1>18, <1>19, <1>20, <1>21, <1>22, <1>23, <1>24, <1>25, <1>26, <1>27,
     <1>28, <1>29, <1>30, <1>31
  DEF Next, MainTask, WatcherTask, RequestTask

\* Every step keeps the types of the registry and of what goes with it.
LEMMA RegistryStep == FlatTypes /\ Flags /\ RegistryTypes /\ MainInv /\ [Next]_vars => RegistryTypes'
<1> SUFFICES ASSUME FlatTypes, Flags, RegistryTypes, MainInv, [Next]_vars PROVE RegistryTypes'
  OBVIOUS
<1> USE EmptyRegistry, Nothing DEF RegistryTypes, Olds
<1>1. CASE Kill
  BY <1>1 DEF Kill, Dies, DisconnectAll
<1>2. ASSUME NEW f \in Files, Edit(f) PROVE RegistryTypes'
  BY <1>2 DEF Edit, runtime, downstream, watching, upstream
<1>3. CASE WatcherLoads
  <2>1. UNCHANGED <<registry, track>>
    BY <1>3 DEF WatcherLoads
  <2>2. old' = old \/ old' = [config |-> config, registry |-> registry]
    BY <1>3 DEF WatcherLoads
  <2>3. QED
    BY <2>1, <2>2 DEF FlatTypes
<1>4. CASE Prepare
  <2>1. UNCHANGED <<registry, old>> /\ config \in Files
    BY <1>4 DEF Prepare, watching, FlatTypes, MainInv, Starting, Ended
  <2>2. track' = [attempted |-> Configured, inProgress |-> Configured, failed |-> {}]
    BY <1>4 DEF Prepare
  <2>3. Configured = DOMAIN Content[config].servers
    BY <2>1, ServeAssumptions DEF Configured
  <2>4. QED
    BY <2>1, <2>2, <2>3, Tracked
<1>5. CASE Launch
  BY <1>5 DEF Launch, runtime, downstream, watching, upstream
<1>6. CASE Publish
  BY <1>6 DEF Publish, runtime, downstream, watching, upstream
<1>7. CASE Connect
  <2>1. registry' = Empty /\ UNCHANGED old /\ config \in Files
    BY <1>7 DEF Connect, BeginsConnect, watching, FlatTypes, MainInv, Starting, Ended
  <2>2. track' = [attempted |-> Configured, inProgress |-> Configured, failed |-> {}]
    BY <1>7 DEF Connect, BeginsConnect
  <2>3. Configured = DOMAIN Content[config].servers
    BY <2>1, ServeAssumptions DEF Configured
  <2>4. QED
    BY <2>1, <2>2, <2>3, Tracked
<1>8. CASE Connected
  <2>1. UNCHANGED old /\ config \in Files
    BY <1>8 DEF Connected, watching, FlatTypes, MainInv, Starting, Ended
  <2>2. PICK up \in SUBSET Configured : ConnectRefused(config, up) \/ ConnectDone(config, up)
    BY <1>8 DEF Connected
  <2>3. Configured = DOMAIN Content[config].servers
    BY <2>1, ServeAssumptions DEF Configured
  <2>4. FinishesTrack(config, up) /\ registry' \in {Empty, Published(config, up)}
    BY <2>2 DEF ConnectRefused, ConnectDone
  <2>5. Published(config, up) \in Registries
    BY <2>1, <2>3, PublishedRegistry
  <2>6. QED
    BY <2>1, <2>4, <2>5, Tracked
<1>9. CASE ConnectDies
  BY <1>9 DEF ConnectDies, Dies, DisconnectAll
<1>10. CASE Finish
  BY <1>10 DEF Finish, RolledBack, downstream, upstream
<1>11. CASE Join
  BY <1>11 DEF Join, ending, downstream
<1>12. CASE JoinDies
  BY <1>12 DEF JoinDies, Dies, DisconnectAll
<1>13. CASE StopHttp
  BY <1>13 DEF StopHttp, ending, downstream
<1>14. CASE Shutdown
  BY <1>14 DEF Shutdown, DisconnectAll, watching
<1>15. CASE Unlock
  BY <1>15 DEF Unlock, ending, downstream
<1>16. CASE WatcherPolls
  BY <1>16 DEF WatcherPolls, Loops, watcherIdle, downstream
<1>17. CASE Closed
  BY <1>17 DEF Closed, DisconnectAll, watcherIdle
<1>18. CASE Reconnect
  <2>1. registry' = Empty /\ UNCHANGED old /\ config \in Files
    BY <1>18 DEF Reconnect, BeginsConnect, FlatTypes, MainInv
  <2>2. track' = [attempted |-> Configured, inProgress |-> Configured, failed |-> {}]
    BY <1>18 DEF Reconnect, BeginsConnect
  <2>3. Configured = DOMAIN Content[config].servers
    BY <2>1, ServeAssumptions DEF Configured
  <2>4. QED
    BY <2>1, <2>2, <2>3, Tracked
<1>19. CASE Reconnected
  <2>1. UNCHANGED old /\ config \in Files
    BY <1>19 DEF Reconnected, FlatTypes, MainInv
  <2>2. PICK up \in SUBSET Configured :
          UNCHANGED downstream \/ ConnectRefused(config, up) \/ ConnectDone(config, up)
    BY <1>19 DEF Reconnected
  <2>3. CASE UNCHANGED downstream
    BY <2>1, <2>3 DEF downstream
  <2>4. CASE ConnectRefused(config, up) \/ ConnectDone(config, up)
    <3>1. Configured = DOMAIN Content[config].servers
      BY <2>1, ServeAssumptions DEF Configured
    <3>2. FinishesTrack(config, up) /\ registry' \in {Empty, Published(config, up)}
      BY <2>4 DEF ConnectRefused, ConnectDone
    <3>3. Published(config, up) \in Registries
      BY <2>1, <3>1, PublishedRegistry
    <3>4. QED
      BY <2>1, <3>2, <3>3, Tracked
  <2>5. QED
    BY <2>2, <2>3, <2>4
<1>20. CASE Refused
  BY <1>20 DEF Refused, ReloadEnds, Loops, watcherIdle
<1>21. CASE Notified
  BY <1>21 DEF Notified, ReloadEnds, Loops, watcherIdle, downstream
<1>22. CASE Stop
  BY <1>22 DEF Stop, runtime, downstream, watching, upstream
<1>23. CASE HttpEnds
  BY <1>23 DEF HttpEnds, runtime, downstream, watching, upstream
<1>24. ASSUME NEW c \in Clients, Proceed(c) PROVE RegistryTypes'
  BY <1>24 DEF Proceed, clientIdle, downstream, runtime, watching
<1>25. ASSUME NEW c \in Clients, Dispatch(c) PROVE RegistryTypes'
  BY <1>25 DEF Dispatch, clientIdle, downstream, runtime, watching
<1>26. ASSUME NEW c \in Clients, RecoveryFails(c) PROVE RegistryTypes'
  BY <1>26 DEF RecoveryFails, clientIdle, downstream, runtime, watching
<1>27. ASSUME NEW c \in Clients, Recovers(c) PROVE RegistryTypes'
  <2>1. UNCHANGED <<track, old>>
    BY <1>27 DEF Recovers, clientIdle, watching
  <2>2. PICK s \in Configured :
          registry' = [x \in DOMAIN registry \cup {s} |->
                         IF x = s THEN Resolved(config, s) ELSE registry[x]]
    BY <1>27 DEF Recovers
  <2>3. config \in Files /\ s \in DOMAIN Content[config].servers
    BY ServeAssumptions DEF Configured, FlatTypes
  <2>4. Resolved(config, s) \subseteq Tools /\ s \in Servers
    BY <2>3, ResolvedTools
  <2>5. registry' \in [DOMAIN registry \cup {s} -> SUBSET Tools] /\ DOMAIN registry \cup {s} \in SUBSET Servers
    BY <2>2, <2>4, IsRegistry
  <2>6. registry' \in Registries
    BY <2>5 DEF Registries
  <2>7. QED
    BY <2>1, <2>6
<1>28. ASSUME NEW c \in Clients, Answer(c) PROVE RegistryTypes'
  BY <1>28 DEF Answer, clientIdle, downstream, runtime, watching
<1>29. ASSUME NEW c \in Clients, NEW token \in Tokens, Initialize(c, token) PROVE RegistryTypes'
  BY <1>29 DEF Initialize, clientIdle, downstream, runtime, watching
<1>30. ASSUME NEW c \in Clients, NEW what \in Names \cup {"list"}, Request(c, what) PROVE RegistryTypes'
  BY <1>30 DEF Request, clientIdle, downstream, runtime, watching
<1>31. CASE UNCHANGED vars
  BY <1>31 DEF vars, runtime, downstream, watching, upstream
<1>32. QED
  BY <1>1, <1>2, <1>3, <1>4, <1>5, <1>6, <1>7, <1>8, <1>9, <1>10, <1>11, <1>12, <1>13, <1>14,
     <1>15, <1>16, <1>17, <1>18, <1>19, <1>20, <1>21, <1>22, <1>23, <1>24, <1>25, <1>26, <1>27,
     <1>28, <1>29, <1>30, <1>31
  DEF Next, MainTask, WatcherTask, RequestTask

-----------------------------------------------------------------------------
(* The watcher's clock *)

\* What the watcher remembers is never ahead of the file, and an edit that came while it reloads is
\* ahead of what it read before it loaded.
EditInv ==
  /\ seen <= disk.mtime /\ stat <= disk.mtime
  /\ watcher = "off" => ~unread
  /\ watcher = "sleep" /\ unread => disk.mtime > seen
  /\ watcher \in {"closing", "between", "gather", "undo", "notify"} /\ unread => disk.mtime > stat

\* Every step keeps the watcher's clock.
LEMMA EditStep == FlatTypes /\ Flags /\ MainInv /\ EditInv /\ [Next]_vars => EditInv'
<1> SUFFICES ASSUME FlatTypes, Flags, MainInv, EditInv, [Next]_vars PROVE EditInv'
  OBVIOUS
<1> USE ServeAssumptions DEF FlatTypes, Flags, EditInv
<1>1. CASE Kill
  BY <1>1 DEF Kill, Dies, DisconnectAll
<1>2. ASSUME NEW f \in Files, Edit(f) PROVE EditInv'
  BY <1>2 DEF Edit, runtime, downstream, watching, upstream
<1>3. CASE WatcherLoads
  BY <1>3 DEF WatcherLoads, ReloadEnds, Loops, watcherIdle
<1>4. CASE Prepare
  BY <1>4 DEF Prepare, watching, upstream
<1>5. CASE Launch
  BY <1>5 DEF Launch, runtime, downstream, watching, upstream
<1>6. CASE Publish
  BY <1>6 DEF Publish, runtime, downstream, watching, upstream
<1>7. CASE Connect
  BY <1>7 DEF Connect, BeginsConnect, runtime, watching, upstream
<1>8. CASE Connected
  BY <1>8 DEF Connected, ConnectRefused, ConnectDone, FinishesTrack, RolledBack, runtime, watching,
     upstream
<1>9. CASE ConnectDies
  BY <1>9 DEF ConnectDies, Dies, DisconnectAll
<1>10. CASE Finish
  BY <1>10 DEF Finish, RolledBack, downstream, upstream, MainInv, Starting
<1>11. CASE Join
  BY <1>11 DEF Join, ending, downstream, Leaving
<1>12. CASE JoinDies
  BY <1>12 DEF JoinDies, Dies, DisconnectAll
<1>13. CASE StopHttp
  BY <1>13 DEF StopHttp, ending, downstream
<1>14. CASE Shutdown
  BY <1>14 DEF Shutdown, DisconnectAll, watching
<1>15. CASE Unlock
  BY <1>15 DEF Unlock, ending, downstream
<1>16. CASE WatcherPolls
  BY <1>16 DEF WatcherPolls, Loops, watcherIdle, downstream
<1>17. CASE Closed
  BY <1>17 DEF Closed, DisconnectAll, watcherIdle
<1>18. CASE Reconnect
  BY <1>18 DEF Reconnect, BeginsConnect, watcherIdle
<1>19. CASE Reconnected
  BY <1>19 DEF Reconnected, ConnectRefused, ConnectDone, FinishesTrack, watcherIdle, downstream
<1>20. CASE Refused
  BY <1>20 DEF Refused, ReloadEnds, Loops, watcherIdle
<1>21. CASE Notified
  BY <1>21 DEF Notified, ReloadEnds, Loops, watcherIdle, downstream
<1>22. CASE Stop
  BY <1>22 DEF Stop, runtime, downstream, watching, upstream
<1>23. CASE HttpEnds
  BY <1>23 DEF HttpEnds, runtime, downstream, watching, upstream
<1>24. ASSUME NEW c \in Clients, Proceed(c) PROVE EditInv'
  BY <1>24 DEF Proceed, clientIdle, downstream, runtime, watching
<1>25. ASSUME NEW c \in Clients, Dispatch(c) PROVE EditInv'
  BY <1>25 DEF Dispatch, clientIdle, downstream, runtime, watching
<1>26. ASSUME NEW c \in Clients, RecoveryFails(c) PROVE EditInv'
  BY <1>26 DEF RecoveryFails, clientIdle, downstream, runtime, watching
<1>27. ASSUME NEW c \in Clients, Recovers(c) PROVE EditInv'
  BY <1>27 DEF Recovers, clientIdle, runtime, watching
<1>28. ASSUME NEW c \in Clients, Answer(c) PROVE EditInv'
  BY <1>28 DEF Answer, clientIdle, downstream, runtime, watching
<1>29. ASSUME NEW c \in Clients, NEW token \in Tokens, Initialize(c, token) PROVE EditInv'
  BY <1>29 DEF Initialize, clientIdle, downstream, runtime, watching
<1>30. ASSUME NEW c \in Clients, NEW what \in Names \cup {"list"}, Request(c, what) PROVE EditInv'
  BY <1>30 DEF Request, clientIdle, downstream, runtime, watching
<1>31. CASE UNCHANGED vars
  BY <1>31 DEF vars, runtime, downstream, watching, upstream
<1>32. QED
  BY <1>1, <1>2, <1>3, <1>4, <1>5, <1>6, <1>7, <1>8, <1>9, <1>10, <1>11, <1>12, <1>13, <1>14,
     <1>15, <1>16, <1>17, <1>18, <1>19, <1>20, <1>21, <1>22, <1>23, <1>24, <1>25, <1>26, <1>27,
     <1>28, <1>29, <1>30, <1>31
  DEF Next, MainTask, WatcherTask, RequestTask

-----------------------------------------------------------------------------
(* The registry *)

\* r is what resolve_tools makes of file f, for the servers that answered.
Consistent(f, r) == \A s \in DOMAIN r : s \in DOMAIN Content[f].servers /\ r[s] = Resolved(f, s)

\* The registry belongs to the configuration in force, but for the time a reload closes the
\* sessions, when it still belongs to the one before; so does what a refused reload goes back to.
RegInv ==
  /\ ~detect_conflicts(registry) /\ ~detect_conflicts(old.registry)
  /\ config = "none" => registry = Empty
  /\ config # "none" /\ watcher # "closing" => Consistent(config, registry)
  /\ config # "none" /\ watcher = "closing" => Consistent(old.config, registry)
  /\ watcher \in {"closing", "between", "gather", "undo"} => Consistent(old.config, old.registry)

\* The empty registry belongs to every file and has no conflict.
LEMMA EmptyConsistent == ~detect_conflicts(Empty) /\ \A f : Consistent(f, Empty)
BY DEF detect_conflicts, Empty, Consistent

\* What connect_all publishes belongs to the file it read.
LEMMA PublishedConsistent ==
  ASSUME NEW f \in Files, NEW up \in SUBSET DOMAIN Content[f].servers
  PROVE  Consistent(f, Published(f, up))
BY DEF Consistent, Published

\* A file with the same servers has the same registry (on_config_changed returns early).
LEMMA SameServers ==
  ASSUME NEW f, NEW g, Content[f].servers = Content[g].servers, NEW r, Consistent(f, r)
  PROVE  Consistent(g, r)
BY DEF Consistent, Resolved

\* The registry of nothing is empty.
LEMMA NothingBack == NoOld.registry = Empty
BY DEF NoOld

\* Every step keeps the registry that of the file in force.
LEMMA RegStep == FlatTypes /\ Flags /\ RegistryTypes /\ MainInv /\ RegInv /\ [Next]_vars => RegInv'
<1> SUFFICES ASSUME FlatTypes, Flags, RegistryTypes, MainInv, RegInv, [Next]_vars PROVE RegInv'
  OBVIOUS
<1> USE EmptyConsistent, NothingBack DEF RegInv
<1>1. CASE Kill
  BY <1>1 DEF Kill, Dies, DisconnectAll, MainInv, Starting
<1>2. ASSUME NEW f \in Files, Edit(f) PROVE RegInv'
  BY <1>2 DEF Edit, runtime, downstream, watching, upstream
<1>3. CASE WatcherLoads
  <2>1. /\ UNCHANGED registry /\ watcher = "load" /\ config # "none"
    BY <1>3 DEF WatcherLoads, MainInv
  <2>2. CASE UNCHANGED <<config, old>> /\ watcher' \in {"ended", "sleep"}
    BY <2>1, <2>2
  <2>3. CASE /\ config' \in Files /\ Content[config'].servers = Content[config].servers
             /\ UNCHANGED old /\ watcher' \in {"ended", "sleep"}
    BY <2>1, <2>3, SameServers, ServeAssumptions
  <2>4. CASE /\ config' \in Files /\ old' = [config |-> config, registry |-> registry]
             /\ watcher' = "closing"
    BY <2>1, <2>4, ServeAssumptions
  <2>5. \/ UNCHANGED <<config, old>> /\ watcher' \in {"ended", "sleep"}
        \/ /\ config' \in Files /\ Content[config'].servers = Content[config].servers
           /\ UNCHANGED old /\ watcher' \in {"ended", "sleep"}
        \/ /\ config' \in Files /\ old' = [config |-> config, registry |-> registry]
           /\ watcher' = "closing"
    BY <1>3 DEF WatcherLoads, ReloadEnds, Loops, FlatTypes
  <2>6. QED
    BY <2>2, <2>3, <2>4, <2>5
<1>4. CASE Prepare
  BY <1>4 DEF Prepare, watching, upstream
<1>5. CASE Launch
  BY <1>5 DEF Launch, runtime, downstream, watching, upstream
<1>6. CASE Publish
  BY <1>6 DEF Publish, runtime, downstream, watching, upstream
<1>7. CASE Connect
  BY <1>7 DEF Connect, BeginsConnect, runtime, watching, upstream, MainInv, Starting
<1>8. CASE Connected
  <2>1. UNCHANGED <<config, watcher, old>> /\ config \in Files /\ watcher = "off"
    BY <1>8 DEF Connected, runtime, watching, FlatTypes, MainInv, Starting, Ended
  <2>2. PICK up \in SUBSET Configured : ConnectRefused(config, up) \/ ConnectDone(config, up)
    BY <1>8 DEF Connected
  <2>3. CASE ConnectRefused(config, up)
    BY <2>1, <2>3 DEF ConnectRefused
  <2>4. CASE ConnectDone(config, up)
    <3>1. registry' = Published(config, up) /\ ~detect_conflicts(Published(config, up))
      BY <2>4 DEF ConnectDone, ConnectConflicts
    <3>2. Consistent(config, Published(config, up))
      BY <2>1, PublishedConsistent, ServeAssumptions DEF Configured
    <3>3. QED
      BY <2>1, <3>1, <3>2, ServeAssumptions
  <2>5. QED
    BY <2>2, <2>3, <2>4
<1>9. CASE ConnectDies
  BY <1>9 DEF ConnectDies, Dies, DisconnectAll, MainInv, Starting
<1>10. CASE Finish
  BY <1>10 DEF Finish, RolledBack, downstream, upstream, MainInv, Starting
<1>11. CASE Join
  BY <1>11 DEF Join, ending, downstream, MainInv, Starting
<1>12. CASE JoinDies
  BY <1>12 DEF JoinDies, Dies, DisconnectAll, MainInv, Starting
<1>13. CASE StopHttp
  BY <1>13 DEF StopHttp, ending, downstream
<1>14. CASE Shutdown
  BY <1>14 DEF Shutdown, DisconnectAll, watching, MainInv, Starting
<1>15. CASE Unlock
  BY <1>15 DEF Unlock, ending, downstream
<1>16. CASE WatcherPolls
  BY <1>16 DEF WatcherPolls, Loops, watcherIdle, downstream, MainInv, Starting
<1>17. CASE Closed
  BY <1>17 DEF Closed, DisconnectAll, watcherIdle, MainInv, Starting
<1>18. CASE Reconnect
  BY <1>18 DEF Reconnect, BeginsConnect, watcherIdle, MainInv, Starting
<1>19. CASE Reconnected
  <2>1. /\ UNCHANGED <<config, old>> /\ config \in Files
        /\ watcher = "gather" /\ watcher' \in {"raised", "undo", "notify"}
    BY <1>19 DEF Reconnected, FlatTypes, MainInv
  <2>2. PICK up \in SUBSET Configured :
          UNCHANGED downstream \/ ConnectRefused(config, up) \/ ConnectDone(config, up)
    BY <1>19 DEF Reconnected
  <2>3. CASE UNCHANGED downstream
    BY <2>1, <2>3 DEF downstream
  <2>4. CASE ConnectRefused(config, up)
    BY <2>1, <2>4 DEF ConnectRefused
  <2>5. CASE ConnectDone(config, up)
    <3>1. registry' = Published(config, up) /\ ~detect_conflicts(Published(config, up))
      BY <2>5 DEF ConnectDone, ConnectConflicts
    <3>2. Consistent(config, Published(config, up))
      BY <2>1, PublishedConsistent, ServeAssumptions DEF Configured
    <3>3. QED
      BY <2>1, <3>1, <3>2, ServeAssumptions
  <2>6. QED
    BY <2>2, <2>3, <2>4, <2>5
<1>20. CASE Refused
  <2>1. /\ watcher = "undo" /\ watcher' \in {"sleep", "ended"}
        /\ config' = old.config /\ registry' = old.registry /\ old' = NoOld
    BY <1>20 DEF Refused, ReloadEnds, Loops
  <2>2. config' # "none"
    BY <2>1, ServeAssumptions DEF MainInv
  <2>3. QED
    BY <2>1, <2>2
<1>21. CASE Notified
  BY <1>21 DEF Notified, ReloadEnds, Loops, watcherIdle, downstream, MainInv, Starting
<1>22. CASE Stop
  BY <1>22 DEF Stop, runtime, downstream, watching, upstream
<1>23. CASE HttpEnds
  BY <1>23 DEF HttpEnds, runtime, downstream, watching, upstream
<1>24. ASSUME NEW c \in Clients, Proceed(c) PROVE RegInv'
  BY <1>24 DEF Proceed, clientIdle, downstream, runtime, watching
<1>25. ASSUME NEW c \in Clients, Dispatch(c) PROVE RegInv'
  BY <1>25 DEF Dispatch, clientIdle, downstream, runtime, watching
<1>26. ASSUME NEW c \in Clients, RecoveryFails(c) PROVE RegInv'
  BY <1>26 DEF RecoveryFails, clientIdle, downstream, runtime, watching
<1>27. ASSUME NEW c \in Clients, Recovers(c) PROVE RegInv'
  <2>1. UNCHANGED <<config, watcher, old>> /\ watcher # "closing"
    BY <1>27 DEF Recovers, clientIdle, runtime, watching, Locked
  <2>2. PICK s \in Configured :
          /\ registry' = [x \in DOMAIN registry \cup {s} |->
                            IF x = s THEN Resolved(config, s) ELSE registry[x]]
          /\ ~detect_conflicts(registry')
    BY <1>27 DEF Recovers
  <2>3. config # "none" /\ s \in DOMAIN Content[config].servers
    BY DEF Configured
  <2>4. Consistent(config, registry')
    BY <2>1, <2>2, <2>3 DEF Consistent
  <2>5. QED
    BY <2>1, <2>2, <2>3, <2>4
<1>28. ASSUME NEW c \in Clients, Answer(c) PROVE RegInv'
  BY <1>28 DEF Answer, clientIdle, downstream, runtime, watching
<1>29. ASSUME NEW c \in Clients, NEW token \in Tokens, Initialize(c, token) PROVE RegInv'
  BY <1>29 DEF Initialize, clientIdle, downstream, runtime, watching
<1>30. ASSUME NEW c \in Clients, NEW what \in Names \cup {"list"}, Request(c, what) PROVE RegInv'
  BY <1>30 DEF Request, clientIdle, downstream, runtime, watching
<1>31. CASE UNCHANGED vars
  BY <1>31 DEF vars, runtime, downstream, watching, upstream
<1>32. QED
  BY <1>1, <1>2, <1>3, <1>4, <1>5, <1>6, <1>7, <1>8, <1>9, <1>10, <1>11, <1>12, <1>13, <1>14,
     <1>15, <1>16, <1>17, <1>18, <1>19, <1>20, <1>21, <1>22, <1>23, <1>24, <1>25, <1>26, <1>27,
     <1>28, <1>29, <1>30, <1>31
  DEF Next, MainTask, WatcherTask, RequestTask

-----------------------------------------------------------------------------
(* Requests *)

\* TypeOK's last part: the connections and their requests.
RequestTypes == bound \in [Clients -> Profiles \cup {"unset"}] /\ req \in [Clients -> Requests]

\* The default profile is a profile of the file, if there is one.
LEMMA DefaultProfile ==
  ASSUME NEW f \in Files, NEW cli
  PROVE  resolve_open_mode_default_profile(Content[f], cli) \in DOMAIN Content[f].profiles \cup {"unset"}
<1> DEFINE D == Defaults(Content[f])
<1>1. ASSUME Cardinality(D) = 1 PROVE (CHOOSE p \in D : TRUE) \in DOMAIN Content[f].profiles
  <2>1. D # {}
    BY <1>1, FS_EmptySet
  <2>2. D \subseteq DOMAIN Content[f].profiles
    BY DEF Defaults
  <2>3. QED
    BY <2>1, <2>2
<1>2. QED
  BY <1>1 DEF resolve_open_mode_default_profile

\* A connection is bound to a profile of the file in force, or to none.
LEMMA BindingProfile ==
  ASSUME NEW f \in Files, NEW cli, NEW given, NEW token
  PROVE  Binding(Content[f], resolve_open_mode_default_profile(Content[f], cli), given, token)
           \in Profiles \cup {"unset"}
<1>1. DOMAIN Content[f].profiles \subseteq Profiles
  BY DEF Profiles
<1>2. QED
  BY <1>1, DefaultProfile DEF Binding

\* A client without a request.
LEMMA IdleRequest == Idle \in Requests /\ Idle.st = "idle" /\ Idle.tool = {}
BY DEF Idle, Requests

\* What becomes of a request whose state or whose age changes.
LEMMA RequestChanges ==
  ASSUME NEW q \in Requests
  PROVE  /\ \A st : [q EXCEPT !.st = st].tool = q.tool /\ [q EXCEPT !.st = st].stale = q.stale
                    /\ [q EXCEPT !.st = st].st = st
                    /\ (st \in {"idle", "wait", "queued", "ahead", "recover", "sent"} =>
                          [q EXCEPT !.st = st] \in Requests)
         /\ \A b : [q EXCEPT !.stale = b].tool = q.tool /\ [q EXCEPT !.stale = b].st = q.st
                   /\ [q EXCEPT !.stale = b].stale = b
                   /\ (b \in BOOLEAN => [q EXCEPT !.stale = b] \in Requests)
BY DEF Requests

\* A reload that begins or is refused marks the requests under way, and changes nothing else.
LEMMA StaleRequests ==
  ASSUME RequestTypes, MarksStale
  PROVE  /\ req' \in [Clients -> Requests]
         /\ \A c \in Clients : /\ req'[c].st = req[c].st /\ req'[c].tool = req[c].tool
                               /\ req'[c].stale = (req[c].st # "idle")
<1> DEFINE aged(c) == req[c].st # "idle"
           marked(c) == [req[c] EXCEPT !.stale = aged(c)]
<1>1. \A c \in Clients : aged(c) \in BOOLEAN /\ req[c] \in Requests
  BY DEF RequestTypes
<1>2. req' = [c \in Clients |-> marked(c)]
  BY DEF MarksStale
<1> HIDE DEF aged
<1>3. \A c \in Clients : /\ marked(c) \in Requests /\ marked(c).stale = aged(c)
                         /\ marked(c).st = req[c].st /\ marked(c).tool = req[c].tool
  BY <1>1 DEF Requests
<1> HIDE DEF marked
<1>4. QED
  BY <1>2, <1>3 DEF aged

\* What becomes of the request that a step moves on.
LEMMA BecomesRequest ==
  ASSUME RequestTypes, NEW c \in Clients, NEW st \in {"idle", "recover", "sent"}, Becomes(c, st)
  PROVE  /\ req' \in [Clients -> Requests]
         /\ req'[c].st = st /\ (st = "idle" => req'[c].tool = {})
         /\ st # "idle" => req'[c].tool = req[c].tool /\ req'[c].stale = req[c].stale
         /\ \A d \in Clients : d # c => req'[d] = req[d]
<1>1. req[c] \in Requests /\ req \in [Clients -> Requests]
  BY DEF RequestTypes
<1>2. CASE st = "idle"
  BY <1>1, <1>2, IdleRequest DEF Becomes
<1>3. CASE st # "idle"
  <2>1. req' = [req EXCEPT ![c] = [req[c] EXCEPT !.st = st]]
    BY <1>3 DEF Becomes
  <2>2. [req[c] EXCEPT !.st = st] \in Requests
    BY <1>1, RequestChanges
  <2>3. QED
    BY <1>1, <1>3, <2>1, <2>2, RequestChanges
<1>4. QED
  BY <1>2, <1>3

\* The calls that have queued while a reload closed the sessions come ahead of connect_all.
LEMMA ClosedRequests ==
  ASSUME RequestTypes, Closed
  PROVE  /\ req' \in [Clients -> Requests]
         /\ \A c \in Clients :
              /\ req'[c].tool = req[c].tool /\ req'[c].stale = req[c].stale
              /\ req'[c].st = IF req[c].st = "queued" THEN "ahead" ELSE req[c].st
<1>1. \A c \in Clients : req[c] \in Requests
  BY DEF RequestTypes
<1> DEFINE st(c) == IF req[c].st = "queued" THEN "ahead" ELSE req[c].st
           moved(c) == [req[c] EXCEPT !.st = st(c)]
<1>2. req' = [c \in Clients |-> moved(c)]
  BY DEF Closed
<1>3. \A c \in Clients : st(c) \in {"idle", "wait", "queued", "ahead", "recover", "sent"}
  BY <1>1 DEF Requests
<1> HIDE DEF st
<1>4. \A c \in Clients : /\ moved(c) \in Requests /\ moved(c).st = st(c)
                         /\ moved(c).stale = req[c].stale /\ moved(c).tool = req[c].tool
  BY <1>1, <1>3 DEF Requests
<1> HIDE DEF moved
<1>5. QED
  BY <1>2, <1>4 DEF st

\* The states of an admitted call.
Busy == {"queued", "ahead", "recover", "sent"}
\* The configuration in force grants client c the tool t.
Grant(c, t) ==
  /\ t.server \in Configured /\ t \in Resolved(config, t.server)
  /\ bound[c] \in DOMAIN Content[config].profiles
  /\ enforce(t, Content[config].profiles[bound[c]], DefaultPosture(Content[config], t.server)) = "allow"
\* A call that was admitted is for one tool, which the configuration in force still grants unless
\* a reload has come between.
CallInv ==
  \A c \in Clients :
    /\ req[c].st \notin Busy => req[c].tool = {}
    /\ req[c].st \in Busy =>
         \E t \in Tools : req[c].tool = {t} /\ (~req[c].stale /\ config # "none" => Grant(c, t))

\* CallInv reads three variables only.
LEMMA CallsKept ==
  ASSUME CallInv, UNCHANGED <<config, bound, req>>
  PROVE  CallInv'
BY DEF CallInv, Grant, Configured

\* Once a reload has marked them, the requests under way owe nothing to the new configuration.
LEMMA CallsAged ==
  ASSUME RequestTypes, CallInv, MarksStale
  PROVE  CallInv'
BY StaleRequests DEF CallInv, Busy

\* A request that ends, or a process that ends, owes nothing.
LEMMA CallsEnd ==
  ASSUME CallInv, \A c \in Clients : req'[c] = req[c] \/ req'[c] = Idle,
         UNCHANGED <<config, bound>> \/ config' = "none"
  PROVE  CallInv'
BY IdleRequest DEF CallInv, Busy, Grant, Configured

\* An exposed name has one tool.
LEMMA OneTool ==
  ASSUME FlatTypes, MainInv, RegInv, config # "none", NEW name,
         NEW t \in Registered(name), NEW u \in Registered(name)
  PROVE  t = u
<1>1. PICK a \in DOMAIN registry : t \in registry[a] /\ t.name = name
  BY DEF Registered
<1>2. PICK b \in DOMAIN registry : u \in registry[b] /\ u.name = name
  BY DEF Registered
<1>3. a = b
  BY <1>1, <1>2 DEF RegInv, detect_conflicts
<1>4. PICK f \in Files : a \in DOMAIN Content[f].servers /\ registry[a] = Resolved(f, a)
  <2>1. CASE watcher = "closing"
    BY <2>1 DEF RegInv, MainInv, Consistent
  <2>2. CASE watcher # "closing"
    BY <2>2 DEF RegInv, FlatTypes, Consistent
  <2>3. QED
    BY <2>1, <2>2
<1> DEFINE s == Content[f].servers[a]
           tool(raw) == [name |-> Exposed(s.prefix, raw), raw |-> raw, server |-> a,
                         family |-> resolve_family(raw, s, a),
                         posture |-> classify_tool(raw, s, Offer[a][raw])]
<1>5. PICK x \in Kept(s, Offer[a]) : t = tool(x)
  BY <1>1, <1>4 DEF Resolved, resolve_tools
<1>6. PICK y \in Kept(s, Offer[a]) : u = tool(y)
  BY <1>2, <1>3, <1>4 DEF Resolved, resolve_tools
<1>7. Exposed(s.prefix, x) = name /\ Exposed(s.prefix, y) = name
  BY <1>1, <1>2, <1>5, <1>6
<1>8. x = y
  BY <1>4, <1>7, PrefixAssumption DEF Kept
<1>9. QED
  BY <1>5, <1>6, <1>8

\* What handle_tools_call admits.
LEMMA AdmittedTool ==
  ASSUME FlatTypes, RegistryTypes, MainInv, RegInv, config # "none", NEW c \in Clients,
         Admitted(c) # {}
  PROVE  \E t \in Tools : Admitted(c) = {t} /\ (~Reloading => Grant(c, t))
<1>1. PICK t \in Admitted(c) : TRUE
  OBVIOUS
<1>2. Admitted(c) = {t}
  BY <1>1, OneTool DEF Admitted
<1>3. PICK s \in DOMAIN registry : t \in registry[s]
  BY <1>1 DEF Admitted, Registered
<1>4. t \in Tools
  BY <1>3, IsRegistry DEF RegistryTypes
<1>5. ASSUME ~Reloading PROVE Grant(c, t)
  <2>1. config \in Files /\ s \in DOMAIN Content[config].servers /\ registry[s] = Resolved(config, s)
    BY <1>5 DEF Reloading, RegInv, Consistent, FlatTypes
  <2>2. t.server = s
    BY <1>3, <2>1 DEF Resolved, resolve_tools
  <2>3. Configured = DOMAIN Content[config].servers
    BY <2>1, ServeAssumptions DEF Configured
  <2>4. /\ bound[c] \in DOMAIN Content[config].profiles
        /\ enforce(t, Content[config].profiles[bound[c]], DefaultPosture(Content[config], t.server))
             = "allow"
    BY <1>1 DEF Admitted
  <2>5. QED
    BY <1>3, <2>1, <2>2, <2>3, <2>4 DEF Grant
<1>6. QED
  BY <1>2, <1>4, <1>5

\* Every step keeps the calls that are under way granted.
LEMMA RequestStep ==
  FlatTypes /\ Flags /\ RegistryTypes /\ MainInv /\ RegInv /\ RequestTypes /\ CallInv /\ [Next]_vars
    => (RequestTypes /\ CallInv)'
<1> SUFFICES ASSUME FlatTypes, Flags, RegistryTypes, MainInv, RegInv, RequestTypes, CallInv, [Next]_vars
             PROVE  (RequestTypes /\ CallInv)'
  OBVIOUS
<1>1. CASE Kill
  <2>1. config' = "none" /\ bound' = [c \in Clients |-> "unset"] /\ req' = [c \in Clients |-> Idle]
    BY <1>1 DEF Kill, Dies
  <2>2. QED
    BY <2>1, CallsEnd, IdleRequest DEF RequestTypes
<1>2. ASSUME NEW f \in Files, Edit(f) PROVE (RequestTypes /\ CallInv)'
  <2>1. UNCHANGED <<config, bound, req>>
    BY <1>2 DEF Edit, runtime, downstream, watching, upstream
  <2>2. QED
    BY <2>1, CallsKept DEF RequestTypes
<1>3. CASE WatcherLoads
  <2>1. UNCHANGED bound
    BY <1>3 DEF WatcherLoads, watcherIdle
  <2>2. CASE UNCHANGED <<config, req>>
    BY <2>1, <2>2, CallsKept DEF RequestTypes
  <2>3. CASE MarksStale
    BY <2>1, <2>3, CallsAged, StaleRequests DEF RequestTypes
  <2>4. QED
    BY <1>3, <2>2, <2>3 DEF WatcherLoads
<1>4. CASE Prepare
  <2>1. UNCHANGED <<config, bound, req>>
    BY <1>4 DEF Prepare, watching, upstream
  <2>2. QED
    BY <2>1, CallsKept DEF RequestTypes
<1>5. CASE Launch
  <2>1. UNCHANGED <<config, bound, req>>
    BY <1>5 DEF Launch, runtime, downstream, watching, upstream
  <2>2. QED
    BY <2>1, CallsKept DEF RequestTypes
<1>6. CASE Publish
  <2>1. UNCHANGED <<config, bound, req>>
    BY <1>6 DEF Publish, runtime, downstream, watching, upstream
  <2>2. QED
    BY <2>1, CallsKept DEF RequestTypes
<1>7. CASE Connect
  <2>1. UNCHANGED <<config, bound, req>>
    BY <1>7 DEF Connect, BeginsConnect, runtime, watching, upstream
  <2>2. QED
    BY <2>1, CallsKept DEF RequestTypes
<1>8. CASE Connected
  <2>1. UNCHANGED <<config, bound, req>>
    BY <1>8 DEF Connected, ConnectRefused, ConnectDone, FinishesTrack, RolledBack, runtime,
     watching, upstream
  <2>2. QED
    BY <2>1, CallsKept DEF RequestTypes
<1>9. CASE ConnectDies
  <2>1. config' = "none" /\ bound' = [c \in Clients |-> "unset"] /\ req' = [c \in Clients |-> Idle]
    BY <1>9 DEF ConnectDies, Dies
  <2>2. QED
    BY <2>1, CallsEnd, IdleRequest DEF RequestTypes
<1>10. CASE Finish
  <2>1. UNCHANGED <<config, bound, req>>
    BY <1>10 DEF Finish, RolledBack, downstream, upstream
  <2>2. QED
    BY <2>1, CallsKept DEF RequestTypes
<1>11. CASE Join
  <2>1. UNCHANGED <<config, bound, req>>
    BY <1>11 DEF Join, ending, downstream
  <2>2. QED
    BY <2>1, CallsKept DEF RequestTypes
<1>12. CASE JoinDies
  <2>1. config' = "none" /\ bound' = [c \in Clients |-> "unset"] /\ req' = [c \in Clients |-> Idle]
    BY <1>12 DEF JoinDies, Dies
  <2>2. QED
    BY <2>1, CallsEnd, IdleRequest DEF RequestTypes
<1>13. CASE StopHttp
  <2>1. UNCHANGED <<config, bound>> /\ req' \in {req, [c \in Clients |-> Idle]}
    BY <1>13 DEF StopHttp, ending
  <2>2. QED
    BY <2>1, CallsEnd, IdleRequest DEF RequestTypes
<1>14. CASE Shutdown
  <2>1. config' = "none" /\ bound' = [c \in Clients |-> "unset"] /\ UNCHANGED req
    BY <1>14 DEF Shutdown
  <2>2. QED
    BY <2>1, CallsEnd DEF RequestTypes
<1>15. CASE Unlock
  <2>1. UNCHANGED <<config, bound, req>>
    BY <1>15 DEF Unlock, ending, downstream
  <2>2. QED
    BY <2>1, CallsKept DEF RequestTypes
<1>16. CASE WatcherPolls
  <2>1. UNCHANGED <<config, bound, req>>
    BY <1>16 DEF WatcherPolls, Loops, watcherIdle, downstream
  <2>2. QED
    BY <2>1, CallsKept DEF RequestTypes
<1>17. CASE Closed
  <2>1. UNCHANGED <<config, bound>>
    BY <1>17 DEF Closed, watcherIdle
  <2>2. QED
    BY <1>17, <2>1, ClosedRequests DEF RequestTypes, CallInv, Busy, Grant, Configured
<1>18. CASE Reconnect
  <2>1. UNCHANGED <<config, bound, req>>
    BY <1>18 DEF Reconnect, BeginsConnect, watcherIdle
  <2>2. QED
    BY <2>1, CallsKept DEF RequestTypes
<1>19. CASE Reconnected
  <2>1. UNCHANGED <<config, bound, req>>
    BY <1>19 DEF Reconnected, ConnectRefused, ConnectDone, FinishesTrack, watcherIdle, downstream
  <2>2. QED
    BY <2>1, CallsKept DEF RequestTypes
<1>20. CASE Refused
  <2>1. UNCHANGED bound /\ MarksStale
    BY <1>20 DEF Refused, watcherIdle
  <2>2. QED
    BY <2>1, CallsAged, StaleRequests DEF RequestTypes
<1>21. CASE Notified
  <2>1. UNCHANGED <<config, bound, req>>
    BY <1>21 DEF Notified, ReloadEnds, Loops, watcherIdle, downstream
  <2>2. QED
    BY <2>1, CallsKept DEF RequestTypes
<1>22. CASE Stop
  <2>1. UNCHANGED <<config, bound, req>>
    BY <1>22 DEF Stop, runtime, downstream, watching, upstream
  <2>2. QED
    BY <2>1, CallsKept DEF RequestTypes
<1>23. CASE HttpEnds
  <2>1. UNCHANGED <<config, bound, req>>
    BY <1>23 DEF HttpEnds, runtime, downstream, watching, upstream
  <2>2. QED
    BY <2>1, CallsKept DEF RequestTypes
<1>24. ASSUME NEW c \in Clients, Proceed(c) PROVE (RequestTypes /\ CallInv)'
  <2>1. UNCHANGED <<config, bound>> /\ config # "none"
    BY <1>24 DEF Proceed, clientIdle, runtime, MainInv
  <2>2. CASE req' = [req EXCEPT ![c] = Idle]
    BY <2>1, <2>2, CallsEnd, IdleRequest DEF RequestTypes
  <2>3. CASE /\ Admitted(c) # {}
             /\ req' = [req EXCEPT ![c] = [@ EXCEPT !.st = "queued", !.tool = Admitted(c),
                                                    !.stale = Reloading]]
    <3> DEFINE q == [req[c] EXCEPT !.st = "queued", !.tool = Admitted(c), !.stale = Reloading]
    <3>1. PICK t \in Tools : Admitted(c) = {t} /\ (~Reloading => Grant(c, t))
      BY <2>1, <2>3, AdmittedTool
    <3>2. Reloading \in BOOLEAN
      BY DEF Reloading
    <3>3. q \in Requests /\ q.st = "queued" /\ q.tool = {t} /\ q.stale = Reloading
      BY <3>1, <3>2 DEF RequestTypes, Requests
    <3>4. req' = [req EXCEPT ![c] = q]
      BY <2>3
    <3> HIDE DEF q
    <3>5. req' \in [Clients -> Requests] /\ req'[c] = q /\ \A d \in Clients : d # c => req'[d] = req[d]
      BY <3>3, <3>4 DEF RequestTypes
    <3>6. CallInv'
      BY <2>1, <3>1, <3>3, <3>5 DEF CallInv, Busy, Grant, Configured
    <3>7. QED
      BY <2>1, <3>5, <3>6 DEF RequestTypes
  <2>4. QED
    BY <1>24, <2>2, <2>3 DEF Proceed
<1>25. ASSUME NEW c \in Clients, Dispatch(c) PROVE (RequestTypes /\ CallInv)'
  <2>1. UNCHANGED <<config, bound>> /\ req[c].st \in Busy
    BY <1>25 DEF Dispatch, clientIdle, runtime, Busy
  <2>2. PICK st \in {"idle", "recover", "sent"} : Becomes(c, st)
    BY <1>25 DEF Dispatch
  <2>3. QED
    BY <2>1, <2>2, BecomesRequest DEF RequestTypes, CallInv, Busy, Grant, Configured
<1>26. ASSUME NEW c \in Clients, RecoveryFails(c) PROVE (RequestTypes /\ CallInv)'
  <2>1. UNCHANGED <<config, bound>> /\ req[c].st \in Busy
    BY <1>26 DEF RecoveryFails, clientIdle, runtime, Busy
  <2>2. PICK st \in {"idle", "recover", "sent"} : Becomes(c, st)
    BY <1>26 DEF RecoveryFails
  <2>3. QED
    BY <2>1, <2>2, BecomesRequest DEF RequestTypes, CallInv, Busy, Grant, Configured
<1>27. ASSUME NEW c \in Clients, Recovers(c) PROVE (RequestTypes /\ CallInv)'
  <2>1. UNCHANGED <<config, bound>> /\ req[c].st \in Busy
    BY <1>27 DEF Recovers, clientIdle, runtime, Busy
  <2>2. PICK st \in {"idle", "recover", "sent"} : Becomes(c, st)
    BY <1>27 DEF Recovers
  <2>3. QED
    BY <2>1, <2>2, BecomesRequest DEF RequestTypes, CallInv, Busy, Grant, Configured
<1>28. ASSUME NEW c \in Clients, Answer(c) PROVE (RequestTypes /\ CallInv)'
  <2>1. UNCHANGED <<config, bound>> /\ req[c].st \in Busy
    BY <1>28 DEF Answer, clientIdle, runtime, Busy
  <2>2. PICK st \in {"idle", "recover", "sent"} : Becomes(c, st)
    BY <1>28 DEF Answer
  <2>3. QED
    BY <2>1, <2>2, BecomesRequest DEF RequestTypes, CallInv, Busy, Grant, Configured
<1>29. ASSUME NEW c \in Clients, NEW token \in Tokens, Initialize(c, token)
       PROVE (RequestTypes /\ CallInv)'
  <2>1. config \in Files /\ req[c].st = "idle" /\ UNCHANGED <<config, req>>
    BY <1>29 DEF Initialize, PostAdmitted, FlatTypes, clientIdle, runtime
  <2>2. PICK p \in Profiles \cup {"unset"} : bound' = [bound EXCEPT ![c] = p]
    BY <1>29, <2>1, BindingProfile DEF Initialize
  <2>3. bound' \in [Clients -> Profiles \cup {"unset"}] /\ \A d \in Clients : d # c => bound'[d] = bound[d]
    BY <2>2 DEF RequestTypes
  <2>4. CallInv'
    BY <2>1, <2>3 DEF CallInv, Busy, Grant, Configured
  <2>5. QED
    BY <2>1, <2>3, <2>4 DEF RequestTypes
<1>30. ASSUME NEW c \in Clients, NEW what \in Names \cup {"list"}, Request(c, what)
       PROVE (RequestTypes /\ CallInv)'
  <2> DEFINE q == [Idle EXCEPT !.st = "wait", !.what = what]
  <2>1. UNCHANGED <<config, bound>> /\ req' = [req EXCEPT ![c] = q]
    BY <1>30 DEF Request, clientIdle, runtime
  <2>2. q \in Requests /\ q.st = "wait" /\ q.tool = {}
    BY <1>30 DEF Idle, Requests
  <2> HIDE DEF q
  <2>3. QED
    BY <2>1, <2>2 DEF RequestTypes, CallInv, Busy, Grant, Configured
<1>31. CASE UNCHANGED vars
  <2>1. UNCHANGED <<config, bound, req>>
    BY <1>31 DEF vars
  <2>2. QED
    BY <2>1, CallsKept DEF RequestTypes
<1>32. QED
  BY <1>1, <1>2, <1>3, <1>4, <1>5, <1>6, <1>7, <1>8, <1>9, <1>10, <1>11, <1>12, <1>13, <1>14,
     <1>15, <1>16, <1>17, <1>18, <1>19, <1>20, <1>21, <1>22, <1>23, <1>24, <1>25, <1>26, <1>27,
     <1>28, <1>29, <1>30, <1>31
  DEF Next, MainTask, WatcherTask, RequestTask

-----------------------------------------------------------------------------
(* The theorems *)

\* What every reachable state satisfies.
ServeInv ==
  /\ FlatTypes /\ Flags /\ RegistryTypes /\ RequestTypes
  /\ MainInv /\ RegInv /\ CallInv /\ EditInv

\* The first state of the process satisfies the invariant.
LEMMA ServeInit == Init => ServeInv
<1> SUFFICES ASSUME Init PROVE ServeInv
  OBVIOUS
<1>1. PICK f \in Deployed :
        /\ Loads(f, CliDefault) /\ disk = [file |-> f, mtime |-> 0] /\ config = f
        /\ pinned = IF CliDefault # "unset" \/ Content[f].mode = "token" THEN CliDefault
                    ELSE resolve_open_mode_default_profile(Content[f], "unset")
  BY DEF Init
<1>2. f \in Files /\ f # "none"
  BY ServeAssumptions
<1>3. pinned \in Profiles \cup {"unset", CliDefault}
  <2>1. DOMAIN Content[f].profiles \subseteq Profiles
    BY <1>2 DEF Profiles
  <2>2. QED
    BY <1>1, <1>2, <2>1, DefaultProfile
<1>4. Flags /\ RegistryTypes /\ RequestTypes
  BY EmptyRegistry, Nothing, IdleRequest
  DEF Init, Flags, RegistryTypes, RequestTypes, Olds, NoTrack, Tracks
<1>5. FlatTypes
  BY <1>1, <1>2, <1>3, ServeAssumptions DEF Init, FlatTypes, Starting
<1>6. MainInv /\ EditInv
  BY <1>1, <1>2 DEF Init, MainInv, EditInv, Starting, Ended
<1>7. RegInv /\ CallInv
  BY EmptyConsistent, NothingBack, IdleRequest DEF Init, RegInv, CallInv, Busy
<1>8. QED
  BY <1>4, <1>5, <1>6, <1>7 DEF ServeInv

\* Every step keeps the invariant.
LEMMA ServeStep == ServeInv /\ [Next]_vars => ServeInv'
BY FlagsStep, MainStep, FlatStep, RegistryStep, EditStep, RegStep, RequestStep DEF ServeInv

\* The invariant of the process.
LEMMA ServeInvariant == Spec => []ServeInv
BY ServeInit, ServeStep, PTL DEF Spec

\* Every variable of the process has its type; in particular the profile of a connection is a
\* profile of some file that was in force (resolve_initialize_profile_binding), and a request is
\* for one tool at most (detect_conflicts, get_tool).
THEOREM ServeTypes == Spec => []TypeOK
<1>1. ASSUME ServeInv, NEW c \in Clients PROVE Cardinality(req[c].tool) <= 1
  <2>1. req[c].tool = {} \/ \E t \in Tools : req[c].tool = {t}
    BY <1>1 DEF ServeInv, CallInv
  <2>2. CASE req[c].tool = {}
    <3>1. Cardinality({}) = 0
      BY FS_EmptySet
    <3>2. QED
      BY <2>2, <3>1
  <2>3. ASSUME NEW t \in Tools, req[c].tool = {t} PROVE Cardinality(req[c].tool) <= 1
    <3>1. Cardinality({t}) = 1
      BY FS_Singleton
    <3>2. QED
      BY <2>3, <3>1
  <2>4. QED
    BY <2>1, <2>2, <2>3
<1>2. ServeInv => TypeOK
  BY <1>1 DEF ServeInv, FlatTypes, Flags, RegistryTypes, RequestTypes, TypeOK
<1>3. QED
  BY <1>2, ServeInvariant, PTL

\* No edit of the configuration file is lost to the watcher, whatever reload it fell into
\* (watch_config_changes keeps the mtime it read before the load).
THEOREM EditsNoticed == Spec => []EditNoticed
<1>1. ServeInv => EditNoticed
  BY DEF ServeInv, EditInv, EditNoticed
<1>2. QED
  BY <1>1, ServeInvariant, PTL

\* A failed startup withdraws the lockfile before anything is torn down, and a process that ends
\* with a result leaves nothing (_run_serve_gateway).
THEOREM ExitsCleanly == Spec => []CleanExit
<1>1. ServeInv => CleanExit
  BY DEF ServeInv, FlatTypes, MainInv, CleanExit, Starting, Ended
<1>2. QED
  BY <1>1, ServeInvariant, PTL

\* A call reaches a downstream server only if the configuration in force grants it, or a reload
\* overlapped it (handle_tools_call, call_tool, on_config_changed).
THEOREM CallsAuthorized == Spec => []CallAuthorized
<1> SUFFICES ASSUME ServeInv, NEW c \in Clients,
                    req[c].st = "sent", ~req[c].stale, main \notin Ended \cup {"unlock"}
             PROVE  /\ ToolOf(c).server \in Configured /\ bound[c] \in DOMAIN Content[config].profiles
                    /\ MayUse(Content[config], bound[c], ToolOf(c).server, ToolOf(c).raw,
                              Offer[ToolOf(c).server])
  <2>1. ServeInv => CallAuthorized
    BY DEF CallAuthorized
  <2>2. QED
    BY <2>1, ServeInvariant, PTL
<1>1. config \in Files
  BY DEF ServeInv, FlatTypes, MainInv
<1>2. PICK t \in Tools : req[c].tool = {t} /\ Grant(c, t)
  BY <1>1, ServeAssumptions DEF ServeInv, CallInv, Busy
<1>3. ToolOf(c) = t
  BY <1>2 DEF ToolOf
<1>4. IsConfig(Content[config]) /\ Configured = DOMAIN Content[config].servers
  BY <1>1, ServeAssumptions DEF Configured
<1>5. PICK raw \in Kept(Content[config].servers[t.server], Offer[t.server]) :
        t = ToolFor(Content[config], t.server, raw, Offer[t.server])
  BY <1>2 DEF Grant, Resolved, resolve_tools, ToolFor
<1>6. t.raw = raw
  BY <1>5 DEF ToolFor
<1>7. MayUse(Content[config], bound[c], t.server, raw, Offer[t.server])
  <2> DEFINE s == t.server
  <2>1. s \in DOMAIN Content[config].servers /\ bound[c] \in DOMAIN Content[config].profiles
    BY <1>2, <1>4 DEF Grant
  <2>2. enforce(ToolFor(Content[config], s, raw, Offer[s]), Content[config].profiles[bound[c]],
                DefaultPosture(Content[config], s)) = "allow"
    BY <1>2, <1>5 DEF Grant
  <2>3. QED
    BY <1>4, <1>5, <2>1, <2>2, EnforceIsMayUse
<1>8. QED
  BY <1>2, <1>3, <1>6, <1>7 DEF Grant

\* With no reload under way the registry belongs to the file in force.
LEMMA SettledRegistry ==
  ASSUME ServeInv, Settled
  PROVE  /\ config \in Files /\ IsConfig(Content[config]) /\ Configured = DOMAIN Content[config].servers
         /\ DOMAIN registry \subseteq Configured /\ Consistent(config, registry)
<1>1. config \in Files /\ Consistent(config, registry)
  BY DEF ServeInv, Settled, FlatTypes, MainInv, RegInv, Ended
<1>2. IsConfig(Content[config]) /\ Configured = DOMAIN Content[config].servers
  BY <1>1, ServeAssumptions DEF Configured
<1>3. QED
  BY <1>1, <1>2 DEF Consistent

\* "ready" means that every configured server is registered (get_lifecycle_status_facts).
THEOREM ReadyIsHonest == Spec => []ReadyMeansRegistered
<1>1. ASSUME ServeInv, Settled, LifecycleState = "ready" PROVE DOMAIN registry = Configured
  <2>1. IsFiniteSet(Configured) /\ DOMAIN registry \subseteq Configured
    BY <1>1, SettledRegistry DEF IsConfig
  <2>2. IsFiniteSet(DOMAIN registry) /\ Cardinality(DOMAIN registry) \in Nat
        /\ Cardinality(Configured) \in Nat
    BY <2>1, FS_Subset, FS_CardinalityType
  <2>3. CASE Configured = {}
    BY <2>1, <2>3
  <2>4. CASE Configured # {}
    <3>1. ~(Cardinality(DOMAIN registry) < Cardinality(Configured))
      BY <1>1, <2>4 DEF LifecycleState
    <3>2. QED
      BY <2>1, <2>2, <3>1, FS_Subset
  <2>5. QED
    BY <2>3, <2>4
<1>2. ServeInv => ReadyMeansRegistered
  BY <1>1 DEF ReadyMeansRegistered
<1>3. QED
  BY <1>2, ServeInvariant, PTL

\* With no reload under way, whatever reloads came before, tools/list shows each profile what the
\* configuration in force grants it on the registered servers, the explain endpoint agrees, and no
\* name has two servers (on_config_changed, connect_all, filter_tools_for_profile).
THEOREM CatalogueIsExact == Spec => []CatalogueExact
<1>1. ASSUME ServeInv, Settled, NEW p \in DOMAIN Content[config].profiles
      PROVE  { <<t.server, t.raw>> : t \in filter_tools_for_profile(registry, Content[config],
                                              Content[config].profiles[p]) } =
             UNION { { <<s, raw>> : raw \in { r \in DOMAIN Offer[s] :
                         MayUse(Content[config], p, s, r, Offer[s]) } } : s \in DOMAIN registry }
  <2>1. IsConfig(Content[config])
    BY <1>1, SettledRegistry
  <2>2. \A s \in DOMAIN registry :
          /\ s \in DOMAIN Content[config].servers
          /\ registry[s] = resolve_tools(s, Content[config].servers[s], Offer[s])
    BY <1>1, SettledRegistry DEF Consistent, Resolved
  <2> DEFINE content == Content[config]
  <2>3. p \in DOMAIN content.profiles /\ IsConfig(content)
    BY <1>1, <2>1
  <2>4. \A s \in DOMAIN registry :
          /\ s \in DOMAIN content.servers
          /\ registry[s] = resolve_tools(s, content.servers[s], Offer[s])
    BY <2>2
  <2> HIDE DEF content
  <2>5. { <<t.server, t.raw>> : t \in filter_tools_for_profile(registry, content, content.profiles[p]) } =
          UNION { { <<s, raw>> : raw \in { r \in DOMAIN Offer[s] : MayUse(content, p, s, r, Offer[s]) } } :
                  s \in DOMAIN registry }
    BY <2>3, <2>4, FilterIsMayUse
  <2>6. QED
    BY <2>5 DEF content
<1>2. ASSUME ServeInv, Settled, NEW p \in DOMAIN Content[config].profiles,
             NEW s \in DOMAIN registry, NEW t \in registry[s]
      PROVE  t \in filter_tools_for_profile(registry, Content[config], Content[config].profiles[p])
               <=> explain_authorization(t, Content[config].profiles[p],
                                         DefaultPosture(Content[config], s)) = "allowed"
  <2>1. t.server = s
    BY <1>2, SettledRegistry DEF Consistent, Resolved, resolve_tools
  <2>2. QED
    BY <2>1, ExplainAgrees DEF filter_tools_for_profile
<1>3. ASSUME ServeInv, Settled PROVE DOMAIN registry \subseteq Configured /\ ~detect_conflicts(registry)
  BY <1>3, SettledRegistry DEF ServeInv, RegInv
<1>4. ServeInv => CatalogueExact
  BY <1>1, <1>2, <1>3 DEF CatalogueExact
<1>5. QED
  BY <1>4, ServeInvariant, PTL

-----------------------------------------------------------------------------
(* The process keeps the protocol of gateway.lock that the other processes assume. *)

\* Where others see the process, now and after a step.
LEMMA PhaseNow ==
  /\ main \in {"prepare", "launch", "publish"} => Phase = "starting"
  /\ main \in {"connect", "connecting", "finish"} => Phase = "published"
  /\ main = "serving" => Phase = "serving"
  /\ main \in {"awaiting", "stopHttp", "shutdown", "unlock"} =>
       Phase = IF final THEN "stopping" ELSE "failing"
  /\ main = "exited" => Phase = "exited"
  /\ main \in {"raised", "killed"} => Phase = "gone"
BY DEF Phase
LEMMA PhaseNext ==
  /\ main' \in {"prepare", "launch", "publish"} => Phase' = "starting"
  /\ main' \in {"connect", "connecting", "finish"} => Phase' = "published"
  /\ main' = "serving" => Phase' = "serving"
  /\ main' \in {"awaiting", "stopHttp", "shutdown", "unlock"} =>
       Phase' = IF final' THEN "stopping" ELSE "failing"
  /\ main' = "exited" => Phase' = "exited"
  /\ main' \in {"raised", "killed"} => Phase' = "gone"
BY DEF Phase

\* A step that others do not see.
LEMMA Unseen ==
  ASSUME Phase' = Phase, lockfile' = lockfile
  PROVE  [Process!Next]_(Process!vars)
BY DEF Process!vars

\* The steps that they do see.
LEMMA Seen ==
  ASSUME lockfile \in BOOLEAN, lockfile' \in BOOLEAN,
         \/ Phase = "starting" /\ Phase' = "published" /\ lockfile'
         \/ Phase = "published" /\ Phase' = "serving" /\ lockfile' = lockfile
         \/ Phase = "serving" /\ Phase' = "stopping" /\ lockfile' = lockfile
         \/ Phase \in {"starting", "published"} /\ Phase' = "failing" /\ ~lockfile'
         \/ Phase \in {"starting", "failing", "stopping"} /\ Phase' = "exited" /\ ~lockfile'
         \/ Phase \notin {"exited", "gone", "unborn"} /\ Phase' = "gone" /\ lockfile' = lockfile
  PROVE  [Process!Next]_(Process!vars)
<1>1. ASSUME NEW from, NEW to, Phase \in from, Phase' = to PROVE Process!Goes("self", from, to)
  BY <1>1 DEF Process!Goes
<1>2. ASSUME ~lockfile' PROVE Process!Disowned("self")
  BY <1>2 DEF Process!Disowned
<1>3. ASSUME lockfile' = lockfile
      PROVE (IF lockfile' THEN "self" ELSE "none") = (IF lockfile THEN "self" ELSE "none")
  BY <1>3
<1>4. CASE Phase = "starting" /\ Phase' = "published" /\ lockfile'
  BY <1>1, <1>4 DEF Process!Publishes, Process!Next
<1>5. CASE Phase = "published" /\ Phase' = "serving" /\ lockfile' = lockfile
  BY <1>1, <1>3, <1>5 DEF Process!Converges, Process!Next
<1>6. CASE Phase = "serving" /\ Phase' = "stopping" /\ lockfile' = lockfile
  BY <1>1, <1>3, <1>6 DEF Process!Stops, Process!Next
<1>7. CASE Phase \in {"starting", "published"} /\ Phase' = "failing" /\ ~lockfile'
  BY <1>1, <1>2, <1>7 DEF Process!Withdraws, Process!Next
<1>8. CASE Phase \in {"starting", "failing", "stopping"} /\ Phase' = "exited" /\ ~lockfile'
  BY <1>1, <1>2, <1>8 DEF Process!Exits, Process!Next
<1>9. CASE Phase \notin {"exited", "gone", "unborn"} /\ Phase' = "gone" /\ lockfile' = lockfile
  BY <1>1, <1>3, <1>9 DEF Process!Dies, Process!Ended, Process!Next
<1>10. QED
  BY <1>4, <1>5, <1>6, <1>7, <1>8, <1>9

\* A process that ends without a step of its own dies, as others see it.
LEMMA DiesSeen ==
  ASSUME Flags, FlatTypes, Flags', main \notin Ended, NEW how \in {"raised", "killed"}, Dies(how)
  PROVE  [Process!Next]_(Process!vars)
<1>1. Phase' = "gone" /\ lockfile' = lockfile
  BY PhaseNext DEF Dies
<1>2. Phase \notin {"exited", "gone", "unborn"}
  BY PhaseNow DEF FlatTypes, Starting, Ended
<1>3. QED
  BY <1>1, <1>2, Seen DEF Flags

\* The steps of the other tasks, the clients and the environment.
OthersStep ==
  \/ WatcherTask \/ WatcherLoads \/ Stop \/ HttpEnds
  \/ \E f \in Files : Edit(f)
  \/ \E c \in Clients : \/ RequestTask(c)
                        \/ \E token \in Tokens : Initialize(c, token)
                        \/ \E what \in Names \cup {"list"} : Request(c, what)

LEMMA OthersKeep == OthersStep => UNCHANGED <<main, final, lockfile>>
<1>1. CASE WatcherTask
  BY <1>1 DEF WatcherTask, WatcherPolls, Closed, Reconnect, Reconnected, Refused, Notified,
     watcherIdle
<1>2. CASE WatcherLoads
  BY <1>2 DEF WatcherLoads, watcherIdle
<1>3. CASE Stop \/ HttpEnds \/ \E f \in Files : Edit(f)
  BY <1>3 DEF Stop, HttpEnds, Edit
<1>4. ASSUME NEW c \in Clients, RequestTask(c) PROVE UNCHANGED <<main, final, lockfile>>
  BY <1>4 DEF RequestTask, Proceed, Dispatch, RecoveryFails, Recovers, Answer, clientIdle
<1>5. ASSUME NEW c \in Clients, NEW token, Initialize(c, token)
      PROVE  UNCHANGED <<main, final, lockfile>>
  BY <1>5 DEF Initialize, clientIdle
<1>6. ASSUME NEW c \in Clients, NEW what, Request(c, what)
      PROVE  UNCHANGED <<main, final, lockfile>>
  BY <1>6 DEF Request, clientIdle
<1>7. QED
  BY <1>1, <1>2, <1>3, <1>4, <1>5, <1>6 DEF OthersStep

LEMMA ProcessStep ==
  ASSUME ServeInv, ServeInv', [Next]_vars
  PROVE  [Process!Next]_(Process!vars)
<1> USE PhaseNow, PhaseNext, Seen, Unseen DEF ServeInv, Flags
<1>1. CASE UNCHANGED <<main, final, lockfile>>
  BY <1>1 DEF Phase
<1>2. CASE Kill \/ ConnectDies \/ JoinDies
  BY <1>2, DiesSeen DEF Kill, ConnectDies, JoinDies, Leaving, Ended
<1>3. CASE Prepare
  BY <1>3 DEF Prepare
<1>4. CASE Launch
  BY <1>4 DEF Launch, MainInv, Starting
<1>5. CASE Publish
  BY <1>5 DEF Publish, MainInv, Starting
<1>6. CASE Connect
  BY <1>6 DEF Connect
<1>7. CASE Connected
  BY <1>7 DEF Connected, RolledBack, MainInv, Starting
<1>8. CASE Finish
  BY <1>8 DEF Finish, RolledBack, MainInv, Starting
<1>9. CASE Join
  BY <1>9 DEF Join, Leaving, MainInv
<1>10. CASE StopHttp
  BY <1>10 DEF StopHttp
<1>11. CASE Shutdown
  BY <1>11 DEF Shutdown, MainInv
<1>12. CASE Unlock
  BY <1>12 DEF Unlock, MainInv
<1>13. CASE OthersStep
  BY <1>1, <1>13, OthersKeep
<1>14. CASE UNCHANGED vars
  BY <1>14, <1>1 DEF vars
<1>15. QED
  BY <1>1, <1>2, <1>3, <1>4, <1>5, <1>6, <1>7, <1>8, <1>9, <1>10, <1>11, <1>12, <1>13, <1>14
  DEF Next, MainTask, OthersStep

\* Through every failed startup, reload, stop and exception the process uses gateway.lock as the
\* clients and stop commands of StartupCoordination assume it of a gateway: ServeLifecycle and
\* StartupCoordination implement one protocol (_run_serve_gateway,
\* rollback_after_post_bind_convergence_failure).
THEOREM ImplementsProcess == Spec => GatewaySpec
<1>1. Init => Process!Init
  BY PhaseNow DEF Init, Process!Init
<1>2. ServeInv /\ ServeInv' /\ [Next]_vars => [Process!Next]_(Process!vars)
  BY ProcessStep
<1>3. QED
  BY <1>1, <1>2, ServeInvariant, PTL DEF Spec, GatewaySpec, Process!Spec
=============================================================================
