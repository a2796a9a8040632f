---------------------- MODULE DownstreamRecoveryProofs ----------------------
(***************************************************************************)
(* Proofs about DownstreamRecovery, for any servers, configs, tools, calls *)
(* and message handlers: the types, the flat lookup of the registry, and   *)
(* the sessions, none of which leaks or is closed while it is mapped.      *)
(***************************************************************************)
EXTENDS DownstreamRecovery, FiniteSetTheorems, TLAPS

\* Where a recovery knows the config of its server.
Informed == {"recheck", "open", "enumerate", "snapshot", "converge", "digest", "notify", "swap"}

\* The variables of a task: typed, with a server if it works, and in a recovery with the
\* config that was read.
OkTask(r) ==
  /\ r \in TaskType
  /\ r.pc # "idle" => r.srv \in Servers
  /\ r.pc \in Informed => r.seen \in Versions

TasksOk == task \in [Tasks -> TaskType] /\ \A t \in Tasks : OkTask(task[t])

TypeInv == TypeOK /\ TasksOk

LEMMA Distinct ==
  /\ None \notin Servers /\ None \notin Versions /\ None \notin Handles /\ None \notin Locks
  /\ None \notin Tasks /\ Reloader \notin Tasks /\ Reloader # None /\ MaxReloads \in Nat
  /\ None \notin [srv: Servers, ver: Versions]
  BY DownstreamAssumptions DEF Tasks

-----------------------------------------------------------------------------
(* Types *)

LEMMA IdleOk == OkTask(Idle)
  BY DEF Idle, TaskType, OkTask, Informed

\* The registry after a registration or a removal has its type.
LEMMA RegistryTypes ==
  ASSUME registry \in Registries, NEW s \in Servers
  PROVE  /\ OwnerWithout(s) \in [Tools -> Servers \cup {None}]
         /\ Unregistered(s) \in Registries
         /\ \A T \in SUBSET Tools, v \in Versions \cup {None} : Registered(s, T, v) \in Registries
<1>1. OwnerWithout(s) \in [Tools -> Servers \cup {None}]
  BY DEF OwnerWithout, Registries
<1>2. Unregistered(s) \in Registries
  BY <1>1 DEF Unregistered, Registries, Configs
<1>3. ASSUME NEW T \in SUBSET Tools, NEW v \in Versions \cup {None}
      PROVE  Registered(s, T, v) \in Registries
  <2>1. [x \in Tools |-> IF x \in T THEN s ELSE OwnerWithout(s)[x]] \in [Tools -> Servers \cup {None}]
    BY <1>1
  <2>2. QED
    BY <2>1 DEF Registered, Registries, Configs
<1>4. QED
  BY <1>1, <1>2, <1>3

LEMMA EmptyTypes ==
  /\ EmptyRegistry \in Registries /\ NoConfig \in Configs
  /\ NothingSaved \in [config: Configs, registry: Registries]
  BY DEF EmptyRegistry, NoConfig, NothingSaved, Registries, Configs

LEMMA TakesTypes ==
  ASSUME TypeOK, NEW t \in Tasks \cup {Reloader}, Takes(t)
  PROVE  queue' \in Seq(Tasks \cup {Reloader}) /\ ~locked /\ loop \in {t, None} /\ rpc # "failed"
<1>1. queue \in Seq(Tasks \cup {Reloader})
  BY DEF TypeOK
<1>2. QED
  BY <1>1 DEF Takes

\* A step that gives one task good variables keeps all tasks good.
LEMMA TaskMoves ==
  ASSUME TasksOk, NEW t \in Tasks, NEW r, OkTask(r), task' = [task EXCEPT ![t] = r]
  PROVE  TasksOk'
  BY DEF TasksOk, OkTask

LEMMA TaskGoes ==
  ASSUME TasksOk, NEW t \in Tasks, task[t].pc # "idle", NEW to, Goto(t, to),
         to \in {"acquire", "open", "notify", "swap", "drop", "relist"},
         to \in Informed => task[t].pc \in Informed
  PROVE  TasksOk'
<1> DEFINE r == [task[t] EXCEPT !.pc = to]
<1>1. task' = [task EXCEPT ![t] = r]
  BY DEF Goto
<1>2. OkTask(task[t])
  BY DEF TasksOk
<1>3. OkTask(r)
  BY <1>2 DEF OkTask, TaskType, Informed
<1>4. QED
  BY <1>1, <1>3, TaskMoves

LEMMA TaskReturns == ASSUME TasksOk, NEW t \in Tasks, Returns(t) PROVE TasksOk'
  BY IdleOk, TaskMoves DEF Returns

LEMMA TaskRecovers ==
  ASSUME TasksOk, NEW t \in Tasks, task[t].pc # "idle", Recovered(t)
  PROVE  TasksOk'
<1> DEFINE r == [Idle EXCEPT !.pc = "retry", !.srv = task[t].srv, !.used = task[t].used]
<1>1. CASE t \in Calls
  <2>1. OkTask(task[t])
    BY DEF TasksOk
  <2>2. r \in TaskType /\ r.pc = "retry" /\ r.srv = task[t].srv
    BY <2>1 DEF OkTask, Idle, TaskType
  <2>3. OkTask(r)
    BY <2>1, <2>2 DEF OkTask, Informed
  <2>4. QED
    BY <1>1, <2>3, TaskMoves DEF Recovered
<1>2. CASE t \notin Calls
  BY <1>2, TaskReturns DEF Recovered
<1>3. QED
  BY <1>1, <1>2

LEMMA TypesInit == Init => TypeInv
<1> SUFFICES ASSUME Init PROVE TypeInv
  OBVIOUS
<1>1. TasksOk
  BY IdleOk DEF Init, TasksOk, OkTask
<1>2. registry \in Registries /\ saved \in [config: Configs, registry: Registries]
  BY EmptyTypes DEF Init
<1>3. reloads \in 0..MaxReloads /\ queue \in Seq(Tasks \cup {Reloader})
  BY Distinct DEF Init
<1>4. QED
  BY <1>1, <1>2, <1>3 DEF Init, TypeInv, TypeOK, TasksOk

LEMMA TypesStep == TypeInv /\ [Next]_vars => TypeInv'
<1> SUFFICES ASSUME TypeInv, [Next]_vars PROVE TypeInv'
  OBVIOUS
<1> USE Distinct DEF lockVars, reloadVars
<1>a. TasksOk /\ TypeOK /\ \A t \in Tasks : OkTask(task[t])
  BY DEF TypeInv, TasksOk
<1>b. registry \in Registries /\ config \in Configs
  BY <1>a DEF TypeOK
<1>1. ASSUME NEW t \in Tasks, NEW x \in Tools, CallBegin(t, x) PROVE TypeInv'
  <2> DEFINE r == [Idle EXCEPT !.pc = "read", !.srv = registry.owner[x]]
  <2>1. registry.owner[x] \in Servers
    BY <1>1, <1>a, <1>b DEF CallBegin, TypeOK, Registries
  <2>2. OkTask(r)
    <3>1. r \in TaskType
      BY <2>1 DEF Idle, TaskType
    <3>2. r.pc = "read" /\ r.srv = registry.owner[x]
      BY DEF Idle
    <3>3. QED
      BY <2>1, <3>1, <3>2 DEF OkTask, Informed
  <2>t. TasksOk'
    BY <1>1, <1>a, <2>2, TaskMoves DEF CallBegin
  <2>3. QED
    BY <1>1, <1>a, <2>t DEF CallBegin, TypeInv, TasksOk, TypeOK
<1>2. ASSUME NEW t \in Tasks, NEW h \in Handles, ReconnectBegin(t, h) PROVE TypeInv'
  <2> DEFINE r == [Idle EXCEPT !.pc = "acquire", !.srv = handles[h].srv]
  <2>1. handles[h].srv \in Servers
    BY <1>2, <1>a, <1>b DEF ReconnectBegin, TypeOK, Registries
  <2>2. OkTask(r)
    <3>1. r \in TaskType
      BY <2>1 DEF Idle, TaskType
    <3>2. r.pc = "acquire" /\ r.srv = handles[h].srv
      BY DEF Idle
    <3>3. QED
      BY <2>1, <3>1, <3>2 DEF OkTask, Informed
  <2>t. TasksOk'
    BY <1>2, <1>a, <2>2, TaskMoves DEF ReconnectBegin
  <2>3. QED
    BY <1>2, <1>a, <2>t DEF ReconnectBegin, TypeInv, TasksOk, TypeOK
<1>3. ASSUME NEW t \in Tasks, NEW h \in Handles, ListChangedBegin(t, h) PROVE TypeInv'
  <2> DEFINE r == [Idle EXCEPT !.pc = "listread", !.srv = handles[h].srv, !.seen = handles[h].ver]
  <2>1. handles[h].srv \in Servers /\ handles[h].ver \in Versions
    BY <1>3, <1>a, <1>b DEF ListChangedBegin, TypeOK, Registries
  <2>2. OkTask(r)
    <3>1. r \in TaskType
      BY <2>1 DEF Idle, TaskType
    <3>2. r.pc = "listread" /\ r.srv = handles[h].srv
      BY DEF Idle
    <3>3. QED
      BY <2>1, <3>1, <3>2 DEF OkTask, Informed
  <2>t. TasksOk'
    BY <1>3, <1>a, <2>2, TaskMoves DEF ListChangedBegin
  <2>3. QED
    BY <1>3, <1>a, <2>t DEF ListChangedBegin, TypeInv, TasksOk, TypeOK
<1>4. ASSUME NEW t \in Tasks, ReadClient(t) PROVE TypeInv'
  <2> DEFINE h == clients[task[t].srv]
             r == [task[t] EXCEPT !.used = h, !.pc = "calling"]
  <2>1. task[t].srv \in Servers /\ h \in Handles \cup {None} /\ task[t] \in TaskType
    BY <1>4, <1>a DEF ReadClient, OkTask, TypeOK
  <2>2. ASSUME h = None PROVE TasksOk'
    BY <1>4, <1>a, <2>2, TaskGoes DEF ReadClient, Informed
  <2>3. ASSUME h # None PROVE TasksOk'
    <3>1. task' = [task EXCEPT ![t] = r]
      BY <1>4, <1>a, <2>3 DEF ReadClient, TasksOk
    <3>2. r \in TaskType /\ r.pc = "calling" /\ r.srv = task[t].srv
      BY <2>1 DEF TaskType
    <3>3. OkTask(r)
      BY <2>1, <3>2 DEF OkTask, Informed
    <3>4. QED
      BY <1>a, <3>1, <3>3, TaskMoves
  <2>t. TasksOk'
    BY <2>2, <2>3
  <2>4. QED
    BY <1>4, <1>a, TakesTypes, <2>t DEF ReadClient, ThenRuns, ThenAwaits, TypeInv, TasksOk, TypeOK
<1>5. ASSUME NEW t \in Tasks, CallReturns(t) \/ WaitTimesOut(t) \/ RelistFails(t) PROVE TypeInv'
  <2>t. TasksOk'
    BY <1>5, <1>a, TaskReturns DEF CallReturns, WaitTimesOut, RelistFails
  <2>1. QED
    BY <1>5, <1>a, <2>t DEF CallReturns, WaitTimesOut, RelistFails, Suspends, TypeInv, TasksOk, TypeOK
<1>6. ASSUME NEW t \in Tasks, CallFails(t) PROVE TypeInv'
  <2>t. TasksOk'
    BY <1>6, <1>a, TaskGoes DEF CallFails, At, Informed
  <2>1. QED
    BY <1>6, <1>a, <2>t DEF CallFails, TypeInv, TasksOk, TypeOK
<1>7. ASSUME NEW t \in Tasks, AcquireLock(t) PROVE TypeInv'
  <2> DEFINE l == IF lockOf[task[t].srv] = None THEN CHOOSE k \in FreshLocks : TRUE ELSE lockOf[task[t].srv]
             r == [task[t] EXCEPT !.lock = l, !.contended = Held(l), !.pc = "wait"]
  <2>1. task[t].srv \in Servers /\ task[t] \in TaskType /\ l \in Locks /\ Held(l) \in BOOLEAN
    BY <1>7, <1>a, <1>b DEF AcquireLock, OkTask, TypeOK, FreshLocks, Held
  <2>2. task' = [task EXCEPT ![t] = r]
    BY <1>7, <1>a DEF AcquireLock, TasksOk
  <2>3. OkTask(r)
    <3> HIDE DEF l
    <3>1. r \in TaskType
      BY <2>1 DEF TaskType
    <3>2. r.pc = "wait" /\ r.srv = task[t].srv
      BY <2>1 DEF TaskType
    <3>3. QED
      BY <2>1, <3>1, <3>2 DEF OkTask, Informed
  <2>t. TasksOk'
    BY <1>a, <2>2, <2>3, TaskMoves
  <2>4. lockOf' \in [Servers -> Locks \cup {None}]
    BY <1>7, <1>a, <2>1 DEF AcquireLock, TypeOK
  <2>5. QED
    BY <1>7, <1>a, TakesTypes, <2>4, <2>t DEF AcquireLock, ThenAwaits, TypeInv, TasksOk, TypeOK
<1>8. ASSUME NEW t \in Tasks, LockAcquired(t) PROVE TypeInv'
  <2> DEFINE v == config[task[t].srv]
             to == IF v = None THEN "drop" ELSE IF task[t].contended THEN "recheck" ELSE "open"
             r == [task[t] EXCEPT !.seen = v, !.contended = FALSE, !.pc = to]
  <2>1. /\ task[t].srv \in Servers /\ task[t] \in TaskType /\ v \in Versions \cup {None}
        /\ to \in {"drop", "recheck", "open"} /\ (to # "drop" => v \in Versions)
    BY <1>8, <1>a, <1>b DEF LockAcquired, At, OkTask, Configs
  <2>2. task' = [task EXCEPT ![t] = r]
    BY <1>8, <1>a DEF LockAcquired, TasksOk
  <2>3. OkTask(r)
    <3> HIDE DEF v, to
    <3>1. r \in TaskType
      BY <2>1 DEF TaskType
    <3>2. r.pc = to /\ r.srv = task[t].srv /\ r.seen = v
      BY <2>1 DEF TaskType
    <3>3. QED
      BY <2>1, <3>1, <3>2 DEF OkTask, Informed
  <2>t. TasksOk'
    BY <1>a, <2>2, <2>3, TaskMoves
  <2>4. QED
    BY <1>8, <1>a, <2>t DEF LockAcquired, TypeInv, TasksOk, TypeOK
<1>9. ASSUME NEW t \in Tasks, Recheck(t) PROVE TypeInv'
  <2>t. TasksOk'
    BY <1>9, <1>a, TaskRecovers, TaskGoes DEF Recheck, Informed
  <2>1. QED
    BY <1>9, <1>a, TakesTypes, <2>t DEF Recheck, LoopAfterRecovered, TypeInv, TasksOk, TypeOK
<1>10. ASSUME NEW t \in Tasks, Opened(t) PROVE TypeInv'
  <2> DEFINE h == CHOOSE k \in Fresh : TRUE
             r == [task[t] EXCEPT !.hand = h, !.pc = "enumerate"]
  <2>1. h \in Handles /\ task[t] \in TaskType /\ task[t].srv \in Servers /\ task[t].seen \in Versions
    BY <1>10, <1>a, <1>b DEF Opened, Fresh, At, OkTask, Informed
  <2>2. task' = [task EXCEPT ![t] = r]
    BY <1>10, <1>a DEF Opened, TasksOk
  <2>3. OkTask(r)
    <3> HIDE DEF h
    <3>1. r \in TaskType
      BY <2>1 DEF TaskType
    <3>2. r.pc = "enumerate" /\ r.srv = task[t].srv /\ r.seen = task[t].seen
      BY <2>1 DEF TaskType
    <3>3. QED
      BY <2>1, <3>1, <3>2 DEF OkTask, Informed
  <2>t. TasksOk'
    BY <1>a, <2>2, <2>3, TaskMoves
  <2>4. handles' \in [Handles -> [srv: Servers, ver: Versions] \cup {None}]
    BY <1>10, <1>a, <2>1 DEF Opened, TypeOK
  <2>5. QED
    BY <1>10, <1>a, <2>4, <2>t DEF Opened, Suspends, TypeInv, TasksOk, TypeOK
<1>11. ASSUME NEW t \in Tasks, RecoveryFails(t) PROVE TypeInv'
  <2>t. TasksOk'
    BY <1>11, <1>a, TaskReturns DEF RecoveryFails
  <2>1. QED
    BY <1>11, <1>a, <2>t DEF RecoveryFails, Suspends, TypeInv, TasksOk, TypeOK
<1>12. ASSUME NEW t \in Tasks, NEW T \in SUBSET Tools, Enumerated(t, T) PROVE TypeInv'
  <2> DEFINE a == [task[t] EXCEPT !.got = T, !.pc = "snapshot"]
             b == [task[t] EXCEPT !.hand = None, !.pc = "drop"]
  <2>1. task[t] \in TaskType /\ task[t].srv \in Servers /\ task[t].seen \in Versions
    BY <1>12, <1>a DEF Enumerated, At, OkTask, Informed
  <2>2. OkTask(a)
    <3>1. a \in TaskType
      BY <2>1 DEF TaskType
    <3>2. a.pc = "snapshot" /\ a.srv = task[t].srv /\ a.seen = task[t].seen
      BY <2>1 DEF TaskType
    <3>3. QED
      BY <2>1, <3>1, <3>2 DEF OkTask, Informed
  <2>3. OkTask(b)
    <3>1. b \in TaskType
      BY <2>1 DEF TaskType
    <3>2. b.pc = "drop" /\ b.srv = task[t].srv
      BY <2>1 DEF TaskType
    <3>3. QED
      BY <2>1, <3>1, <3>2 DEF OkTask, Informed
  <2>4. task' = [task EXCEPT ![t] = a] \/ task' = [task EXCEPT ![t] = b] \/ Returns(t)
    BY <1>12, <1>a DEF Enumerated, TasksOk
  <2>t. TasksOk'
    BY <1>a, <2>2, <2>3, <2>4, TaskMoves, TaskReturns
  <2>5. QED
    BY <1>12, <1>a, <2>t DEF Enumerated, Closed, TypeInv, TasksOk, TypeOK
<1>13. ASSUME NEW t \in Tasks, SnapshotTools(t) PROVE TypeInv'
  <2> DEFINE r == [task[t] EXCEPT !.prev = registry.tools[task[t].srv],
                                  !.prevVer = registry.ver[task[t].srv], !.pc = "converge"]
  <2>1. /\ task[t] \in TaskType /\ task[t].srv \in Servers /\ task[t].seen \in Versions
        /\ registry.tools[task[t].srv] \in SUBSET Tools /\ registry.ver[task[t].srv] \in Versions \cup {None}
    BY <1>13, <1>a, <1>b DEF SnapshotTools, OkTask, Informed, Registries, Configs
  <2>2. task' = [task EXCEPT ![t] = r]
    BY <1>13, <1>a DEF SnapshotTools, TasksOk
  <2>3. OkTask(r)
    <3>1. r \in TaskType
      BY <2>1 DEF TaskType
    <3>2. r.pc = "converge" /\ r.srv = task[t].srv /\ r.seen = task[t].seen
      BY <2>1 DEF TaskType
    <3>3. QED
      BY <2>1, <3>1, <3>2 DEF OkTask, Informed
  <2>t. TasksOk'
    BY <1>a, <2>2, <2>3, TaskMoves
  <2>4. QED
    BY <1>13, <1>a, TakesTypes, <2>t DEF SnapshotTools, TypeInv, TasksOk, TypeOK
<1>14. ASSUME NEW t \in Tasks, Converge(t) PROVE TypeInv'
  <2> DEFINE new == Registered(task[t].srv, task[t].got, task[t].seen)
             r == [task[t] EXCEPT !.got = {}, !.pc = "digest"]
  <2>1. task[t] \in TaskType /\ task[t].srv \in Servers /\ task[t].seen \in Versions
    BY <1>14, <1>a DEF Converge, OkTask, Informed
  <2>2. new \in Registries
    BY <1>b, <2>1, RegistryTypes DEF TaskType
  <2>3. OkTask(r)
    <3>1. r \in TaskType
      BY <2>1 DEF TaskType
    <3>2. r.pc = "digest" /\ r.srv = task[t].srv /\ r.seen = task[t].seen
      BY <2>1 DEF TaskType
    <3>3. QED
      BY <2>1, <3>1, <3>2 DEF OkTask, Informed
  <2>4. Returns(t) \/ task' = [task EXCEPT ![t] = r]
    BY <1>14, <1>a DEF Converge, TasksOk
  <2>t. TasksOk'
    BY <1>a, <2>3, <2>4, TaskMoves, TaskReturns
  <2>5. QED
    BY <1>14, <1>a, TakesTypes, <2>2, <2>t DEF Converge, Closed, TypeInv, TasksOk, TypeOK
<1>15. ASSUME NEW t \in Tasks, Digest(t) PROVE TypeInv'
  <2>t. TasksOk'
    BY <1>15, <1>a, TaskGoes DEF Digest, Informed
  <2>1. QED
    BY <1>15, <1>a, TakesTypes, <2>t DEF Digest, TypeInv, TasksOk, TypeOK
<1>16. ASSUME NEW t \in Tasks, Notified(t) PROVE TypeInv'
  <2> DEFINE v == config[task[t].srv]
             r == [task[t] EXCEPT !.hand = None, !.missing = (v = None), !.pc = "restore"]
  <2>1. task[t] \in TaskType /\ task[t].srv \in Servers /\ (v = None) \in BOOLEAN
    BY <1>16, <1>a DEF Notified, OkTask
  <2>2. OkTask(r)
    <3> HIDE DEF v
    <3>1. r \in TaskType
      BY <2>1, ZenonT(40) DEF TaskType
    <3>2. r.pc = "restore" /\ r.srv = task[t].srv
      BY <2>1 DEF TaskType
    <3>3. QED
      BY <2>1, <3>1, <3>2 DEF OkTask, Informed
  <2>3. Goto(t, "swap") \/ task' = [task EXCEPT ![t] = r]
    BY <1>16, <1>a DEF Notified, TasksOk
  <2>t. TasksOk'
    BY <1>16, <1>a, <2>2, <2>3, TaskMoves, TaskGoes DEF Notified, Informed
  <2>4. QED
    BY <1>16, <1>a, <2>t DEF Notified, Closed, TypeInv, TasksOk, TypeOK
<1>17. ASSUME NEW t \in Tasks, Swap(t) PROVE TypeInv'
  <2> DEFINE old == clients[task[t].srv]
             r == [task[t] EXCEPT !.hand = old, !.pc = "close", !.prev = {}, !.prevVer = None]
  <2>1. task[t] \in TaskType /\ task[t].srv \in Servers /\ old \in Handles \cup {None}
    BY <1>17, <1>a DEF Swap, OkTask, TypeOK
  <2>2. OkTask(r)
    <3> HIDE DEF old
    <3>1. r \in TaskType
      BY <2>1 DEF TaskType
    <3>2. r.pc = "close" /\ r.srv = task[t].srv
      BY <2>1 DEF TaskType
    <3>3. QED
      BY <2>1, <3>1, <3>2 DEF OkTask, Informed
  <2>3. Recovered(t) \/ task' = [task EXCEPT ![t] = r]
    BY <1>17, <1>a DEF Swap, TasksOk
  <2>t. TasksOk'
    BY <1>17, <1>a, <2>2, <2>3, TaskMoves, TaskRecovers DEF Swap
  <2>4. clients' \in [Servers -> Handles \cup {None}]
    BY <1>17, <1>a, <2>1 DEF Swap, TypeOK, TaskType
  <2>5. QED
    BY <1>17, <1>a, TakesTypes, <2>4, <2>t DEF Swap, LoopAfterRecovered, TypeInv, TasksOk, TypeOK
<1>18. ASSUME NEW t \in Tasks, SessionClosed(t) PROVE TypeInv'
  <2> DEFINE r == [task[t] EXCEPT !.hand = None, !.pc = "prune"]
  <2>1. task[t] \in TaskType /\ task[t].srv \in Servers
    BY <1>18, <1>a DEF SessionClosed, At, OkTask
  <2>2. OkTask(r)
    <3>1. r \in TaskType
      BY <2>1 DEF TaskType
    <3>2. r.pc = "prune" /\ r.srv = task[t].srv
      BY <2>1 DEF TaskType
    <3>3. QED
      BY <2>1, <3>1, <3>2 DEF OkTask, Informed
  <2>3. Recovered(t) \/ task' = [task EXCEPT ![t] = r]
    BY <1>18, <1>a DEF SessionClosed, TasksOk
  <2>t. TasksOk'
    BY <1>18, <1>a, <2>2, <2>3, TaskMoves, TaskRecovers DEF SessionClosed, At
  <2>4. QED
    BY <1>18, <1>a, <2>t DEF SessionClosed, Closed, LoopAfterRecovered, TypeInv, TasksOk, TypeOK
<1>19. ASSUME NEW t \in Tasks, Restore(t) PROVE TypeInv'
  <2>1. task[t] \in TaskType /\ task[t].srv \in Servers
    BY <1>19, <1>a DEF Restore, OkTask
  <2>2. registry' \in Registries
    BY <1>19, <1>b, <2>1, RegistryTypes DEF Restore, TaskType
  <2>t. TasksOk'
    BY <1>19, <1>a, TaskGoes, TaskReturns DEF Restore, Informed
  <2>3. QED
    BY <1>19, <1>a, TakesTypes, <2>2, <2>t DEF Restore, TypeInv, TasksOk, TypeOK
<1>20. ASSUME NEW t \in Tasks, DropClient(t) PROVE TypeInv'
  <2> DEFINE old == clients[task[t].srv]
             to == IF old = None THEN "prune" ELSE "close"
             r == [task[t] EXCEPT !.hand = old, !.missing = TRUE, !.pc = to]
  <2>1. /\ task[t] \in TaskType /\ task[t].srv \in Servers /\ old \in Handles \cup {None}
        /\ to \in {"prune", "close"}
    BY <1>20, <1>a, <1>b DEF DropClient, OkTask, TypeOK
  <2>2. task' = [task EXCEPT ![t] = r]
    BY <1>20, <1>a DEF DropClient, TasksOk
  <2>3. OkTask(r)
    <3> HIDE DEF old, to
    <3>1. r \in TaskType
      BY <2>1 DEF TaskType
    <3>2. r.pc = to /\ r.srv = task[t].srv
      BY <2>1 DEF TaskType
    <3>3. QED
      BY <2>1, <3>1, <3>2 DEF OkTask, Informed
  <2>t. TasksOk'
    BY <1>a, <2>2, <2>3, TaskMoves
  <2>4. QED
    BY <1>20, <1>a, TakesTypes, <2>t DEF DropClient, TypeInv, TasksOk, TypeOK
<1>21. ASSUME NEW t \in Tasks, PruneLock(t) \/ Retry(t) PROVE TypeInv'
  <2>t. TasksOk'
    BY <1>21, <1>a, TaskReturns DEF PruneLock, Retry
  <2>1. QED
    BY <1>21, <1>a, TakesTypes, <2>t DEF PruneLock, Retry, ThenAwaits, TypeInv, TasksOk, TypeOK
<1>22. ASSUME NEW t \in Tasks, ReadForList(t) PROVE TypeInv'
  <2>t. TasksOk'
    BY <1>22, <1>a, TaskReturns, TaskGoes DEF ReadForList, Informed
  <2>1. QED
    BY <1>22, <1>a, TakesTypes, <2>t DEF ReadForList, ThenAwaits, TypeInv, TasksOk, TypeOK
<1>23. ASSUME NEW t \in Tasks, NEW T \in SUBSET Tools, Relisted(t, T) PROVE TypeInv'
  <2> DEFINE r == [task[t] EXCEPT !.got = T, !.pc = "apply"]
  <2>1. task[t] \in TaskType /\ task[t].srv \in Servers
    BY <1>23, <1>a, <1>b DEF Relisted, At, OkTask
  <2>2. task' = [task EXCEPT ![t] = r]
    BY <1>23, <1>a DEF Relisted, TasksOk
  <2>3. OkTask(r)
    <3>1. r \in TaskType
      BY <2>1 DEF TaskType
    <3>2. r.pc = "apply" /\ r.srv = task[t].srv
      BY <2>1 DEF TaskType
    <3>3. QED
      BY <2>1, <3>1, <3>2 DEF OkTask, Informed
  <2>t. TasksOk'
    BY <1>a, <2>2, <2>3, TaskMoves
  <2>4. QED
    BY <1>23, <1>a, <2>t DEF Relisted, TypeInv, TasksOk, TypeOK
<1>24. ASSUME NEW t \in Tasks, ApplyList(t) PROVE TypeInv'
  <2>1. task[t] \in TaskType /\ task[t].srv \in Servers
    BY <1>24, <1>a DEF ApplyList, OkTask
  <2>2. registry' \in Registries
    BY <1>24, <1>b, <2>1, RegistryTypes DEF ApplyList, TaskType
  <2>t. TasksOk'
    BY <1>24, <1>a, TaskReturns DEF ApplyList
  <2>3. QED
    BY <1>24, <1>a, TakesTypes, <2>2, <2>t DEF ApplyList, ThenAwaits, TypeInv, TasksOk, TypeOK
<1>25. ASSUME NEW new \in Configs, Reload(new) PROVE TypeInv'
  <2>t. TasksOk'
    BY <1>25, <1>a DEF Reload, TasksOk
  <2>1. QED
    BY <1>25, <1>a, <2>t DEF Reload, AllClosed, TypeInv, TasksOk, TypeOK
<1>26. CASE DisconnectAll
  <2>t. TasksOk'
    BY <1>26, <1>a DEF DisconnectAll, TasksOk
  <2>9. QED
    BY <1>26, <1>a, EmptyTypes, <2>t DEF DisconnectAll, TypeInv, TasksOk, TypeOK
<1>27. CASE ConnectBegin
  <2>t. TasksOk'
    BY <1>27, <1>a DEF ConnectBegin, TasksOk
  <2>9. QED
    BY <1>27, <1>a, EmptyTypes, TakesTypes, <2>t DEF ConnectBegin, AllClosed, TypeInv, TasksOk, TypeOK
<1>28. CASE ConnectAll
  <2>t. TasksOk'
    BY <1>28, <1>a DEF ConnectAll, TasksOk
  <2>1. PICK up \in SUBSET Configured : \E found \in [Servers -> SUBSET Tools] :
          /\ \A s \in Servers \ up : found[s] = {}
          /\ \/ ConnectConflict(found)
             \/ /\ FreshSessions(up) # {}
                /\ ConnectPublish(up, CHOOSE f \in FreshSessions(up) : TRUE, found)
    BY <1>28 DEF ConnectAll
  <2>2. PICK found \in [Servers -> SUBSET Tools] :
          \/ ConnectConflict(found)
          \/ /\ FreshSessions(up) # {}
             /\ ConnectPublish(up, CHOOSE f \in FreshSessions(up) : TRUE, found)
    BY <2>1
  <2>3. CASE ConnectConflict(found)
    BY <1>28, <1>a, <2>t, <2>3 DEF ConnectAll, ConnectConflict, TypeInv, TasksOk, TypeOK
  <2>4. CASE FreshSessions(up) # {} /\ ConnectPublish(up, CHOOSE f \in FreshSessions(up) : TRUE, found)
    <3> DEFINE f == CHOOSE f \in FreshSessions(up) : TRUE
    <3>1. f \in [up -> Handles] /\ ConnectPublish(up, f, found)
      BY <2>4 DEF FreshSessions, Fresh
    <3> HIDE DEF f
    <3>2. \A s \in up : s \in Servers /\ config[s] \in Versions
      BY <1>b DEF Configured, Configs
    <3>3. registry' \in Registries
      BY <3>1, <3>2 DEF ConnectPublish, Registries, Configs
    <3>4. clients' \in [Servers -> Handles \cup {None}]
      BY <3>1, <3>2 DEF ConnectPublish
    <3>5. handles' \in [Handles -> [srv: Servers, ver: Versions] \cup {None}]
      BY <1>a, <3>1, <3>2 DEF ConnectPublish, TypeOK
    <3>6. QED
      BY <1>28, <1>a, <2>t, <3>1, <3>3, <3>4, <3>5, EmptyTypes
      DEF ConnectAll, ConnectPublish, TypeInv, TasksOk, TypeOK
  <2>5. QED
    BY <2>2, <2>3, <2>4
<1>29. CASE Rollback
  <2>t. TasksOk'
    BY <1>29, <1>a DEF Rollback, TasksOk
  <2>9. QED
    BY <1>29, <1>a, EmptyTypes, TakesTypes, <2>t DEF Rollback, ThenAwaits, TypeInv, TasksOk, TypeOK
<1>30. ASSUME NEW t \in Tasks \cup {Reloader}, Queues(t) PROVE TypeInv'
  <2>1. queue' \in Seq(Tasks \cup {Reloader})
    BY <1>30, <1>a DEF Queues, TypeOK
  <2>t. TasksOk'
    BY <1>30, <1>a DEF Queues, TasksOk
  <2>2. QED
    BY <1>30, <1>a, <2>1, <2>t DEF Queues, TypeInv, TasksOk, TypeOK
<1>31. CASE UNCHANGED vars
  BY <1>a, <1>31 DEF vars, TypeInv, TasksOk, TypeOK
<1>32. QED
  BY <1>1, <1>2, <1>3, <1>4, <1>5, <1>6, <1>7, <1>8, <1>9, <1>10, <1>11, <1>12, <1>13, <1>14,
     <1>15, <1>16, <1>17, <1>18, <1>19, <1>20, <1>21, <1>22, <1>23, <1>24, <1>25, <1>26, <1>27,
     <1>28, <1>29, <1>30, <1>31
  DEF Next, RecoverySteps, ReloadSteps, Tasks

\* Every state has its types: in particular a session is opened only with a config that
\* was read, whatever the reload does meanwhile.
THEOREM RecoveryTypes == Spec => []TypeOK
<1>1. TypeInv => TypeOK
  BY DEF TypeInv
<1>2. QED
  BY <1>1, TypesInit, TypesStep, PTL DEF Spec

-----------------------------------------------------------------------------
(* The flat lookup *)

Flat(r) == \A x \in Tools : r.owner[x] # None => x \in r.tools[r.owner[x]]

\* The snapshot a rollback restores is as good as the registry.
FlatInv == FlatLookup /\ Flat(saved.registry)

LEMMA RegisteredFlat ==
  ASSUME registry \in Registries, FlatLookup, NEW s \in Servers
  PROVE  /\ Flat(Unregistered(s))
         /\ \A T \in SUBSET Tools, v \in Versions \cup {None} : Flat(Registered(s, T, v))
<1>1. \A x \in Tools : /\ OwnerWithout(s)[x] # s
                       /\ OwnerWithout(s)[x] # None => /\ OwnerWithout(s)[x] \in Servers
                                                       /\ x \in registry.tools[OwnerWithout(s)[x]]
  BY Distinct DEF OwnerWithout, FlatLookup, Registries
<1>2. Flat(Unregistered(s))
  BY <1>1 DEF Flat, Unregistered, Registries
<1>3. ASSUME NEW T \in SUBSET Tools, NEW v PROVE Flat(Registered(s, T, v))
  BY <1>1 DEF Flat, Registered, Registries
<1>4. QED
  BY <1>2, <1>3

LEMMA EmptyFlat == Flat(EmptyRegistry) /\ Flat(NothingSaved.registry)
  BY DEF Flat, EmptyRegistry, NothingSaved

LEMMA FlatStep == TypeInv /\ FlatInv /\ [Next]_vars => FlatInv'
<1> SUFFICES ASSUME TypeInv, FlatInv, [Next]_vars PROVE FlatInv'
  OBVIOUS
<1>a. registry \in Registries /\ FlatLookup /\ \A t \in Tasks : OkTask(task[t])
  BY DEF TypeInv, TypeOK, TasksOk, FlatInv
<1>b. FlatLookup' <=> Flat(registry')
  BY DEF FlatLookup, Flat
<1>1. CASE UNCHANGED <<registry, saved>>
  BY <1>1 DEF FlatInv, FlatLookup, Flat
<1>2. ASSUME NEW t \in Tasks, Converge(t) \/ Restore(t) \/ ApplyList(t) PROVE FlatInv'
  <2>1. task[t].srv \in Servers /\ task[t].got \in SUBSET Tools /\ task[t].prev \in SUBSET Tools
        /\ task[t].seen \in Versions \cup {None} /\ task[t].prevVer \in Versions \cup {None}
    BY <1>2, <1>a DEF Converge, Restore, ApplyList, OkTask, TaskType
  <2>2. UNCHANGED saved
    BY <1>2 DEF Converge, Restore, ApplyList, reloadVars
  <2>3. registry' \in {registry, Unregistered(task[t].srv),
                       Registered(task[t].srv, task[t].got, task[t].seen),
                       Registered(task[t].srv, task[t].prev, task[t].prevVer)}
    BY <1>2 DEF Converge, Restore, ApplyList
  <2>4. Flat(registry')
    BY <1>a, <2>1, <2>3, RegisteredFlat DEF Flat, FlatLookup
  <2>5. QED
    BY <1>b, <2>2, <2>4 DEF FlatInv
<1>3. ASSUME NEW new \in Configs, Reload(new) PROVE FlatInv'
  BY <1>3, <1>a DEF Reload, FlatInv, FlatLookup, Flat
<1>4. CASE DisconnectAll \/ ConnectBegin
  BY <1>4, <1>b, EmptyFlat DEF DisconnectAll, ConnectBegin, FlatInv
<1>5. CASE ConnectAll
  <2>1. PICK up \in SUBSET Configured, found \in [Servers -> SUBSET Tools] :
          \/ ConnectConflict(found)
          \/ ConnectPublish(up, CHOOSE f \in FreshSessions(up) : TRUE, found)
    BY <1>5 DEF ConnectAll
  <2>2. CASE ConnectConflict(found)
    BY <1>1, <2>2 DEF ConnectConflict
  <2>3. ASSUME NEW f, ConnectPublish(up, f, found) PROVE FlatInv'
    <3>1. \A x \in Tools : registry'.owner[x] # None => x \in found[registry'.owner[x]]
      BY <2>3 DEF ConnectPublish
    <3>2. registry'.tools = found /\ saved' = NothingSaved
      BY <2>3 DEF ConnectPublish
    <3>3. QED
      BY <1>b, <3>1, <3>2, EmptyFlat DEF FlatInv, Flat
  <2>4. QED
    BY <2>1, <2>2, <2>3
<1>6. CASE Rollback
  BY <1>6, <1>b, EmptyFlat DEF Rollback, FlatInv
<1>7. ASSUME NEW t \in Tasks, ~(Converge(t) \/ Restore(t) \/ ApplyList(t)),
             (\E x \in Tools : CallBegin(t, x)) \/ CallReturns(t) \/ CallFails(t)
             \/ (\E h \in Handles : ReconnectBegin(t, h) \/ ListChangedBegin(t, h))
             \/ (\E T \in SUBSET Tools : Relisted(t, T)) \/ RelistFails(t)
             \/ WaitTimesOut(t) \/ LockAcquired(t) \/ RecoverySteps(t)
      PROVE  UNCHANGED <<registry, saved>>
  BY <1>7 DEF CallBegin, CallReturns, CallFails, ReconnectBegin, ListChangedBegin, Relisted,
     RelistFails, WaitTimesOut, LockAcquired, RecoverySteps, Queues, ReadClient, AcquireLock,
     Recheck, Opened, RecoveryFails, Enumerated, SnapshotTools, Digest, Notified, Swap,
     SessionClosed, DropClient, PruneLock, Retry, ReadForList, reloadVars
<1>8. CASE Queues(Reloader) \/ UNCHANGED vars
  BY <1>8, <1>1 DEF Queues, vars, reloadVars
<1>9. QED
  BY <1>1, <1>2, <1>3, <1>4, <1>5, <1>6, <1>7, <1>8 DEF Next, ReloadSteps, Tasks

\* The flat lookup names only servers that list the tool, for any number of servers and
\* tools and whatever registrations, restores and rollbacks came before.
THEOREM LookupFlat == Spec => []FlatLookup
<1>1. Init => FlatInv
  BY EmptyFlat DEF Init, FlatInv, FlatLookup, Flat
<1>2. FlatInv => FlatLookup
  BY DEF FlatInv
<1>3. QED
  BY <1>1, <1>2, TypesInit, TypesStep, FlatStep, PTL DEF Spec
-----------------------------------------------------------------------------
(* The sessions *)

\* Where a task holds the session it opened, and has not published or closed it.
Carrying == {"enumerate", "snapshot", "converge", "digest", "notify", "swap"}

\* What a task holds, by where it is; a task that closes a session holds that one.
HoldsRightly(r, hs) ==
  /\ r.pc \in Carrying => r.hand # None /\ hs[r.hand].srv = r.srv
  /\ r.pc = "close" => r.hand # None
  /\ r.pc \notin Carrying \cup {"close"} => r.hand = None
  /\ r.hand # None => hs[r.hand] # None

\* A session in a task's hand is in nobody else's, and not mapped.
Apart ==
  \A t \in Tasks : task[t].hand # None =>
    /\ \A s \in Servers : clients[s] # task[t].hand
    /\ \A u \in Tasks : task[u].hand = task[t].hand => u = t

Owned ==
  \A h \in Handles : handles[h] # None =>
    (\E s \in Servers : clients[s] = h) \/ \E t \in Tasks : task[t].hand = h

\* connect_all finds the client map as it left it: it has kept _registry_lock.
MapKept == rpc = "connecting" => locked /\ \A s \in Servers : clients[s] = None

SessionInv ==
  /\ ClientsOpen
  /\ \A t \in Tasks : HoldsRightly(task[t], handles)
  /\ Apart /\ Owned /\ MapKept

\* Only t changes.
Alone(t) == \A u \in Tasks \ {t} : task'[u] = task[u]

\* Neither the client map nor connect_all's hold on it is disturbed.
MapStays == UNCHANGED clients /\ UNCHANGED rpc /\ UNCHANGED locked

\* A task goes on with what it holds.
LEMMA Keeps ==
  ASSUME TypeInv, SessionInv, NEW t \in Tasks, Alone(t), UNCHANGED handles,
         MapStays, task'[t].hand = task[t].hand, HoldsRightly(task'[t], handles)
  PROVE  SessionInv'
<1> USE DEF SessionInv, MapStays, Alone
<1>1. \A u \in Tasks : task'[u].hand = task[u].hand /\ HoldsRightly(task'[u], handles)
  OBVIOUS
<1>2. (\A u \in Tasks : HoldsRightly(task[u], handles))'
  BY <1>1 DEF HoldsRightly
<1>3. Apart'
  BY <1>1 DEF Apart
<1>4. Owned'
  BY <1>1 DEF Owned
<1>5. ClientsOpen' /\ MapKept'
  BY DEF ClientsOpen, MapKept
<1>6. QED
  BY <1>2, <1>3, <1>4, <1>5

\* A task closes what it holds, if anything.
LEMMA LetsGo ==
  ASSUME TypeInv, SessionInv, NEW t \in Tasks, Alone(t), MapStays,
         \A h \in Handles : handles'[h] = IF h = task[t].hand THEN None ELSE handles[h],
         task'[t].hand = None, task'[t].pc \notin Carrying \cup {"close"}
  PROVE  SessionInv'
<1> USE Distinct DEF SessionInv, MapStays, Alone
<1>1. \A u \in Tasks : task[u].hand \in Handles \cup {None}
  BY DEF TypeInv, TypeOK, TaskType
<1>2. \A s \in Servers : clients[s] # None => clients[s] \in Handles
  BY DEF TypeInv, TypeOK
<1>3. ASSUME NEW u \in Tasks PROVE HoldsRightly(task'[u], handles')
  <2>1. CASE u = t
    BY <2>1 DEF HoldsRightly
  <2>2. CASE u # t
    <3>1. task'[u] = task[u] /\ HoldsRightly(task[u], handles)
      BY <2>2
    <3>2. task[u].hand # None => handles'[task[u].hand] = handles[task[u].hand]
      BY <1>1, <2>2 DEF Apart
    <3>3. QED
      BY <3>1, <3>2 DEF HoldsRightly, Carrying
  <2>3. QED
    BY <2>1, <2>2
<1>4. Apart'
  BY DEF Apart
<1>5. Owned'
  BY DEF Owned
<1>6. ClientsOpen'
  BY <1>2 DEF ClientsOpen, Apart
<1>7. QED
  BY <1>3, <1>4, <1>5, <1>6 DEF MapKept

\* A task takes a session out of the client map, or publishes its own and takes the old one.
LEMMA Trades ==
  ASSUME TypeInv, SessionInv, NEW t \in Tasks, Alone(t), UNCHANGED handles, UNCHANGED rpc, ~locked,
         NEW s \in Servers, clients' = [clients EXCEPT ![s] = task[t].hand],
         task[t].hand # None => handles[task[t].hand].srv = s,
         task'[t].hand = clients[s],
         task'[t].pc \notin Carrying, task'[t].pc = "close" <=> clients[s] # None
  PROVE  SessionInv'
<1> USE Distinct DEF SessionInv, Alone
<1>1. \A u \in Tasks : task[u].hand \in Handles \cup {None}
  BY DEF TypeInv, TypeOK, TaskType
<1>2. /\ clients \in [Servers -> Handles \cup {None}]
      /\ clients'[s] = task[t].hand /\ \A o \in Servers \ {s} : clients'[o] = clients[o]
  BY DEF TypeInv, TypeOK
<1>3. \A o \in Servers \ {s} : clients[o] # None => clients[o] # clients[s]
  BY <1>2 DEF ClientsOpen
<1>4. ASSUME NEW u \in Tasks PROVE HoldsRightly(task'[u], handles')
  <2>1. CASE u = t
    BY <2>1, <1>2 DEF HoldsRightly, ClientsOpen
  <2>2. CASE u # t
    BY <2>2
  <2>3. QED
    BY <2>1, <2>2
<1>5. ClientsOpen'
  <2>1. task[t].hand # None => handles[task[t].hand] # None
    BY DEF HoldsRightly
  <2>2. QED
    BY <1>2, <2>1 DEF ClientsOpen
<1>6. Apart'
  BY <1>1, <1>2, <1>3 DEF Apart
<1>7. Owned'
  BY <1>1, <1>2 DEF Owned
<1>8. QED
  BY <1>4, <1>5, <1>6, <1>7 DEF MapKept

\* disconnect_all and connect_all close what is mapped.
LEMMA Empties ==
  ASSUME TypeInv, SessionInv, UNCHANGED task, clients' = [s \in Servers |-> None],
         handles' = AllClosed, locked'
  PROVE  SessionInv'
<1> USE Distinct DEF SessionInv
<1>1. \A u \in Tasks : task[u].hand \in Handles \cup {None}
  BY DEF TypeInv, TypeOK, TaskType
<1>2. \A u \in Tasks : task[u].hand # None => handles'[task[u].hand] = handles[task[u].hand]
  BY <1>1 DEF Apart, AllClosed
<1>3. (\A u \in Tasks : HoldsRightly(task[u], handles))'
  BY <1>2 DEF HoldsRightly, Carrying
<1>4. Apart'
  BY DEF Apart
<1>5. Owned'
  BY DEF Owned, AllClosed
<1>6. QED
  BY <1>3, <1>4, <1>5 DEF ClientsOpen, MapKept

LEMMA OpensSession ==
  ASSUME TypeInv, SessionInv, NEW t \in Tasks, Opened(t)
  PROVE  SessionInv'
<1> USE Distinct DEF SessionInv
<1> DEFINE h == CHOOSE k \in Fresh : TRUE
           e == [srv |-> task[t].srv, ver |-> task[t].seen]
<1>1. h \in Fresh /\ handles' = [handles EXCEPT ![h] = e]
  BY DEF Opened
<1>2. /\ task'[t].hand = h /\ task'[t].pc = "enumerate" /\ task'[t].srv = task[t].srv
      /\ Alone(t) /\ UNCHANGED <<clients, rpc>>
  BY DEF Opened, Alone, TypeInv, TypeOK, TaskType, reloadVars
<1> HIDE DEF h
<1>3. h \in Handles /\ handles[h] = None /\ (\A s \in Servers : clients[s] # h)
      /\ \A u \in Tasks : task[u].hand # h
  BY <1>1 DEF Fresh
<1>4. handles'[h] = e /\ e # None /\ \A k \in Handles \ {h} : handles'[k] = handles[k]
  <2>1. task[t].srv \in Servers /\ task[t].seen \in Versions
    BY DEF Opened, At, TypeInv, TasksOk, OkTask, Informed
  <2>2. handles'[h] \in [srv: Servers, ver: Versions]
    BY <1>1, <1>3, <2>1 DEF TypeInv, TypeOK
  <2>3. QED
    BY <1>1, <1>3, <2>1, <2>2 DEF TypeInv, TypeOK
<1>5. \A u \in Tasks : task[u].hand \in Handles \cup {None}
  BY DEF TypeInv, TypeOK, TaskType
<1>c. task[t].hand = None
  BY DEF Opened, At, HoldsRightly, Carrying
<1>6. ASSUME NEW u \in Tasks PROVE HoldsRightly(task'[u], handles')
  <2>1. CASE u = t
    BY <2>1, <1>2, <1>3, <1>4 DEF HoldsRightly, Carrying
  <2>2. CASE u # t
    <3>1. task'[u] = task[u] /\ HoldsRightly(task[u], handles)
      BY <2>2, <1>2 DEF Alone
    <3>2. task[u].hand # None => handles'[task[u].hand] = handles[task[u].hand]
      BY <1>3, <1>4, <1>5
    <3>3. QED
      BY <3>1, <3>2 DEF HoldsRightly, Carrying
  <2>3. QED
    BY <2>1, <2>2
<1>7. Apart'
  BY <1>2, <1>3, <1>5 DEF Apart, Alone
<1>8. Owned'
  <2>1. ASSUME NEW k \in Handles, k # h, handles'[k] # None
        PROVE  (\E s \in Servers : clients'[s] = k) \/ \E u \in Tasks : task'[u].hand = k
    <3>1. (\E s \in Servers : clients[s] = k) \/ \E u \in Tasks : task[u].hand = k
      BY <2>1, <1>4 DEF Owned
    <3>2. QED
      BY <3>1, <1>2, <1>c DEF Alone
  <2>2. QED
    BY <1>2, <2>1 DEF Owned
<1>9. ClientsOpen'
  BY <1>2, <1>3, <1>4 DEF ClientsOpen, TypeInv, TypeOK
<1>10. MapKept'
  BY <1>2 DEF MapKept, Opened, Suspends
<1>11. QED
  BY <1>6, <1>7, <1>8, <1>9, <1>10

\* connect_all publishes new sessions in the empty map.
LEMMA Publishes ==
  ASSUME TypeInv, SessionInv, rpc = "connecting", UNCHANGED task,
         NEW up \in SUBSET Configured, NEW f \in FreshSessions(up), NEW found,
         ConnectPublish(up, f, found)
  PROVE  SessionInv'
<1> USE Distinct DEF SessionInv
<1>1. /\ \A s \in up : f[s] \in Fresh
      /\ \A a, b \in up : a # b => f[a] # f[b]
  BY DEF FreshSessions
<1>2. \A s \in up : /\ s \in Servers /\ f[s] \in Handles /\ handles[f[s]] = None
                    /\ \A u \in Tasks : task[u].hand # f[s]
  BY <1>1 DEF Fresh, Configured
<1>3. \A s \in Servers : clients'[s] = IF s \in up THEN f[s] ELSE None
  BY DEF ConnectPublish
<1>4. ASSUME NEW s \in up
      PROVE  handles'[f[s]] # None /\ handles'[f[s]].srv = s
  <2>1. (CHOOSE o \in up : f[o] = f[s]) = s
    BY <1>1
  <2>2. handles'[f[s]] = [srv |-> s, ver |-> config[s]]
    BY <1>2, <2>1 DEF ConnectPublish
  <2>3. config[s] \in Versions
    BY DEF Configured, TypeInv, TypeOK, Configs
  <2>4. QED
    BY <1>2, <2>2, <2>3
<1>5. \A h \in Handles : (\A s \in up : f[s] # h) => handles'[h] = handles[h]
  BY DEF ConnectPublish
<1>6. \A u \in Tasks : task[u].hand \in Handles \cup {None}
  BY DEF TypeInv, TypeOK, TaskType
<1>7. \A u \in Tasks : task[u].hand # None => handles'[task[u].hand] = handles[task[u].hand]
  BY <1>2, <1>5, <1>6
<1>8. (\A u \in Tasks : HoldsRightly(task[u], handles))'
  BY <1>7 DEF HoldsRightly, Carrying
<1>9. ClientsOpen'
  BY <1>3, <1>4 DEF ClientsOpen
<1>10. Apart'
  BY <1>2, <1>3 DEF Apart
<1>11. Owned'
  BY <1>2, <1>3, <1>5 DEF Owned, MapKept
<1>12. MapKept'
  BY DEF MapKept, ConnectPublish
<1>13. QED
  BY <1>8, <1>9, <1>10, <1>11, <1>12

\* A task that holds nothing goes on holding nothing.
LEMMA EmptyHanded ==
  ASSUME TypeInv, SessionInv, NEW t \in Tasks, Alone(t), UNCHANGED handles, MapStays,
         task[t].pc \notin Carrying \cup {"close"}, task'[t].hand = task[t].hand \/ task'[t].hand = None,
         task'[t].pc \notin Carrying \cup {"close"}
  PROVE  SessionInv'
<1>1. task[t].hand = None /\ task'[t].hand = None
  BY DEF SessionInv, HoldsRightly
<1>2. QED
  BY <1>1, Keeps DEF HoldsRightly

\* Where the common endings of a step leave a task.
LEMMA Endings ==
  ASSUME task \in [Tasks -> TaskType], NEW t \in Tasks
  PROVE  /\ Returns(t) => Alone(t) /\ task'[t].hand = None /\ task'[t].pc = "idle"
         /\ Recovered(t) => Alone(t) /\ task'[t].hand = None /\ task'[t].pc \in {"retry", "idle"}
         /\ \A to : Goto(t, to) => /\ Alone(t) /\ task'[t].hand = task[t].hand
                                  /\ task'[t].pc = to /\ task'[t].srv = task[t].srv
<1>1. task[t] \in TaskType
  OBVIOUS
<1>2. Returns(t) => Alone(t) /\ task'[t].hand = None /\ task'[t].pc = "idle"
  BY DEF Returns, Alone, Idle
<1>3. Recovered(t) => Alone(t) /\ task'[t].hand = None /\ task'[t].pc \in {"retry", "idle"}
  <2>1. CASE t \in Calls
    BY <2>1 DEF Recovered, Alone, Idle
  <2>2. CASE t \notin Calls
    BY <2>2, <1>2 DEF Recovered
  <2>3. QED
    BY <2>1, <2>2
<1>4. ASSUME NEW to, Goto(t, to)
      PROVE  /\ Alone(t) /\ task'[t].hand = task[t].hand
             /\ task'[t].pc = to /\ task'[t].srv = task[t].srv
  BY <1>1, <1>4 DEF Goto, Alone, TaskType
<1>5. QED
  BY <1>2, <1>3, <1>4

LEMMA SessionStep == TypeInv /\ SessionInv /\ [Next]_vars => SessionInv'
<1> SUFFICES ASSUME TypeInv, SessionInv, [Next]_vars PROVE SessionInv'
  OBVIOUS
<1> USE Distinct DEF lockVars, reloadVars
<1>a. task \in [Tasks -> TaskType] /\ handles \in [Handles -> [srv: Servers, ver: Versions] \cup {None}]
  BY DEF TypeInv, TypeOK
<1>b. \A t \in Tasks : task[t] \in TaskType /\ task[t].hand \in Handles \cup {None}
  BY <1>a DEF TaskType
<1>1. ASSUME NEW t \in Tasks,
             (\E x \in Tools : CallBegin(t, x))
             \/ \E h \in Handles : ReconnectBegin(t, h) \/ ListChangedBegin(t, h)
      PROVE  SessionInv'
  <2>1. /\ Alone(t) /\ task[t].pc = "idle" /\ task'[t].hand = None
        /\ task'[t].pc \in {"read", "acquire", "listread"}
    <3>1. CASE \E x \in Tools : CallBegin(t, x)
      BY <3>1, <1>a DEF CallBegin, Alone, Idle, At
    <3>2. CASE \E h \in Handles : ReconnectBegin(t, h)
      BY <3>2, <1>a DEF ReconnectBegin, Alone, Idle, At
    <3>3. CASE \E h \in Handles : ListChangedBegin(t, h)
      BY <3>3, <1>a DEF ListChangedBegin, Alone, Idle, At
    <3>4. QED
      BY <1>1, <3>1, <3>2, <3>3
  <2>2. UNCHANGED handles /\ MapStays
    BY <1>1 DEF CallBegin, ReconnectBegin, ListChangedBegin, MapStays
  <2>3. QED
    BY <2>1, <2>2, EmptyHanded DEF Carrying
<1>2. ASSUME NEW t \in Tasks, CallReturns(t) \/ WaitTimesOut(t) \/ RelistFails(t)
                              \/ PruneLock(t) \/ Retry(t) \/ ApplyList(t)
      PROVE  SessionInv'
  <2>1. /\ Alone(t) /\ task[t].pc \in {"calling", "wait", "relist", "prune", "retry", "apply"}
        /\ task'[t].hand = None /\ task'[t].pc = "idle"
    BY <1>2, <1>a DEF CallReturns, WaitTimesOut, RelistFails, PruneLock, Retry, ApplyList, Alone,
       Returns, Idle, At
  <2>2. UNCHANGED handles /\ MapStays
    BY <1>2 DEF CallReturns, WaitTimesOut, RelistFails, PruneLock, Retry, ApplyList, Suspends,
       ThenAwaits, MapStays
  <2>3. QED
    BY <2>1, <2>2, EmptyHanded DEF Carrying
<1>3. ASSUME NEW t \in Tasks,
             CallFails(t) \/ ReadClient(t) \/ AcquireLock(t) \/ LockAcquired(t) \/ Recheck(t)
      PROVE  SessionInv'
  <2>1. Alone(t) /\ task[t].pc \in {"calling", "read", "acquire", "wait", "recheck"}
    BY <1>3, <1>a DEF CallFails, ReadClient, AcquireLock, LockAcquired, Recheck, Recovered, Alone,
       Goto, Returns, At
  <2>2. /\ task'[t].hand = task[t].hand \/ task'[t].hand = None
        /\ task'[t].pc \in {"acquire", "calling", "wait", "drop", "recheck", "open", "retry", "idle"}
    <3>1. CASE CallFails(t)
      BY <3>1, <1>a, Endings DEF CallFails
    <3>2. CASE ReadClient(t)
      BY <3>2, <1>a, <1>b, Endings DEF ReadClient, TaskType
    <3>3. CASE AcquireLock(t)
      <4>1. PICK l, b : task' = [task EXCEPT ![t].lock = l, ![t].contended = b, ![t].pc = "wait"]
        BY <3>3 DEF AcquireLock
      <4>2. task[t] \in TaskType /\ t \in DOMAIN task
        BY <1>a, <1>b
      <4>3. task'[t].hand = task[t].hand /\ task'[t].pc = "wait"
        BY <4>1, <4>2 DEF TaskType
      <4>4. QED
        BY <4>3
    <3>4. CASE LockAcquired(t)
      BY <3>4, <1>a, <1>b DEF LockAcquired, TaskType
    <3>5. CASE Recheck(t)
      BY <3>5, <1>a, Endings DEF Recheck
    <3>6. QED
      BY <1>3, <3>1, <3>2, <3>3, <3>4, <3>5
  <2>4. UNCHANGED handles /\ MapStays
    BY <1>3 DEF CallFails, ReadClient, AcquireLock, LockAcquired, Recheck, ThenRuns, ThenAwaits, MapStays
  <2>5. QED
    BY <2>1, <2>2, <2>4, EmptyHanded DEF Carrying
<1>4. ASSUME NEW t \in Tasks, Restore(t) \/ ReadForList(t) \/ \E T \in SUBSET Tools : Relisted(t, T)
      PROVE  SessionInv'
  <2>1. Alone(t) /\ task[t].pc \in {"restore", "listread", "relist"}
    BY <1>4, <1>a DEF Restore, ReadForList, Relisted, Alone, Goto, Returns, At
  <2>2. /\ task'[t].hand = task[t].hand \/ task'[t].hand = None
        /\ task'[t].pc \in {"drop", "idle", "relist", "apply"}
    <3>1. CASE Restore(t) \/ ReadForList(t)
      BY <3>1, <1>a, Endings DEF Restore, ReadForList
    <3>2. CASE \E T \in SUBSET Tools : Relisted(t, T)
      BY <3>2, <1>a, <1>b DEF Relisted, TaskType
    <3>3. QED
      BY <1>4, <3>1, <3>2
  <2>3. UNCHANGED handles /\ MapStays
    BY <1>4 DEF Restore, ReadForList, Relisted, ThenAwaits, MapStays
  <2>4. QED
    BY <2>1, <2>2, <2>3, EmptyHanded DEF Carrying
<1>5. ASSUME NEW t \in Tasks, SnapshotTools(t) \/ Digest(t) PROVE SessionInv'
  <2>1. Alone(t) /\ task[t].pc \in Carrying /\ task'[t].pc \in Carrying
        /\ task'[t].hand = task[t].hand /\ task'[t].srv = task[t].srv
    BY <1>5, <1>a, <1>b DEF SnapshotTools, Digest, Alone, Goto, Carrying, TaskType
  <2>2. UNCHANGED handles /\ MapStays
    BY <1>5 DEF SnapshotTools, Digest, MapStays
  <2>3. HoldsRightly(task[t], handles)
    BY DEF SessionInv
  <2>4. HoldsRightly(task'[t], handles)
    BY <2>1, <2>3 DEF HoldsRightly, Carrying
  <2>5. QED
    BY <2>1, <2>2, <2>4, Keeps
<1>6. ASSUME NEW t \in Tasks, RecoveryFails(t) PROVE SessionInv'
  <2>1. Alone(t) /\ task'[t].hand = None /\ task'[t].pc = "idle"
    BY <1>6, <1>a DEF RecoveryFails, Alone, Returns, Idle
  <2>2. MapStays /\ \A h \in Handles : handles'[h] = IF h = task[t].hand THEN None ELSE handles[h]
    BY <1>6 DEF RecoveryFails, Suspends, MapStays
  <2>3. QED
    BY <2>1, <2>2, LetsGo DEF Carrying
<1>c. ASSUME NEW t \in Tasks, handles' = Closed(task[t].hand)
      PROVE  \A h \in Handles : handles'[h] = IF h = task[t].hand THEN None ELSE handles[h]
  BY <1>a, <1>b, <1>c DEF Closed
<1>7. ASSUME NEW t \in Tasks,
             (\E T \in SUBSET Tools : Enumerated(t, T)) \/ Converge(t) \/ Notified(t)
      PROVE  SessionInv'
  <2>1. Alone(t) /\ task[t].pc \in Carrying /\ MapStays
    BY <1>7, <1>a DEF Enumerated, Converge, Notified, Alone, Goto, Returns, At, Carrying, MapStays
  <2>2. CASE UNCHANGED handles /\ task'[t].pc \in Carrying
             /\ task'[t].hand = task[t].hand /\ task'[t].srv = task[t].srv
    <3>1. HoldsRightly(task[t], handles)
      BY DEF SessionInv
    <3>2. HoldsRightly(task'[t], handles)
      BY <2>1, <2>2, <3>1 DEF HoldsRightly, Carrying
    <3>3. QED
      BY <2>1, <2>2, <3>2, Keeps
  <2>3. CASE handles' = Closed(task[t].hand) /\ task'[t].hand = None
             /\ task'[t].pc \in {"idle", "drop", "restore"}
    BY <1>c, <2>1, <2>3, LetsGo DEF Carrying
  <2>4. CASE \E T \in SUBSET Tools : Enumerated(t, T)
    <3>1. PICK T \in SUBSET Tools : Enumerated(t, T)
      BY <2>4
    <3>2. CASE config[task[t].srv] = task[t].seen
      BY <1>a, <1>b, <2>2, <3>1, <3>2 DEF Enumerated, Carrying, TaskType
    <3>3. CASE config[task[t].srv] # task[t].seen
      <4>1. Returns(t) \/ task' = [task EXCEPT ![t].hand = None, ![t].pc = "drop"]
        BY <3>1, <3>3 DEF Enumerated
      <4>2. task'[t].hand = None /\ task'[t].pc \in {"idle", "drop"}
        BY <4>1, <1>a, <1>b, Endings DEF TaskType
      <4>3. QED
        BY <2>3, <3>1, <3>3, <4>2 DEF Enumerated
    <3>4. QED
      BY <3>2, <3>3
  <2>5. CASE Converge(t)
    <3>1. CASE handles' = Closed(task[t].hand) /\ Returns(t)
      BY <1>a, <2>3, <3>1, Endings
    <3>2. CASE UNCHANGED handles /\ task' = [task EXCEPT ![t].got = {}, ![t].pc = "digest"]
      BY <1>a, <1>b, <2>2, <3>2 DEF Carrying, TaskType
    <3>3. QED
      BY <2>5, <3>1, <3>2 DEF Converge
  <2>6. CASE Notified(t)
    <3>1. CASE Goto(t, "swap") /\ UNCHANGED handles
      BY <1>a, <2>2, <3>1, Endings DEF Carrying
    <3>2. ASSUME NEW gone,
                 task' = [task EXCEPT ![t].hand = None, ![t].missing = gone, ![t].pc = "restore"],
                 handles' = Closed(task[t].hand)
          PROVE  SessionInv'
      BY <1>a, <1>b, <2>3, <3>2 DEF TaskType
    <3>3. QED
      BY <2>6, <3>1, <3>2 DEF Notified
  <2>7. QED
    BY <1>7, <2>4, <2>5, <2>6
<1>8. ASSUME NEW t \in Tasks, SessionClosed(t) PROVE SessionInv'
  <2>1. Alone(t) /\ MapStays
    BY <1>8, <1>a DEF SessionClosed, Recovered, Returns, Alone, MapStays
  <2>2. task'[t].hand = None /\ task'[t].pc \in {"prune", "retry", "idle"}
    <3>1. Recovered(t) \/ task' = [task EXCEPT ![t].hand = None, ![t].pc = "prune"]
      BY <1>8 DEF SessionClosed
    <3>2. QED
      BY <1>a, <1>b, <3>1, Endings DEF TaskType
  <2>3. QED
    BY <1>8, <1>c, <2>1, <2>2, LetsGo DEF SessionClosed, Carrying
<1>9. ASSUME NEW t \in Tasks, Swap(t) \/ DropClient(t) PROVE SessionInv'
  <2> DEFINE s == task[t].srv
  <2>1. s \in Servers /\ ~locked /\ UNCHANGED handles /\ UNCHANGED rpc /\ Alone(t)
    <3>1. s \in Servers
      BY <1>9 DEF Swap, DropClient, TypeInv, TasksOk, OkTask
    <3>2. QED
      BY <1>9, <1>a, <3>1 DEF Swap, DropClient, Takes, Recovered, Returns, Alone
  <2>2. HoldsRightly(task[t], handles)
    BY DEF SessionInv
  <2>3. clients' = [clients EXCEPT ![s] = task[t].hand]
    BY <1>9, <2>2 DEF Swap, DropClient, HoldsRightly, Carrying
  <2>4. task[t].hand # None => handles[task[t].hand].srv = s
    BY <1>9, <2>2 DEF Swap, DropClient, HoldsRightly, Carrying
  <2>5. /\ task'[t].hand = clients[s] /\ task'[t].pc \notin Carrying
        /\ task'[t].pc = "close" <=> clients[s] # None
    <3>1. CASE Swap(t) /\ clients[s] = None
      BY <1>a, <3>1, Endings DEF Swap, Carrying
    <3>2. CASE Swap(t) /\ clients[s] # None
      BY <1>a, <1>b, <3>2 DEF Swap, Carrying, TaskType
    <3>3. CASE DropClient(t)
      BY <1>a, <1>b, <3>3 DEF DropClient, Carrying, TaskType
    <3>4. QED
      BY <1>9, <3>1, <3>2, <3>3
  <2> HIDE DEF s
  <2>6. QED
    BY <2>1, <2>3, <2>4, <2>5, Trades
<1>10. ASSUME NEW new \in Configs, Reload(new) PROVE SessionInv'
  BY <1>10, Empties DEF Reload
<1>11. CASE ConnectBegin
  BY <1>11, Empties DEF ConnectBegin
<1>12. CASE ConnectAll
  <2>1. PICK up \in SUBSET Configured, found \in [Servers -> SUBSET Tools] :
          \/ ConnectConflict(found)
          \/ /\ FreshSessions(up) # {}
             /\ ConnectPublish(up, CHOOSE f \in FreshSessions(up) : TRUE, found)
    BY <1>12 DEF ConnectAll
  <2>2. CASE ConnectConflict(found)
    BY <1>12, <2>2 DEF ConnectAll, ConnectConflict, SessionInv, ClientsOpen, Apart, Owned, MapKept
  <2>3. CASE /\ FreshSessions(up) # {}
             /\ ConnectPublish(up, CHOOSE f \in FreshSessions(up) : TRUE, found)
    <3>1. PICK f \in FreshSessions(up) : ConnectPublish(up, f, found)
      BY <2>3
    <3>2. QED
      BY <1>12, <3>1, Publishes DEF ConnectAll
  <2>4. QED
    BY <2>1, <2>2, <2>3
<1>13. CASE DisconnectAll \/ Rollback \/ Queues(Reloader) \/ (\E t \in Tasks : Queues(t)) \/ UNCHANGED vars
  <2>1. UNCHANGED <<clients, handles, task>>
    BY <1>13 DEF DisconnectAll, Rollback, Queues, vars
  <2>2. MapKept'
    BY <1>13, <2>1 DEF DisconnectAll, Rollback, Queues, vars, MapKept, SessionInv
  <2>3. QED
    BY <2>1, <2>2 DEF SessionInv, ClientsOpen, Apart, Owned
<1>14. ASSUME NEW t \in Tasks, Opened(t) PROVE SessionInv'
  BY <1>14, OpensSession
<1>15. QED
  BY <1>1, <1>2, <1>3, <1>4, <1>5, <1>6, <1>7, <1>8, <1>9, <1>10, <1>11, <1>12, <1>13, <1>14
  DEF Next, RecoverySteps, ReloadSteps, Tasks

LEMMA SessionsInit == Init => SessionInv
  BY DEF Init, Idle, SessionInv, ClientsOpen, HoldsRightly, Carrying, Apart, Owned, MapKept

\* One holder: the client map has the session under one server, or one task has it.
LEMMA OneHolder == TypeInv /\ SessionInv => NoHandleLeak
<1> SUFFICES ASSUME TypeInv, SessionInv, NEW h \in Handles, handles[h] # None
             PROVE  Cardinality({s \in Servers : clients[s] = h})
                      + Cardinality({t \in Tasks : task[t].hand = h}) = 1
  BY DEF NoHandleLeak
<1> USE Distinct DEF SessionInv
<1> DEFINE Mapped == {s \in Servers : clients[s] = h}
           Hands == {t \in Tasks : task[t].hand = h}
<1>1. Cardinality({}) = 0
  BY FS_EmptySet
<1>2. ASSUME NEW s \in Servers, clients[s] = h PROVE Cardinality(Mapped) + Cardinality(Hands) = 1
  <2>1. Mapped = {s}
    BY <1>2 DEF ClientsOpen
  <2>2. Hands = {}
    BY <1>2 DEF Apart
  <2>3. Cardinality({s}) = 1
    BY FS_Singleton
  <2>4. Cardinality(Mapped) = 1 /\ Cardinality(Hands) = 0
    BY <1>1, <2>1, <2>2, <2>3
  <2> HIDE DEF Mapped, Hands
  <2>5. QED
    BY <2>4
<1>3. ASSUME NEW t \in Tasks, task[t].hand = h PROVE Cardinality(Mapped) + Cardinality(Hands) = 1
  <2>1. Hands = {t} /\ Mapped = {}
    BY <1>3 DEF Apart
  <2>2. Cardinality({t}) = 1
    BY FS_Singleton
  <2>3. Cardinality(Mapped) = 0 /\ Cardinality(Hands) = 1
    BY <1>1, <2>1, <2>2
  <2> HIDE DEF Mapped, Hands
  <2>4. QED
    BY <2>3
<1>4. QED
  BY <1>2, <1>3 DEF Owned

\* _clients only ever holds open sessions of the right server: no recovery, drop or reload
\* closes a session that is still mapped, however many of them overlap.
THEOREM ClientsStayOpen == Spec => []ClientsOpen
<1>1. SessionInv => ClientsOpen
  BY DEF SessionInv
<1>2. QED
  BY <1>1, SessionsInit, TypesInit, TypesStep, SessionStep, PTL DEF Spec

\* Every open session is in _clients or in the hands of exactly one task, for any number of
\* servers, calls and handlers, even when two recoveries of one server overlap.
THEOREM NoSessionLeaks == Spec => []NoHandleLeak
  BY OneHolder, SessionsInit, TypesInit, TypesStep, SessionStep, PTL DEF Spec
=============================================================================
