---------------------- MODULE GatewayConnectionsProofs ----------------------
(***************************************************************************)
(* Proofs about GatewayConnections, for any number of sessions, bridges,   *)
(* connections and disconnect handlers and any timeouts.                   *)
(***************************************************************************)
EXTENDS GatewayConnections, FiniteSetTheorems, TLAPS

\* Every initialize under way knows its connection id.
Targets == \A s \in Sessions : pc[s] # "idle" => target[s] # None

TypeInv == TypeOK /\ Targets

-----------------------------------------------------------------------------

\* A queue of tasks that hands on the lock stays a queue of tasks.
LEMMA AcquiresType ==
  ASSUME waiters \in Seq(Tasks), NEW t \in Tasks, Acquires(t)
  PROVE  waiters' \in Seq(Tasks)
BY DEF Acquires

LEMMA TypeInit == Init => TypeInv
<1> SUFFICES ASSUME Init PROVE TypeInv
  OBVIOUS
<1>1. timer \in {"none", "armed", "cancelled", "fired"}
  BY DEF Init
<1>2. waiters \in Seq(Tasks)
  BY DEF Init
<1>3. stop \in BOOLEAN
  BY DEF Init
<1>4. Targets
  BY DEF Init, Targets, Tasks
<1>5. QED
  BY <1>1, <1>2, <1>3, <1>4 DEF Init, TypeInv, TypeOK

LEMMA TypeStep == TypeInv /\ [Next]_vars => TypeInv'
<1> SUFFICES ASSUME TypeInv, [Next]_vars PROVE TypeInv'
  OBVIOUS
<1> USE ConnectionAssumptions DEF TypeInv, TypeOK, Targets, Tasks, ConnIds, Contexts
<1>1. ASSUME NEW b \in Bridges, Connect(b) PROVE TypeInv'
  BY <1>1 DEF Connect, idleVars, sweepVars
<1>2. ASSUME NEW d \in Closers, NEW c \in ConnIds, Disconnect(d, c) PROVE TypeInv'
  BY <1>2 DEF Disconnect, Cleanup, Goto, idleVars, sweepVars, Of
<1>3. ASSUME NEW t \in Tasks, AwaitLock(t) PROVE TypeInv'
  BY <1>3 DEF AwaitLock, runtimeVars, sweepVars
<1>4. ASSUME NEW d \in Closers, DisconnectDecrement(d) PROVE TypeInv'
  BY <1>4, AcquiresType DEF DisconnectDecrement, Decrement, Goto, runtimeVars, sweepVars
<1>5. ASSUME NEW s \in Sessions, NEW b \in Bridges, InitializeBridge(s, b) PROVE TypeInv'
  BY <1>5 DEF InitializeBridge, Goto, idleVars, sweepVars, Of
<1>6. ASSUME NEW s \in Sessions, NEW n \in Natives, InitializeNative(s, n) PROVE TypeInv'
  BY <1>6 DEF InitializeNative, Goto, idleVars, sweepVars
<1>7. ASSUME NEW s \in Sessions, InitializeDecrement(s) PROVE TypeInv'
  <2>1. waiters' \in Seq(Tasks)
    BY <1>7, AcquiresType DEF InitializeDecrement
  <2>2. CASE count = 0
    <3>1. /\ pc' = [pc EXCEPT ![s] = "idle"] /\ target' = [target EXCEPT ![s] = None]
          /\ count' = 0 /\ loop' = None
          /\ UNCHANGED <<conns, aged, pending, sess, issued, timer, holder, stop, swept, old,
                         sentTo, ready, inits>>
      BY <1>7, <2>2 DEF InitializeDecrement, Decrement, Goto, Returns, sweepVars
    <3>2. QED
      BY <2>1, <3>1
  <2>3. CASE count # 0
    BY <1>7, <2>1, <2>3, SMTT(30) DEF InitializeDecrement, Decrement, Goto, sweepVars
  <2>4. QED
    BY <2>2, <2>3
<1>8. ASSUME NEW s \in Sessions, Reject(s) PROVE TypeInv'
  BY <1>8 DEF Reject, Continues, Goto, Returns, runtimeVars, idleVars, sweepVars
<1>9. ASSUME NEW s \in Sessions, Admit(s) PROVE TypeInv'
  BY <1>9 DEF Admit, Continues, Goto, idleVars, sweepVars
<1>10. ASSUME NEW s \in Sessions, InitializeIncrement(s) PROVE TypeInv'
  BY <1>10, AcquiresType DEF InitializeIncrement, Increment, Goto, runtimeVars, sweepVars
<1>11. ASSUME NEW s \in Sessions, TimerCancelled(s) PROVE TypeInv'
  BY <1>11 DEF TimerCancelled, Resumes, Goto, runtimeVars, sweepVars
<1>12. ASSUME NEW s \in Sessions, Capture(s) PROVE TypeInv'
  BY <1>12 DEF Capture, Continues, Cleanup, Goto, Returns, idleVars, sweepVars, Of
<1>13. ASSUME NEW s \in Sessions, Respond(s) PROVE TypeInv'
  BY <1>13 DEF Respond, Resumes, Goto, Returns, runtimeVars, idleVars, sweepVars
<1>14. ASSUME NEW s \in Sessions, RespondFails(s) PROVE TypeInv'
  BY <1>14 DEF RespondFails, Resumes, Cleanup, Goto, Returns, idleVars, sweepVars, Of
<1>15. ASSUME NEW s \in Sessions, UseBound(s) PROVE TypeInv'
  BY <1>15 DEF UseBound, idleVars, sweepVars, Of
<1>16. ASSUME NEW s \in Sessions, Adopt(s) PROVE TypeInv'
  BY <1>16 DEF Adopt, idleVars, sweepVars, Of
<1>17. ASSUME NEW c \in ConnIds, NotifyBegin(c) PROVE TypeInv'
  BY <1>17 DEF NotifyBegin, Begins, Goto, runtimeVars, idleVars, sweepVars
<1>18. ASSUME NotifySent PROVE TypeInv'
  BY <1>18 DEF NotifySent, Goto, Returns, runtimeVars, idleVars, sweepVars
<1>19. ASSUME NotifyFails PROVE TypeInv'
  BY <1>19 DEF NotifyFails, Goto, Returns, idleVars, sweepVars
<1>20. ASSUME SweepBegin PROVE TypeInv'
  BY <1>20 DEF SweepBegin, Goto, runtimeVars, idleVars
<1>21. ASSUME NEW x \in Contexts, SweepOne(x) PROVE TypeInv'
  BY <1>21, SMTT(30) DEF SweepOne, Cleanup, Goto, runtimeVars, idleVars, Of
<1>22. ASSUME SweepDecrement PROVE TypeInv'
  BY <1>22, AcquiresType DEF SweepDecrement, Decrement, Goto, runtimeVars, sweepVars
<1>23. ASSUME SweepEnd PROVE TypeInv'
  BY <1>23 DEF SweepEnd, Goto, runtimeVars, idleVars
<1>24. ASSUME NEW x \in Contexts, Age(x) PROVE TypeInv'
  BY <1>24 DEF Age, idleVars, sweepVars
<1>25. ASSUME TimerFires PROVE TypeInv'
  BY <1>25 DEF TimerFires, runtimeVars, sweepVars
<1>26. CASE UNCHANGED vars
  BY <1>26 DEF vars, runtimeVars, idleVars, sweepVars
<1>27. QED
  BY <1>1, <1>2, <1>3, <1>4, <1>5, <1>6, <1>7, <1>8, <1>9, <1>10, <1>11, <1>12, <1>13,
     <1>14, <1>15, <1>16, <1>17, <1>18, <1>19, <1>20, <1>21, <1>22, <1>23, <1>24, <1>25, <1>26
  DEF Next, DisconnectSteps, Initialize, InitializeSteps, NotifySteps, SweepSteps

\* Type correctness of the upstream state: whatever handlers, sweeps, notifications and
\* timers interleave, every variable keeps its type, and no initialize loses the id of
\* the connection it is about to add.
THEOREM TypeCorrect == Spec => []TypeOK
<1>1. Init => TypeInv
  BY TypeInit
<1>2. TypeInv /\ [Next]_vars => TypeInv'
  BY TypeStep
<1>3. TypeInv => TypeOK
  BY DEF TypeInv
<1>4. QED
  BY <1>1, <1>2, <1>3, PTL DEF Spec

-----------------------------------------------------------------------------
(* Counting: the inductive invariant behind NoUndercount *)

Decr == {t \in Tasks : pc[t] = "decr"}
Incr == {s \in Sessions : pc[s] = "incr"}

\* The contexts the idle manager still has to count: the listed ones, and those the sweep
\* will uncount whether or not they are still listed.
Owed == conns \cup {x \in swept : x.id \in Natives \/ x \in old}

Account == /\ IsFiniteSet(Owed)
           /\ Cardinality(Owed) + Cardinality(Decr) <= count + Cardinality(Incr)

\* A sweep that acts on ages does not suspend, and ages are known only while the lock
\* is free: a sweep that waited for the lock reaps no connection by its age.
SweepFresh == old # {} => loop = Reaper /\ FreeLock
AgedKnown  == aged \subseteq conns /\ (~FreeLock => aged = {})
\* A context just added is listed and young until its initialize first suspends.
JustAdded  == \A s \in Sessions : pc[s] = "incr" /\ loop = s
                => [id |-> target[s], by |-> s] \in conns \ aged
\* A task at the manager's lock is running or queued.
Queued     == \A t \in Tasks : pc[t] \in {"incr", "decr"}
                => loop = t \/ \E i \in 1..Len(waiters) : waiters[i] = t
Sweeping   == /\ swept # {} => pc[Reaper] \in {"sweep", "decr"}
              /\ pc[Reaper] = "sweep" => loop = Reaper

Frame == IdleTimerSound /\ SweepFresh /\ AgedKnown /\ JustAdded /\ Queued /\ Sweeping

CountInv == TypeInv /\ Account /\ Frame

LEMMA TasksFinite == IsFiniteSet(Tasks) /\ \A S \in SUBSET Tasks : IsFiniteSet(S) /\ Cardinality(S) \in Nat
<1>1. IsFiniteSet(Sessions \cup Closers)
  BY ConnectionAssumptions, FS_Union
<1>2. IsFiniteSet({Reaper} \cup {Notifier})
  BY FS_Singleton, FS_Union
<1>3. IsFiniteSet((Sessions \cup Closers) \cup ({Reaper} \cup {Notifier}))
  BY <1>1, <1>2, FS_Union
<1>4. Tasks = (Sessions \cup Closers) \cup ({Reaper} \cup {Notifier})
  BY DEF Tasks
<1>5. IsFiniteSet(Tasks)
  BY <1>3, <1>4
<1>6. QED
  BY <1>5, FS_Subset, FS_CardinalityType

LEMMA Shrinks ==
  ASSUME NEW S, IsFiniteSet(S), NEW T, T \subseteq S
  PROVE  IsFiniteSet(T) /\ Cardinality(T) \in Nat /\ Cardinality(T) <= Cardinality(S)
BY FS_Subset, FS_CardinalityType

LEMMA Loses ==
  ASSUME NEW S, IsFiniteSet(S), NEW x \in S, NEW T, T \subseteq S \ {x}
  PROVE  IsFiniteSet(T) /\ Cardinality(T) \in Nat /\ Cardinality(T) + 1 <= Cardinality(S)
<1>1. IsFiniteSet(S \ {x}) /\ Cardinality(S \ {x}) = Cardinality(S) - 1
  BY FS_RemoveElement
<1>2. IsFiniteSet(T) /\ Cardinality(T) \in Nat /\ Cardinality(T) <= Cardinality(S \ {x})
  BY <1>1, Shrinks
<1>3. Cardinality(S) \in Nat
  BY FS_CardinalityType
<1>4. QED
  BY <1>1, <1>2, <1>3

LEMMA Grows ==
  ASSUME NEW S, IsFiniteSet(S), NEW x, NEW T, T \subseteq S \cup {x}
  PROVE  IsFiniteSet(T) /\ Cardinality(T) \in Nat /\ Cardinality(T) <= Cardinality(S) + 1
<1>1. IsFiniteSet(S \cup {x}) /\ Cardinality(S \cup {x}) = IF x \in S THEN Cardinality(S) ELSE Cardinality(S) + 1
  BY FS_AddElement
<1>2. IsFiniteSet(T) /\ Cardinality(T) \in Nat /\ Cardinality(T) <= Cardinality(S \cup {x})
  BY <1>1, Shrinks
<1>3. Cardinality(S) \in Nat
  BY FS_CardinalityType
<1>4. QED
  BY <1>1, <1>2, <1>3

\* How a step of one task moves the numbers of tasks before their decrement or increment.
LEMMA PcMoves ==
  ASSUME TypeOK, NEW t \in Tasks, NEW to, pc' = [pc EXCEPT ![t] = to]
  PROVE  /\ Cardinality(Decr') = IF to = "decr" THEN IF pc[t] = "decr" THEN Cardinality(Decr)
                                                     ELSE Cardinality(Decr) + 1
                                 ELSE IF pc[t] = "decr" THEN Cardinality(Decr) - 1 ELSE Cardinality(Decr)
         /\ t \notin Sessions => Incr' = Incr
         /\ t \in Sessions =>
              Cardinality(Incr') = IF to = "incr" THEN IF pc[t] = "incr" THEN Cardinality(Incr)
                                                       ELSE Cardinality(Incr) + 1
                                   ELSE IF pc[t] = "incr" THEN Cardinality(Incr) - 1 ELSE Cardinality(Incr)
         /\ Cardinality(Decr) \in Nat /\ Cardinality(Incr) \in Nat
         /\ Cardinality(Decr') \in Nat /\ Cardinality(Incr') \in Nat
<1>1. Decr' = IF to = "decr" THEN Decr \cup {t} ELSE Decr \ {t}
  BY DEF Decr, TypeOK
<1>2. t \in Sessions => Incr' = IF to = "incr" THEN Incr \cup {t} ELSE Incr \ {t}
  BY DEF Incr, TypeOK, Tasks
<1>3. t \notin Sessions => Incr' = Incr
  BY DEF Incr, TypeOK, Tasks
<1>4. /\ Decr \in SUBSET Tasks /\ Incr \in SUBSET Tasks
      /\ Decr' \in SUBSET Tasks /\ Incr' \in SUBSET Tasks
  BY DEF Decr, Incr, Tasks
<1>5. /\ IsFiniteSet(Decr) /\ IsFiniteSet(Incr)
      /\ Cardinality(Decr) \in Nat /\ Cardinality(Incr) \in Nat
      /\ Cardinality(Decr') \in Nat /\ Cardinality(Incr') \in Nat
  BY <1>4, TasksFinite
<1>6. t \in Decr <=> pc[t] = "decr"
  BY DEF Decr
<1>7. t \in Sessions => (t \in Incr <=> pc[t] = "incr")
  BY DEF Incr
<1>8. Cardinality(Decr \cup {t}) = (IF t \in Decr THEN Cardinality(Decr) ELSE Cardinality(Decr) + 1)
  BY <1>5, FS_AddElement
<1>9. Cardinality(Decr \ {t}) = (IF t \in Decr THEN Cardinality(Decr) - 1 ELSE Cardinality(Decr))
  BY <1>5, FS_RemoveElement
<1>10. Cardinality(Incr \cup {t}) = (IF t \in Incr THEN Cardinality(Incr) ELSE Cardinality(Incr) + 1)
  BY <1>5, FS_AddElement
<1>11. Cardinality(Incr \ {t}) = (IF t \in Incr THEN Cardinality(Incr) - 1 ELSE Cardinality(Incr))
  BY <1>5, FS_RemoveElement
<1>12. QED
  BY <1>1, <1>2, <1>3, <1>5, <1>6, <1>7, <1>8, <1>9, <1>10, <1>11
LEMMA CountInit == Init => CountInv
<1> SUFFICES ASSUME Init PROVE CountInv
  OBVIOUS
<1>1. TypeInv
  BY TypeInit
<1>2. Owed = {} /\ Decr = {} /\ Incr = {}
  BY ConnectionAssumptions DEF Init, Owed, Decr, Incr, Tasks
<1>3. Account
  BY <1>2, FS_EmptySet DEF Account, Init
<1>4. IdleTimerSound
  BY DEF Init, IdleTimerSound
<1>5. SweepFresh /\ AgedKnown
  BY DEF Init, SweepFresh, AgedKnown
<1>6. JustAdded /\ Queued /\ Sweeping
  BY ConnectionAssumptions DEF Init, JustAdded, Queued, Sweeping, Tasks
<1>7. QED
  BY <1>1, <1>3, <1>4, <1>5, <1>6 DEF CountInv, Frame

\* Nothing to count has changed hands.
LEMMA AccountKept ==
  ASSUME Account, Owed' \subseteq Owed, pc' = pc, count' = count,
         TypeOK
  PROVE  Account'
<1>1. Decr' = Decr /\ Incr' = Incr
  BY DEF Decr, Incr
<1>2. Decr \in SUBSET Tasks /\ Incr \in SUBSET Tasks
  BY DEF Decr, Incr, Tasks
<1>3. Cardinality(Decr) \in Nat /\ Cardinality(Incr) \in Nat
  BY <1>2, TasksFinite
<1>4. IsFiniteSet(Owed') /\ Cardinality(Owed') \in Nat /\ Cardinality(Owed') <= Cardinality(Owed)
  BY Shrinks DEF Account
<1>5. Cardinality(Owed) \in Nat
  BY FS_CardinalityType DEF Account
<1>6. QED
  BY <1>1, <1>3, <1>4, <1>5 DEF Account, TypeOK

\* A task that neither was nor will be before its decrement or increment moved.
LEMMA AccountMoved ==
  ASSUME Account, TypeOK, Owed' \subseteq Owed, count' = count,
         NEW t \in Tasks, NEW to, to \notin {"decr", "incr"}, pc[t] \notin {"decr", "incr"},
         pc' = [pc EXCEPT ![t] = to]
  PROVE  Account'
<1>1. /\ Cardinality(Decr') = Cardinality(Decr) /\ Cardinality(Incr') = Cardinality(Incr)
      /\ Cardinality(Decr) \in Nat /\ Cardinality(Incr) \in Nat
  BY PcMoves
<1>4. IsFiniteSet(Owed') /\ Cardinality(Owed') \in Nat /\ Cardinality(Owed') <= Cardinality(Owed)
  BY Shrinks DEF Account
<1>5. Cardinality(Owed) \in Nat
  BY FS_CardinalityType DEF Account
<1>6. QED
  BY <1>1, <1>4, <1>5 DEF Account, TypeOK

\* A context leaves and its decrement begins.
LEMMA AccountTaken ==
  ASSUME Account, TypeOK, NEW x \in Owed, Owed' \subseteq Owed \ {x}, count' = count,
         NEW t \in Tasks, pc[t] \notin {"decr", "incr"}, pc' = [pc EXCEPT ![t] = "decr"]
  PROVE  Account'
<1>1. /\ Cardinality(Decr') = Cardinality(Decr) + 1 /\ Cardinality(Incr') = Cardinality(Incr)
      /\ Cardinality(Decr) \in Nat /\ Cardinality(Incr) \in Nat
  BY PcMoves
<1>4. IsFiniteSet(Owed') /\ Cardinality(Owed') \in Nat /\ Cardinality(Owed') + 1 <= Cardinality(Owed)
  BY Loses DEF Account
<1>5. Cardinality(Owed) \in Nat
  BY FS_CardinalityType DEF Account
<1>6. QED
  BY <1>1, <1>4, <1>5 DEF Account, TypeOK

\* A decrement ends, an underflow included.
LEMMA AccountSettled ==
  ASSUME Account, TypeOK, Owed' \subseteq Owed, Decrement,
         NEW t \in Tasks, NEW to, to \notin {"decr", "incr"}, pc[t] = "decr",
         pc' = [pc EXCEPT ![t] = to]
  PROVE  Account'
<1>1. /\ Cardinality(Decr') = Cardinality(Decr) - 1 /\ Cardinality(Incr') = Cardinality(Incr)
      /\ Cardinality(Decr) \in Nat /\ Cardinality(Incr) \in Nat
  BY PcMoves
<1>4. IsFiniteSet(Owed') /\ Cardinality(Owed') \in Nat /\ Cardinality(Owed') <= Cardinality(Owed)
  BY Shrinks DEF Account
<1>5. Cardinality(Owed) \in Nat
  BY FS_CardinalityType DEF Account
<1>6. QED
  BY <1>1, <1>4, <1>5 DEF Account, TypeOK, Decrement
LEMMA AccountStep == CountInv /\ [Next]_vars => Account'
<1> SUFFICES ASSUME CountInv, [Next]_vars PROVE Account'
  OBVIOUS
<1> USE ConnectionAssumptions DEF CountInv, TypeInv
<1>1. ASSUME NEW b \in Bridges, Connect(b) PROVE Account'
  BY <1>1, AccountKept DEF Connect, idleVars, sweepVars, Owed
<1>2. ASSUME NEW d \in Closers, NEW c \in ConnIds, Disconnect(d, c) PROVE Account'
  <2>1. d \in Tasks /\ pc[d] = "idle" /\ loop = None /\ old = {}
    BY <1>2 DEF Disconnect, Begins, Frame, SweepFresh, Tasks
  <2>2. c \in Natives => swept = {}
    BY <1>2, <2>1 DEF Disconnect, FreeLock, Frame, Sweeping, Queued, Tasks, TypeOK
  <2>3. Owed' = Owed \ Of(c)
    BY <1>2, <2>1, <2>2 DEF Disconnect, Cleanup, Owed, Of, sweepVars, TypeOK, Contexts, ConnIds
  <2>4. CASE Live(c)
    <3>1. PICK x \in conns : x \in Of(c)
      BY <2>4 DEF Live
    <3>2. x \in Owed /\ Owed' \subseteq Owed \ {x}
      BY <2>3, <3>1 DEF Owed
    <3>3. QED
      BY <1>2, <2>1, <2>4, <3>2, AccountTaken DEF Disconnect, Goto, idleVars
  <2>5. CASE ~Live(c)
    BY <1>2, <2>3, <2>5, AccountKept DEF Disconnect, idleVars
  <2>6. QED
    BY <2>4, <2>5
<1>3. ASSUME NEW t \in Tasks, AwaitLock(t) PROVE Account'
  BY <1>3, AccountKept DEF AwaitLock, runtimeVars, sweepVars, Owed
<1>4. ASSUME NEW d \in Closers, DisconnectDecrement(d) PROVE Account'
  BY <1>4, AccountSettled DEF DisconnectDecrement, Goto, runtimeVars, sweepVars, Owed, Tasks
<1>5. ASSUME NEW s \in Sessions, NEW b \in Bridges, InitializeBridge(s, b) PROVE Account'
  <2>1. s \in Tasks /\ pc[s] = "idle" /\ loop = None /\ old = {}
    BY <1>5 DEF InitializeBridge, Begins, Frame, SweepFresh, Tasks
  <2>2. Owed' = Owed \ Of(b)
    BY <1>5, <2>1 DEF InitializeBridge, Owed, Of, sweepVars, TypeOK, Contexts, ConnIds
  <2>3. CASE Live(b)
    <3>1. PICK x \in conns : x \in Of(b)
      BY <2>3 DEF Live
    <3>2. x \in Owed /\ Owed' \subseteq Owed \ {x}
      BY <2>2, <3>1 DEF Owed
    <3>3. QED
      BY <1>5, <2>1, <2>3, <3>2, AccountTaken DEF InitializeBridge, Goto, idleVars
  <2>4. CASE ~Live(b)
    BY <1>5, <2>1, <2>2, <2>4, AccountMoved DEF InitializeBridge, Goto, idleVars
  <2>5. QED
    BY <2>3, <2>4
<1>6. ASSUME NEW s \in Sessions, NEW n \in Natives, InitializeNative(s, n) PROVE Account'
  BY <1>6, AccountMoved DEF InitializeNative, Begins, Goto, idleVars, sweepVars, Owed, Tasks
<1>7. ASSUME NEW s \in Sessions, InitializeDecrement(s) PROVE Account'
  <2>1. s \in Tasks /\ Owed' = Owed /\ Decrement /\ pc[s] = "decr"
    BY <1>7 DEF InitializeDecrement, sweepVars, Owed, Tasks
  <2>2. CASE count = 0
    BY <1>7, <2>1, <2>2, AccountSettled DEF InitializeDecrement, Returns, Goto
  <2>3. CASE count # 0
    BY <1>7, <2>1, <2>3, AccountSettled DEF InitializeDecrement, Goto
  <2>4. QED
    BY <2>2, <2>3
<1>8. ASSUME NEW s \in Sessions, Reject(s) PROVE Account'
  BY <1>8, AccountMoved DEF Reject, Continues, Returns, Goto, runtimeVars, idleVars, sweepVars, Owed, Tasks
<1>9. ASSUME NEW s \in Sessions, Admit(s) PROVE Account'
  <2>1. s \in Tasks /\ pc[s] = "admit" /\ pc' = [pc EXCEPT ![s] = "incr"] /\ count' = count
    BY <1>9 DEF Admit, Continues, Goto, idleVars, Tasks
  <2>2. /\ Cardinality(Decr') = Cardinality(Decr) /\ Cardinality(Incr') = Cardinality(Incr) + 1
        /\ Cardinality(Decr) \in Nat /\ Cardinality(Incr) \in Nat
    BY <2>1, PcMoves
  <2>3. Owed' \subseteq Owed \cup {[id |-> target[s], by |-> s]}
    BY <1>9 DEF Admit, Owed, sweepVars
  <2>4. /\ IsFiniteSet(Owed') /\ Cardinality(Owed') \in Nat
        /\ Cardinality(Owed') <= Cardinality(Owed) + 1
    BY <2>3, Grows DEF Account
  <2>5. Cardinality(Owed) \in Nat
    BY FS_CardinalityType DEF Account
  <2>6. QED
    BY <2>1, <2>2, <2>4, <2>5 DEF Account, TypeOK
<1>10. ASSUME NEW s \in Sessions, InitializeIncrement(s) PROVE Account'
  <2>1. s \in Tasks /\ pc[s] = "incr" /\ count' = count + 1 /\ Owed' = Owed
    BY <1>10 DEF InitializeIncrement, Increment, runtimeVars, sweepVars, Owed, Tasks
  <2>2. \E to \in {"cancelling", "capture"} : pc' = [pc EXCEPT ![s] = to]
    BY <1>10 DEF InitializeIncrement, Increment, Goto
  <2>3. PICK to \in {"cancelling", "capture"} : pc' = [pc EXCEPT ![s] = to]
    BY <2>2
  <2>4. /\ Cardinality(Decr') = Cardinality(Decr) /\ Cardinality(Incr') = Cardinality(Incr) - 1
        /\ Cardinality(Decr) \in Nat /\ Cardinality(Incr) \in Nat
    BY <2>1, <2>3, PcMoves
  <2>5. Cardinality(Owed) \in Nat
    BY FS_CardinalityType DEF Account
  <2>6. QED
    BY <2>1, <2>4, <2>5 DEF Account, TypeOK
<1>11. ASSUME NEW s \in Sessions, TimerCancelled(s) PROVE Account'
  BY <1>11, AccountMoved DEF TimerCancelled, Resumes, Goto, runtimeVars, sweepVars, Owed, Tasks
<1>12. ASSUME NEW s \in Sessions, Capture(s) PROVE Account'
  <2>1. s \in Tasks /\ pc[s] = "capture" /\ count' = count /\ Owed' \subseteq Owed
    BY <1>12 DEF Capture, Continues, Cleanup, idleVars, sweepVars, Owed, Tasks
  <2>2. \E to \in {"idle", "respond"} : pc' = [pc EXCEPT ![s] = to]
    BY <1>12 DEF Capture, Returns, Goto
  <2>3. QED
    BY <2>1, <2>2, AccountMoved
<1>13. ASSUME NEW s \in Sessions, Respond(s) PROVE Account'
  BY <1>13, AccountMoved DEF Respond, Resumes, Returns, Goto, runtimeVars, idleVars, sweepVars, Owed, Tasks
<1>14. ASSUME NEW s \in Sessions, RespondFails(s) PROVE Account'
  BY <1>14, AccountMoved DEF RespondFails, Resumes, Cleanup, Returns, Goto, idleVars, sweepVars, Owed, Tasks
<1>15. ASSUME NEW s \in Sessions, UseBound(s) \/ Adopt(s) PROVE Account'
  BY <1>15, AccountKept DEF UseBound, Adopt, idleVars, sweepVars, Owed
<1>16. ASSUME NEW c \in ConnIds, NotifyBegin(c) PROVE Account'
  BY <1>16, AccountMoved DEF NotifyBegin, Begins, Goto, runtimeVars, idleVars, sweepVars, Owed, Tasks
<1>17. CASE NotifySteps
  BY <1>17, AccountMoved DEF NotifySteps, NotifySent, NotifyFails, Resumes, Returns, Goto, runtimeVars,
     idleVars, sweepVars, Owed, Tasks
<1>18. CASE SweepBegin
  BY <1>18, AccountMoved DEF SweepBegin, Begins, Goto, runtimeVars, idleVars, Owed, Tasks
<1>19. ASSUME NEW x \in Contexts, SweepOne(x) PROVE Account'
  <2>1. Reaper \in Tasks /\ pc[Reaper] = "sweep" /\ count' = count /\ x \in swept
    BY <1>19 DEF SweepOne, Continues, idleVars, Tasks
  <2>2. CASE Reapable(x)
    <3>1. x \in Owed
      BY <2>1, <2>2 DEF Reapable, Owed
    <3>2. Owed' \subseteq Owed \ {x}
      BY <1>19, <2>2 DEF SweepOne, Cleanup, Owed, Of
    <3>3. QED
      BY <1>19, <2>1, <2>2, <3>1, <3>2, AccountTaken DEF SweepOne, Goto
  <2>3. CASE ~Reapable(x)
    BY <1>19, <2>1, <2>3, AccountKept DEF SweepOne, runtimeVars, Owed
  <2>4. QED
    BY <2>2, <2>3
<1>20. CASE SweepDecrement
  BY <1>20, AccountSettled DEF SweepDecrement, Goto, runtimeVars, sweepVars, Owed, Tasks
<1>21. CASE SweepEnd
  BY <1>21, AccountMoved DEF SweepEnd, Continues, Goto, runtimeVars, idleVars, Owed, Tasks
<1>22. ASSUME NEW x \in Contexts, Age(x) PROVE Account'
  BY <1>22, AccountKept DEF Age, idleVars, sweepVars, Owed
<1>23. CASE TimerFires
  BY <1>23, AccountKept DEF TimerFires, runtimeVars, sweepVars, Owed
<1>24. CASE UNCHANGED vars
  BY <1>24, AccountKept DEF vars, runtimeVars, idleVars, sweepVars, Owed
<1>25. QED
  BY <1>1, <1>2, <1>3, <1>4, <1>5, <1>6, <1>7, <1>8, <1>9, <1>10, <1>11, <1>12, <1>13,
     <1>14, <1>15, <1>16, <1>17, <1>18, <1>19, <1>20, <1>21, <1>22, <1>23, <1>24
  DEF Next, DisconnectSteps, Initialize, InitializeSteps, SweepSteps, Tasks

\* Getting the lock: the others stay queued, and no lock becomes busy by it.
LEMMA AcquiresKeeps ==
  ASSUME TypeOK, NEW t \in Tasks, Acquires(t)
  PROVE  /\ holder = None /\ loop \in {t, None}
         /\ waiters' # <<>> => ~FreeLock
         /\ FreeLock => waiters' = <<>>
         /\ ~FreeLock => loop = None
         /\ \A u \in Tasks :
              u # t /\ (loop = u \/ \E i \in 1..Len(waiters) : waiters[i] = u)
                 => \E i \in 1..Len(waiters') : waiters'[i] = u
<1>1. CASE loop = t /\ FreeLock /\ UNCHANGED waiters
  <2>1. waiters = <<>> /\ holder = None /\ Len(waiters) = 0 /\ waiters' = waiters
    BY <1>1 DEF FreeLock
  <2>2. QED
    BY <1>1, <2>1 DEF FreeLock
<1>2. CASE /\ loop = None /\ holder = None /\ waiters # <<>> /\ Head(waiters) = t
           /\ waiters' = Tail(waiters)
  <2>1. waiters \in Seq(Tasks)
    BY DEF TypeOK
  <2>2. None \notin Tasks
    BY ConnectionAssumptions DEF Tasks
  <2>3. ASSUME NEW u \in Tasks, u # t, NEW i \in 1..Len(waiters), waiters[i] = u
        PROVE  \E j \in 1..Len(waiters') : waiters'[j] = u
    <3>1. i # 1
      BY <1>2, <2>1, <2>3
    <3>2. i - 1 \in 1..Len(waiters') /\ waiters'[i - 1] = waiters[i]
      BY <1>2, <2>1, <3>1
    <3>3. QED
      BY <2>3, <3>2
  <2>4. QED
    BY <1>2, <2>2, <2>3 DEF FreeLock
<1>3. QED
  BY <1>1, <1>2 DEF Acquires

\* The decrement of task t, which then runs on or ends.
LEMMA FrameSettled ==
  ASSUME CountInv, TypeInv', NEW t \in Tasks, Acquires(t), Decrement,
         NEW to \in {"idle", "admit", "sweep"}, pc[t] = "decr", pc' = [pc EXCEPT ![t] = to],
         UNCHANGED <<conns, aged, swept, old>>, loop' \in {t, None},
         t = Reaper => to = "sweep" /\ loop' = t, to = "sweep" => t = Reaper
  PROVE  Frame'
<1> USE ConnectionAssumptions DEF CountInv, TypeInv, TypeOK, Frame
<1>1. /\ holder = None /\ holder' = None /\ loop \in {t, None}
      /\ waiters' # <<>> => ~FreeLock
      /\ FreeLock => waiters' = <<>>
      /\ ~FreeLock => loop = None
  BY AcquiresKeeps DEF Decrement
<1>2. None \notin Tasks /\ Reaper \in Tasks
  BY DEF Tasks
<1>3. IdleTimerSound'
  BY <1>1 DEF IdleTimerSound, Decrement
<1>4. SweepFresh'
  BY <1>1, <1>2 DEF SweepFresh, FreeLock
<1>5. AgedKnown'
  BY <1>1 DEF AgedKnown, FreeLock
<1>6. JustAdded'
  BY <1>2 DEF JustAdded, Tasks
<1>7. Queued'
  <2>1. SUFFICES ASSUME NEW u \in Tasks, pc'[u] \in {"incr", "decr"}
                 PROVE  \E i \in 1..Len(waiters') : waiters'[i] = u
    BY DEF Queued
  <2>2. u # t /\ pc[u] \in {"incr", "decr"}
    BY <2>1
  <2>3. loop = u \/ \E i \in 1..Len(waiters) : waiters[i] = u
    BY <2>2 DEF Queued
  <2>4. QED
    BY <2>2, <2>3, AcquiresKeeps
<1>8. Sweeping'
  BY <1>1, <1>2 DEF Sweeping
<1>9. QED
  BY <1>3, <1>4, <1>5, <1>6, <1>7, <1>8

\* An initialize that finds the lock free and the timer armed is alone: the manager
\* counts nothing, so the context it just added is the only one, and it is young.
LEMMA LoneArrival ==
  ASSUME CountInv, NEW s \in Sessions, pc[s] = "incr", loop \in {s, None}, FreeLock, timer = "armed"
  PROVE  aged = {}
<1> USE ConnectionAssumptions DEF CountInv, TypeInv, TypeOK, Frame
<1>1. \A t \in Tasks : pc[t] \in {"incr", "decr"} => loop = t
  <2>1. Len(waiters) = 0
    BY DEF FreeLock
  <2>2. QED
    BY <2>1 DEF Queued
<1>2. s \in Tasks /\ loop = s
  BY <1>1 DEF Tasks
<1>3. Incr = {s} /\ Decr = {}
  BY <1>1, <1>2 DEF Incr, Decr, Tasks
<1>4. count = 0 /\ Cardinality(Incr) = 1 /\ Cardinality(Decr) = 0
  BY <1>3, FS_Singleton, FS_EmptySet DEF IdleTimerSound
<1>5. IsFiniteSet(Owed) /\ Cardinality(Owed) \in Nat /\ Cardinality(Owed) <= 1
  BY <1>4, FS_CardinalityType DEF Account
<1> DEFINE new == [id |-> target[s], by |-> s]
<1>6. new \in conns \ aged
  BY <1>2 DEF JustAdded
<1>7. \A x \in Owed : x = new
  <2>1. SUFFICES ASSUME NEW x \in Owed, x # new PROVE FALSE
    OBVIOUS
  <2>2. new \in Owed /\ {new} \subseteq Owed \ {x}
    BY <1>6, <2>1 DEF Owed
  <2>3. Cardinality({new}) + 1 <= Cardinality(Owed)
    BY <1>5, <2>1, <2>2, Loses
  <2>4. Cardinality({new}) = 1
    BY FS_Singleton
  <2>5. QED
    BY <1>5, <2>3, <2>4
<1>8. aged \subseteq Owed
  BY DEF AgedKnown, Owed
<1>9. QED
  BY <1>6, <1>7, <1>8

LEMMA FrameStep == CountInv /\ [Next]_vars => Frame'
<1> SUFFICES ASSUME CountInv, [Next]_vars PROVE Frame'
  OBVIOUS
<1>0. TypeInv'
  BY TypeStep DEF CountInv
<1> USE <1>0, ConnectionAssumptions DEF CountInv, TypeInv, TypeOK, Tasks, Frame, IdleTimerSound,
        SweepFresh, AgedKnown, JustAdded, Queued, Sweeping, FreeLock
<1>1. ASSUME NEW b \in Bridges, Connect(b) PROVE Frame'
  BY <1>1 DEF Connect, idleVars, sweepVars
<1>2. ASSUME NEW d \in Closers, NEW c \in ConnIds, Disconnect(d, c) PROVE Frame'
  BY <1>2 DEF Disconnect, Begins, Cleanup, Goto, idleVars, sweepVars
<1>3. ASSUME NEW t \in Tasks, AwaitLock(t) PROVE Frame'
  BY <1>3 DEF AwaitLock, runtimeVars, sweepVars
<1>4. ASSUME NEW d \in Closers, DisconnectDecrement(d) PROVE Frame'
  BY <1>4, FrameSettled DEF DisconnectDecrement, Goto, runtimeVars, sweepVars
<1>5. ASSUME NEW s \in Sessions, NEW b \in Bridges, InitializeBridge(s, b) PROVE Frame'
  BY <1>5 DEF InitializeBridge, Begins, Goto, idleVars, sweepVars
<1>6. ASSUME NEW s \in Sessions, NEW n \in Natives, InitializeNative(s, n) PROVE Frame'
  BY <1>6 DEF InitializeNative, Begins, Goto, idleVars, sweepVars
<1>7. ASSUME NEW s \in Sessions, InitializeDecrement(s) PROVE Frame'
  <2>1. \E to \in {"idle", "admit"} : pc' = [pc EXCEPT ![s] = to]
    BY <1>7 DEF InitializeDecrement, Goto, Returns
  <2>2. loop' \in {s, None} /\ UNCHANGED <<conns, aged, swept, old>> /\ s # Reaper
    BY <1>7 DEF InitializeDecrement, sweepVars
  <2>3. Acquires(s) /\ Decrement /\ pc[s] = "decr"
    BY <1>7 DEF InitializeDecrement
  <2>4. QED
    BY <2>1, <2>2, <2>3, FrameSettled
<1>8. ASSUME NEW s \in Sessions, Reject(s) PROVE Frame'
  BY <1>8 DEF Reject, Continues, Goto, Returns, runtimeVars, idleVars, sweepVars
<1>9. ASSUME NEW s \in Sessions, Admit(s) PROVE Frame'
  BY <1>9 DEF Admit, Continues, Goto, idleVars, sweepVars
<1>10. ASSUME NEW s \in Sessions, InitializeIncrement(s) PROVE Frame'
  <2>1. s \in Tasks /\ pc[s] = "incr" /\ Acquires(s)
    BY <1>10 DEF InitializeIncrement
  <2>2. /\ holder = None /\ loop \in {s, None} /\ s # Reaper /\ None \notin Tasks
        /\ waiters' # <<>> => ~FreeLock
        /\ ~FreeLock => loop = None
    BY <2>1, AcquiresKeeps
  <2>3. UNCHANGED <<conns, aged, swept, old, target>> /\ old = {} /\ pc'[Reaper] = pc[Reaper]
    BY <1>10, <2>2 DEF InitializeIncrement, Increment, Goto, runtimeVars, sweepVars
  <2>4. timer = "armed" /\ FreeLock => aged = {}
    BY <1>10, <2>1, <2>2, LoneArrival
  <2>5. AgedKnown'
    BY <1>10, <2>2, <2>3, <2>4 DEF InitializeIncrement, Increment
  <2>6. IdleTimerSound'
    BY <1>10 DEF InitializeIncrement, Increment
  <2>7. SweepFresh' /\ Sweeping'
    BY <1>10, <2>2, <2>3 DEF InitializeIncrement, Increment
  <2>8. JustAdded'
    BY <1>10, <2>2 DEF InitializeIncrement, Increment, Goto
  <2>9. Queued'
    <3>1. SUFFICES ASSUME NEW u \in Tasks, pc'[u] \in {"incr", "decr"}
                   PROVE  \E i \in 1..Len(waiters') : waiters'[i] = u
      OBVIOUS
    <3>2. u # s /\ pc[u] \in {"incr", "decr"}
      BY <1>10, <3>1 DEF InitializeIncrement, Increment, Goto
    <3>3. loop = u \/ \E i \in 1..Len(waiters) : waiters[i] = u
      BY <3>2
    <3>4. QED
      BY <2>1, <3>2, <3>3, AcquiresKeeps, ZenonT(40)
  <2>10. QED
    BY <2>5, <2>6, <2>7, <2>8, <2>9
<1>11. ASSUME NEW s \in Sessions, TimerCancelled(s) PROVE Frame'
  BY <1>11 DEF TimerCancelled, Resumes, Goto, runtimeVars, sweepVars
<1>12. ASSUME NEW s \in Sessions, Capture(s) PROVE Frame'
  BY <1>12 DEF Capture, Continues, Cleanup, Goto, Returns, idleVars, sweepVars
<1>13. ASSUME NEW s \in Sessions, Respond(s) PROVE Frame'
  BY <1>13 DEF Respond, Resumes, Goto, Returns, runtimeVars, idleVars, sweepVars
<1>14. ASSUME NEW s \in Sessions, RespondFails(s) PROVE Frame'
  BY <1>14 DEF RespondFails, Resumes, Cleanup, Goto, Returns, idleVars, sweepVars
<1>15. ASSUME NEW s \in Sessions, UseBound(s) PROVE Frame'
  BY <1>15 DEF UseBound, idleVars, sweepVars
<1>16. ASSUME NEW s \in Sessions, Adopt(s) PROVE Frame'
  BY <1>16 DEF Adopt, idleVars, sweepVars
<1>17. ASSUME NEW c \in ConnIds, NotifyBegin(c) PROVE Frame'
  BY <1>17 DEF NotifyBegin, Begins, Goto, runtimeVars, idleVars, sweepVars
<1>18. CASE NotifySteps
  BY <1>18, SMTT(30)
  DEF NotifySteps, NotifySent, NotifyFails, Resumes, Goto, Returns, runtimeVars, idleVars, sweepVars
<1>19. CASE SweepBegin
  BY <1>19 DEF SweepBegin, Begins, Goto, runtimeVars, idleVars
<1>20. ASSUME NEW x \in Contexts, SweepOne(x) PROVE Frame'
  BY <1>20 DEF SweepOne, Continues, Cleanup, Goto, runtimeVars, idleVars
<1>21. CASE SweepDecrement
  BY <1>21, FrameSettled DEF SweepDecrement, Goto, runtimeVars, sweepVars
<1>22. CASE SweepEnd
  BY <1>22 DEF SweepEnd, Continues, Goto, runtimeVars, idleVars
<1>23. ASSUME NEW x \in Contexts, Age(x) PROVE Frame'
  BY <1>23 DEF Age, idleVars, sweepVars
<1>24. CASE TimerFires
  BY <1>24 DEF TimerFires, runtimeVars, sweepVars
<1>25. CASE UNCHANGED vars
  BY <1>25 DEF vars, runtimeVars, idleVars, sweepVars
<1>26. QED
  BY <1>1, <1>2, <1>3, <1>4, <1>5, <1>6, <1>7, <1>8, <1>9, <1>10, <1>11, <1>12, <1>13,
     <1>14, <1>15, <1>16, <1>17, <1>18, <1>19, <1>20, <1>21, <1>22, <1>23, <1>24, <1>25
  DEF Next, DisconnectSteps, Initialize, InitializeSteps, SweepSteps

LEMMA CountStep == CountInv /\ [Next]_vars => CountInv'
BY TypeStep, AccountStep, FrameStep DEF CountInv

\* NoUndercount for every instance: initialize, /disconnect and the reaper never take a
\* connection off the idle manager's count twice, so it never counts fewer connections
\* than the runtime list holds.
THEOREM Counted == Spec => []NoUndercount
<1>1. Init => CountInv
  BY CountInit
<1>2. CountInv /\ [Next]_vars => CountInv'
  BY CountStep
<1>3. CountInv => NoUndercount
  <2>1. SUFFICES ASSUME CountInv PROVE NoUndercount
    OBVIOUS
  <2>2. conns \subseteq Owed /\ IsFiniteSet(Owed)
    BY <2>1 DEF Owed, CountInv, Account
  <2>3. /\ Cardinality(conns) \in Nat /\ Cardinality(Owed) \in Nat
        /\ Cardinality(conns) <= Cardinality(Owed)
    BY <2>2, Shrinks, FS_CardinalityType
  <2>4. Decr \in SUBSET Tasks /\ Incr \in SUBSET Tasks
    BY DEF Decr, Incr, Tasks
  <2>5. Cardinality(Decr) \in Nat /\ Cardinality(Incr) \in Nat
    BY <2>4, TasksFinite
  <2>6. QED
    BY <2>1, <2>3, <2>5 DEF NoUndercount, CountInv, TypeInv, TypeOK, Account, Decr, Incr
<1>4. QED
  BY <1>1, <1>2, <1>3, PTL DEF Spec

\* IdleTimerSound for every instance: the idle timer sleeps only while the manager counts
\* nothing and nobody is inside its lock.
THEOREM TimerSound == Spec => []IdleTimerSound
<1>1. Init => CountInv
  BY CountInit
<1>2. CountInv /\ [Next]_vars => CountInv'
  BY CountStep
<1>3. CountInv => IdleTimerSound
  BY DEF CountInv, Frame
<1>4. QED
  BY <1>1, <1>2, <1>3, PTL DEF Spec

-----------------------------------------------------------------------------
(* Counting in the order of the lock's queue: what IdleStopSpares rests on *)

\* A queued task is before its increment or decrement, suspended, and queued once.
Orderly ==
  /\ \A i \in 1..Len(waiters) : pc[waiters[i]] \in {"incr", "decr"} /\ waiters[i] # loop
  /\ \A i, j \in 1..Len(waiters) : waiters[i] = waiters[j] => i = j

\* The tasks that will get the lock, in order: those queued, and a running one that has come to it.
AtLock == IF loop # None /\ pc[loop] \in {"incr", "decr"} THEN Append(waiters, loop) ELSE waiters
First(k) == {AtLock[i] : i \in 1..k}

\* What is to be counted once the tasks P have had the lock: all but what the other initializes
\* have added.
New(s) == [id |-> target[s], by |-> s]
Due(P) == Owed \ {New(s) : s \in Incr \ P}

\* The books balance however far the queue has been served, not only at its end (Account).
BalancedFor(P) == Cardinality(Due(P)) + Cardinality(Decr \cap P) <= count + Cardinality(Incr \cap P)
Balanced == \A k \in 0..Len(AtLock) : BalancedFor(First(k))

LedgerInv == CountInv /\ Orderly /\ Balanced

LEMMA OrderlyStep == CountInv /\ Orderly /\ [Next]_vars => Orderly'
<1> SUFFICES ASSUME CountInv, Orderly, [Next]_vars PROVE Orderly'
  OBVIOUS
<1> USE ConnectionAssumptions DEF CountInv, TypeInv, TypeOK, Orderly
<1>1. ASSUME UNCHANGED waiters, NEW t \in Tasks, pc[t] \notin {"incr", "decr"}, NEW to,
             pc' = [pc EXCEPT ![t] = to], loop' \in {loop, t, None}
      PROVE  Orderly'
  BY <1>1 DEF Tasks
<1>2. ASSUME UNCHANGED <<waiters, pc>>, loop' \in {loop, None} PROVE Orderly'
  BY <1>2 DEF Tasks
<1>3. ASSUME NEW t \in Tasks, Acquires(t), pc[t] \in {"incr", "decr"}, NEW to,
             pc' = [pc EXCEPT ![t] = to], loop' \in {t, None}
      PROVE  Orderly'
  <2>1. CASE FreeLock /\ UNCHANGED waiters
    BY <2>1 DEF FreeLock
  <2>2. CASE waiters # <<>> /\ Head(waiters) = t /\ waiters' = Tail(waiters)
    <3>1. /\ waiters[1] = t /\ Len(waiters') = Len(waiters) - 1
          /\ \A i \in 1..Len(waiters') : i + 1 \in 1..Len(waiters) /\ waiters'[i] = waiters[i + 1]
      BY <2>2
    <3>2. \A i \in 1..Len(waiters') : waiters'[i] # t /\ waiters'[i] \in Tasks
      BY <3>1, SMTT(40)
    <3>3. \A i \in 1..Len(waiters') : pc'[waiters'[i]] = pc[waiters'[i]] /\ waiters'[i] # loop'
      BY <1>3, <3>2 DEF Tasks
    <3>4. \A i \in 1..Len(waiters') : pc'[waiters'[i]] \in {"incr", "decr"} /\ waiters'[i] # loop'
      BY <3>1, <3>3
    <3>5. \A i, j \in 1..Len(waiters') : waiters'[i] = waiters'[j] => i = j
      BY <3>1, SMTT(40)
    <3>6. QED
      BY <3>4, <3>5
  <2>3. QED
    BY <1>3, <2>1, <2>2 DEF Acquires
<1>4. ASSUME NEW t \in Tasks, AwaitLock(t) PROVE Orderly'
  <2>1. /\ waiters' = Append(waiters, t) /\ UNCHANGED pc /\ loop' = None
        /\ loop = t /\ pc[t] \in {"incr", "decr"} /\ None \notin Tasks
    BY <1>4 DEF AwaitLock, Tasks
  <2>2. /\ Len(waiters') = Len(waiters) + 1 /\ waiters'[Len(waiters')] = t
        /\ \A i \in 1..Len(waiters) : waiters'[i] = waiters[i] /\ waiters[i] # t
    BY <2>1
  <2>3. \A i \in 1..Len(waiters') : waiters'[i] \in Tasks
    BY <2>1, <2>2
  <2>4. QED
    BY <2>1, <2>2, <2>3
<1>5. ASSUME NEW b \in Bridges, Connect(b) PROVE Orderly'
  BY <1>5, <1>2 DEF Connect, idleVars
<1>6. ASSUME NEW d \in Closers, NEW c \in ConnIds, Disconnect(d, c) PROVE Orderly'
  BY <1>6, <1>1, <1>2 DEF Disconnect, Begins, Goto, idleVars, Tasks
<1>7. ASSUME NEW d \in Closers, DisconnectDecrement(d) PROVE Orderly'
  BY <1>7, <1>3 DEF DisconnectDecrement, Goto, Tasks
<1>8. ASSUME NEW s \in Sessions, NEW b \in Bridges, InitializeBridge(s, b) PROVE Orderly'
  BY <1>8, <1>1 DEF InitializeBridge, Begins, Goto, idleVars, Tasks
<1>9. ASSUME NEW s \in Sessions, NEW n \in Natives, InitializeNative(s, n) PROVE Orderly'
  BY <1>9, <1>1 DEF InitializeNative, Begins, Goto, idleVars, Tasks
<1>10. ASSUME NEW s \in Sessions, InitializeDecrement(s) PROVE Orderly'
  <2>1. PICK to \in {"idle", "admit"} : pc' = [pc EXCEPT ![s] = to]
    BY <1>10 DEF InitializeDecrement, Goto, Returns
  <2>2. s \in Tasks /\ Acquires(s) /\ pc[s] = "decr" /\ loop' \in {s, None}
    BY <1>10 DEF InitializeDecrement, Tasks
  <2>3. QED
    BY <2>1, <2>2, <1>3
<1>11. ASSUME NEW s \in Sessions, Reject(s) \/ Admit(s) PROVE Orderly'
  BY <1>11, <1>1 DEF Reject, Admit, Continues, Goto, Returns, idleVars, Tasks
<1>12. ASSUME NEW s \in Sessions, InitializeIncrement(s) PROVE Orderly'
  <2>1. PICK to \in {"cancelling", "capture"} : pc' = [pc EXCEPT ![s] = to]
    BY <1>12 DEF InitializeIncrement, Increment, Goto
  <2>2. s \in Tasks /\ Acquires(s) /\ pc[s] = "incr" /\ loop' \in {s, None}
    BY <1>12 DEF InitializeIncrement, Increment, Tasks
  <2>3. QED
    BY <2>1, <2>2, <1>3
<1>13. ASSUME NEW s \in Sessions, TimerCancelled(s) PROVE Orderly'
  BY <1>13, <1>1 DEF TimerCancelled, Resumes, Goto, Tasks
<1>14. ASSUME NEW s \in Sessions, Capture(s) PROVE Orderly'
  <2>1. PICK to \in {"respond", "idle"} : pc' = [pc EXCEPT ![s] = to]
    BY <1>14 DEF Capture, Goto, Returns
  <2>2. s \in Tasks /\ pc[s] = "capture" /\ loop' = None /\ UNCHANGED waiters
    BY <1>14 DEF Capture, Continues, idleVars, Tasks
  <2>3. QED
    BY <2>1, <2>2, <1>1
<1>15. ASSUME NEW s \in Sessions, Respond(s) \/ RespondFails(s) PROVE Orderly'
  BY <1>15, <1>1 DEF Respond, RespondFails, Resumes, Goto, Returns, idleVars, Tasks
<1>16. ASSUME NEW s \in Sessions, UseBound(s) \/ Adopt(s) PROVE Orderly'
  BY <1>16, <1>2 DEF UseBound, Adopt, idleVars
<1>17. ASSUME NEW c \in ConnIds, NotifyBegin(c) PROVE Orderly'
  BY <1>17, <1>1 DEF NotifyBegin, Begins, Goto, idleVars, Tasks
<1>18. CASE NotifySteps
  BY <1>18, <1>1 DEF NotifySteps, NotifySent, NotifyFails, Resumes, Goto, Returns, idleVars, Tasks
<1>19. CASE SweepBegin \/ SweepEnd
  BY <1>19, <1>1 DEF SweepBegin, SweepEnd, Begins, Continues, Goto, idleVars, Tasks
<1>20. ASSUME NEW x \in Contexts, SweepOne(x) PROVE Orderly'
  BY <1>20, <1>1, <1>2 DEF SweepOne, Continues, Goto, idleVars, Tasks
<1>21. CASE SweepDecrement
  BY <1>21, <1>3 DEF SweepDecrement, Goto, Tasks
<1>22. ASSUME NEW x \in Contexts, Age(x) PROVE Orderly'
  BY <1>22, <1>2 DEF Age, idleVars
<1>23. CASE TimerFires
  BY <1>23, <1>2 DEF TimerFires
<1>24. CASE UNCHANGED vars
  BY <1>24, <1>2 DEF vars, idleVars
<1>25. QED
  BY <1>4, <1>5, <1>6, <1>7, <1>8, <1>9, <1>10, <1>11, <1>12, <1>13, <1>14, <1>15, <1>16,
     <1>17, <1>18, <1>19, <1>20, <1>21, <1>22, <1>23, <1>24
  DEF Next, DisconnectSteps, Initialize, InitializeSteps, SweepSteps, Tasks

\* Nothing is due that is not owed, and all the sets that are counted are finite.
LEMMA DueFinite ==
  ASSUME CountInv, NEW P
  PROVE  /\ IsFiniteSet(Due(P)) /\ Cardinality(Due(P)) \in Nat
         /\ IsFiniteSet(Decr \cap P) /\ Cardinality(Decr \cap P) \in Nat
         /\ IsFiniteSet(Incr \cap P) /\ Cardinality(Incr \cap P) \in Nat
<1>1. Due(P) \subseteq Owed /\ IsFiniteSet(Owed)
  BY DEF Due, CountInv, Account
<1>2. Decr \cap P \in SUBSET Tasks /\ Incr \cap P \in SUBSET Tasks
  BY DEF Decr, Incr, Tasks
<1>3. QED
  BY <1>1, <1>2, Shrinks, TasksFinite

\* The books of the tasks P still balance when no more is due and no task of P has moved.
LEMMA BalanceKept ==
  ASSUME CountInv, NEW P, BalancedFor(P), Due(P)' \subseteq Due(P), count' = count,
         Decr' \cap P = Decr \cap P, Incr' \cap P = Incr \cap P
  PROVE  BalancedFor(P)'
<1>1. Cardinality(Due(P)') <= Cardinality(Due(P)) /\ Cardinality(Due(P)') \in Nat
  BY Shrinks, DueFinite
<1>2. /\ Cardinality(Due(P)) \in Nat /\ Cardinality(Decr \cap P) \in Nat
      /\ Cardinality(Incr \cap P) \in Nat /\ count \in Nat
  BY DueFinite DEF CountInv, TypeInv, TypeOK
<1>3. Cardinality(Due(P)) + Cardinality(Decr \cap P) <= count + Cardinality(Incr \cap P)
  BY DEF BalancedFor
<1>4. /\ Cardinality(Decr' \cap P) = Cardinality(Decr \cap P)
      /\ Cardinality(Incr' \cap P) = Cardinality(Incr \cap P)
  BY Zenon
<1>5. Cardinality(Due(P)') + Cardinality(Decr' \cap P) <= count' + Cardinality(Incr' \cap P)
  BY <1>1, <1>2, <1>3, <1>4
<1>6. QED
  BY <1>5 DEF BalancedFor

\* The books balance at the end of the queue, where everybody has had the lock.
LEMMA BalanceAtEnd ==
  ASSUME CountInv', NEW P, Decr' \subseteq P, Incr' \subseteq P
  PROVE  BalancedFor(P)'
<1>1. Due(P)' \subseteq Owed' /\ IsFiniteSet(Owed')
  BY DEF Due, CountInv, Account
<1>2. /\ Cardinality(Due(P)') \in Nat /\ Cardinality(Owed') \in Nat
      /\ Cardinality(Due(P)') <= Cardinality(Owed')
  BY <1>1, Shrinks, FS_CardinalityType
<1>3. Decr' \cap P = Decr' /\ Incr' \cap P = Incr'
  OBVIOUS
<1>4. Decr' \in SUBSET Tasks /\ Incr' \in SUBSET Tasks
  BY DEF Decr, Incr, Tasks
<1>5. Cardinality(Decr') \in Nat /\ Cardinality(Incr') \in Nat /\ count' \in Nat
  BY <1>4, TasksFinite DEF CountInv, TypeInv, TypeOK
<1>6. Cardinality(Owed') + Cardinality(Decr') <= count' + Cardinality(Incr')
  BY DEF CountInv, Account
<1>7. /\ Cardinality(Decr' \cap P) = Cardinality(Decr')
      /\ Cardinality(Incr' \cap P) = Cardinality(Incr')
  BY <1>3, Zenon
<1>8. Cardinality(Due(P)') + Cardinality(Decr' \cap P) <= count' + Cardinality(Incr' \cap P)
  BY <1>2, <1>5, <1>6, <1>7
<1>9. QED
  BY <1>8 DEF BalancedFor

\* Nobody comes to the lock or gets it.
LEMMA LedgerKept ==
  ASSUME LedgerInv, Owed' \subseteq Owed, count' = count, AtLock' = AtLock,
         Decr' = Decr, Incr' = Incr, \A s \in Incr : target'[s] = target[s]
  PROVE  Balanced'
<1>1. SUFFICES ASSUME NEW k \in 0..Len(AtLock) PROVE BalancedFor(First(k))'
  BY DEF Balanced
<1> DEFINE P == First(k)
<1>2. BalancedFor(P) /\ P' = P
  BY DEF LedgerInv, Balanced, First
<1> HIDE DEF P
<1>3. \A Q : Due(Q)' \subseteq Due(Q)
  BY DEF Due, New
<1>4. \A Q : BalancedFor(Q) => BalancedFor(Q)'
  BY <1>3, BalanceKept DEF LedgerInv
<1>5. BalancedFor(P)'
  BY <1>2, <1>4
<1>6. QED
  BY <1>5 DEF P

\* A running task comes to the lock: it is last in the queue.
LEMMA ComesToLock ==
  ASSUME CountInv, Orderly, CountInv', NEW t \in Tasks, pc[t] \notin {"incr", "decr"},
         NEW to \in {"incr", "decr"}, pc' = [pc EXCEPT ![t] = to],
         loop \in {t, None}, loop' = t, UNCHANGED waiters
  PROVE  /\ AtLock = waiters /\ AtLock' = Append(waiters, t) /\ Len(AtLock') = Len(AtLock) + 1
         /\ \A k \in 0..Len(AtLock) : First(k)' = First(k) /\ t \notin First(k)
         /\ \A k : k = Len(AtLock) + 1 => Decr' \subseteq First(k)' /\ Incr' \subseteq First(k)'
<1> USE ConnectionAssumptions DEF CountInv, TypeInv, TypeOK
<1>1. None \notin Tasks /\ pc'[t] = to
  BY DEF Tasks
<1>2. AtLock = waiters /\ AtLock' = Append(waiters, t)
  BY <1>1 DEF AtLock
<1>3. /\ Len(AtLock') = Len(AtLock) + 1 /\ AtLock'[Len(AtLock) + 1] = t
      /\ \A i \in 1..Len(AtLock) : AtLock'[i] = AtLock[i] /\ AtLock[i] # t
  BY <1>2 DEF Orderly
<1>4. \A k \in 0..Len(AtLock) : First(k)' = First(k) /\ t \notin First(k)
  BY <1>2, <1>3 DEF First
<1>5. ASSUME NEW u \in Tasks, pc'[u] \in {"incr", "decr"}, NEW k, k = Len(AtLock) + 1
      PROVE  u \in First(k)'
  <2>1. CASE u = t
    <3>1. k \in 1..k /\ AtLock'[k] = u
      BY <1>2, <1>3, <1>5, <2>1
    <3>2. QED
      BY <3>1 DEF First
  <2>2. CASE u # t
    <3>1. PICK i \in 1..Len(waiters) : waiters[i] = u
      BY <1>5, <2>2, <1>1 DEF Frame, Queued
    <3>2. i \in 1..k /\ AtLock'[i] = u
      BY <1>2, <1>3, <1>5, <3>1
    <3>3. QED
      BY <3>2 DEF First
  <2>3. QED
    BY <2>1, <2>2
<1>6. \A k : k = Len(AtLock) + 1 => Decr' \subseteq First(k)' /\ Incr' \subseteq First(k)'
  BY <1>5 DEF Decr, Incr, Tasks
<1>7. QED
  BY <1>2, <1>3, <1>4, <1>6

\* The books after a task has come to the lock: it has taken an owed context, or added one.
LEMMA LedgerJoined ==
  ASSUME LedgerInv, CountInv', NEW t \in Tasks, pc[t] \notin {"incr", "decr"},
         NEW to \in {"incr", "decr"}, pc' = [pc EXCEPT ![t] = to],
         loop \in {t, None}, loop' = t, UNCHANGED waiters, count' = count,
         \A s \in Incr : target'[s] = target[s],
         \/ Owed' \subseteq Owed
         \/ t \in Sessions /\ to = "incr" /\ Owed' \subseteq Owed \cup {New(t)'}
  PROVE  Balanced'
<1>0. Len(waiters) \in Nat
  BY DEF LedgerInv, CountInv, TypeInv, TypeOK
<1>1. /\ AtLock = waiters /\ Len(AtLock') = Len(AtLock) + 1
      /\ \A k \in 0..Len(AtLock) : First(k)' = First(k) /\ t \notin First(k)
      /\ \A k : k = Len(AtLock) + 1 => Decr' \subseteq First(k)' /\ Incr' \subseteq First(k)'
  BY ComesToLock DEF LedgerInv
<1>2. Incr \ {t} = Incr' \ {t} /\ Decr \ {t} = Decr' \ {t} /\ Incr \subseteq Incr'
  BY DEF LedgerInv, CountInv, TypeInv, TypeOK, Incr, Decr, Tasks
<1>3. t \in Sessions /\ to = "incr" => t \in Incr'
  BY DEF LedgerInv, CountInv, TypeInv, TypeOK, Incr, Tasks
<1>4. ASSUME NEW P, t \notin P, BalancedFor(P) PROVE BalancedFor(P)'
  <2>1. Decr' \cap P = Decr \cap P /\ Incr' \cap P = Incr \cap P
    BY <1>2, <1>4
  <2>2. Due(P)' \subseteq Due(P)
    BY <1>2, <1>3, <1>4 DEF Due, New
  <2>3. QED
    BY <1>4, <2>1, <2>2, BalanceKept DEF LedgerInv
<1>5. ASSUME NEW k \in 0..(Len(AtLock) + 1) PROVE BalancedFor(First(k))'
  <2> DEFINE P == First(k)
  <2>1. CASE k = Len(AtLock) + 1
    <3>1. Decr' \subseteq P' /\ Incr' \subseteq P'
      BY <1>1, <2>1
    <3> HIDE DEF P
    <3>2. \A Q : Decr' \subseteq Q /\ Incr' \subseteq Q => BalancedFor(Q)'
      BY BalanceAtEnd
    <3>3. BalancedFor(P)'
      BY <3>1, <3>2
    <3>4. QED
      BY <3>3 DEF P
  <2>2. CASE k # Len(AtLock) + 1
    <3>1. k \in 0..Len(AtLock)
      BY <1>0, <1>1, <2>2
    <3>2. P' = P /\ t \notin P /\ BalancedFor(P)
      BY <1>1, <3>1 DEF LedgerInv, Balanced
    <3> HIDE DEF P
    <3>3. BalancedFor(P)'
      BY <1>4, <3>2
    <3>4. QED
      BY <3>3 DEF P
  <2>3. QED
    BY <2>1, <2>2
<1>6. QED
  BY <1>1, <1>5 DEF Balanced

\* A task gets the lock: it was first in the queue.
LEMMA GetsLock ==
  ASSUME CountInv, NEW t \in Tasks, Acquires(t), pc[t] \in {"incr", "decr"},
         NEW to, to \notin {"incr", "decr"}, pc' = [pc EXCEPT ![t] = to], loop' \in {t, None}
  PROVE  /\ Len(AtLock) \in Nat /\ Len(AtLock) = Len(AtLock') + 1 /\ Len(AtLock') \in Nat
         /\ First(1) = {t}
         /\ \A k \in 0..Len(AtLock') : First(k + 1) = First(k)' \cup {t}
<1> USE ConnectionAssumptions DEF CountInv, TypeInv, TypeOK
<1>1. None \notin Tasks /\ pc'[t] = to
  BY DEF Tasks
<1>2. /\ AtLock \in Seq(Tasks) /\ AtLock' \in Seq(Tasks)
      /\ AtLock # <<>> /\ AtLock[1] = t /\ AtLock' = Tail(AtLock)
  <2>1. CASE loop = t /\ FreeLock /\ UNCHANGED waiters
    <3>1. waiters = <<>> /\ waiters' = <<>>
      BY <2>1 DEF FreeLock
    <3>2. AtLock = Append(<<>>, t) /\ AtLock' = <<>>
      BY <1>1, <2>1, <3>1 DEF AtLock
    <3>3. QED
      BY <3>2
  <2>2. CASE /\ loop = None /\ waiters # <<>> /\ Head(waiters) = t /\ waiters' = Tail(waiters)
    <3>1. AtLock = waiters /\ AtLock' = waiters'
      BY <1>1, <2>2 DEF AtLock
    <3>2. QED
      BY <2>2, <3>1
  <2>3. QED
    BY <2>1, <2>2 DEF Acquires
<1>3. /\ Len(AtLock) \in Nat /\ Len(AtLock) = Len(AtLock') + 1 /\ Len(AtLock') \in Nat
      /\ \A i \in 1..Len(AtLock') : AtLock'[i] = AtLock[i + 1]
  BY <1>2
<1>4. First(1) = {t}
  BY <1>2 DEF First
<1>5. ASSUME NEW k \in 0..Len(AtLock') PROVE First(k + 1) = First(k)' \cup {t}
  <2>1. ASSUME NEW i \in 1..(k + 1) PROVE AtLock[i] \in First(k)' \cup {t}
    <3>1. CASE i = 1
      BY <1>2, <3>1
    <3>2. CASE i # 1
      <4>1. i - 1 \in 1..k /\ i - 1 \in 1..Len(AtLock')
        BY <1>3, <1>5, <2>1, <3>2
      <4>2. AtLock'[i - 1] = AtLock[i]
        BY <1>3, <4>1, <2>1
      <4>3. QED
        BY <4>1, <4>2 DEF First
    <3>3. QED
      BY <3>1, <3>2
  <2>2. ASSUME NEW i \in 1..k PROVE AtLock'[i] \in First(k + 1)
    BY <1>3, <2>2 DEF First
  <2>3. t \in First(k + 1)
    BY <1>2, <1>3 DEF First
  <2>4. QED
    BY <2>1, <2>2, <2>3, SMTT(40) DEF First
<1>6. QED
  BY <1>3, <1>4, <1>5

\* What a task that gets the lock leaves to the others.
LEMMA LedgerServed ==
  ASSUME LedgerInv, NEW t \in Tasks, Acquires(t), pc[t] \in {"incr", "decr"},
         NEW to, to \notin {"incr", "decr"}, pc' = [pc EXCEPT ![t] = to], loop' \in {t, None},
         \A P : BalancedFor(P \cup {t}) => BalancedFor(P)'
  PROVE  Balanced'
<1>1. /\ Len(AtLock) \in Nat /\ Len(AtLock) = Len(AtLock') + 1 /\ Len(AtLock') \in Nat
      /\ \A k \in 0..Len(AtLock') : First(k + 1) = First(k)' \cup {t}
  BY GetsLock DEF LedgerInv
<1>2. ASSUME NEW k \in 0..Len(AtLock') PROVE BalancedFor(First(k))'
  <2> DEFINE P == First(k)
  <2>1. k + 1 \in 0..Len(AtLock)
    BY <1>1
  <2>2. BalancedFor(First(k + 1))
    BY <2>1 DEF LedgerInv, Balanced
  <2>3. BalancedFor(P' \cup {t})
    BY <1>1, <2>2
  <2> HIDE DEF P
  <2>4. BalancedFor(P)'
    BY <2>3
  <2>5. QED
    BY <2>4 DEF P
<1>3. QED
  BY <1>2 DEF Balanced

\* A decrement always finds something to count.
LEMMA DecrementCounts ==
  ASSUME LedgerInv, NEW t \in Tasks, Acquires(t), pc[t] = "decr",
         NEW to, to \notin {"incr", "decr"}, pc' = [pc EXCEPT ![t] = to], loop' \in {t, None}
  PROVE  count > 0
<1>1. /\ Len(AtLock) \in Nat /\ Len(AtLock) = Len(AtLock') + 1 /\ Len(AtLock') \in Nat
      /\ First(1) = {t}
  <2>1. CountInv /\ pc[t] \in {"incr", "decr"}
    BY DEF LedgerInv
  <2>2. QED
    BY <2>1, GetsLock
<1>2. BalancedFor({t})
  <2>1. 1 \in 0..Len(AtLock)
    BY <1>1
  <2>2. BalancedFor(First(1))
    BY <2>1 DEF LedgerInv, Balanced
  <2>3. QED
    BY <1>1, <2>2, Zenon
<1>3. Decr \cap {t} = {t} /\ Incr \cap {t} = {}
  BY DEF Decr, Incr
<1>4. Cardinality(Decr \cap {t}) = 1 /\ Cardinality(Incr \cap {t}) = 0
  BY <1>3, FS_Singleton, FS_EmptySet
<1>5. Cardinality(Due({t})) \in Nat /\ count \in Nat
  BY DueFinite DEF LedgerInv, CountInv, TypeInv, TypeOK
<1>6. QED
  BY <1>2, <1>4, <1>5 DEF BalancedFor

\* The books after a decrement.
LEMMA LedgerSettled ==
  ASSUME LedgerInv, NEW t \in Tasks, Acquires(t), pc[t] = "decr", Decrement,
         NEW to, to \notin {"incr", "decr"}, pc' = [pc EXCEPT ![t] = to], loop' \in {t, None},
         Owed' = Owed, \A s \in Incr : target'[s] = target[s]
  PROVE  Balanced'
<1>1. Incr' = Incr /\ t \notin Incr /\ t \in Decr /\ Decr' = Decr \ {t}
  BY DEF LedgerInv, CountInv, TypeInv, TypeOK, Incr, Decr, Tasks
<1>2. count > 0 /\ count \in Nat /\ count' = count - 1
  <2>1. count > 0
    BY DecrementCounts
  <2>2. count \in Nat
    BY DEF LedgerInv, CountInv, TypeInv, TypeOK
  <2>3. QED
    BY <2>1, <2>2 DEF Decrement
<1>3. ASSUME NEW Q, BalancedFor(Q \cup {t}) PROVE BalancedFor(Q)'
  <2> DEFINE P == Q \cup {t}
  <2>1. Due(Q)' \subseteq Due(P) /\ Incr' \cap Q = Incr \cap P
    BY <1>1 DEF Due, New
  <2>2. Decr' \cap Q \subseteq (Decr \cap P) \ {t} /\ t \in Decr \cap P
    BY <1>1
  <2> HIDE DEF P
  <2>3. /\ IsFiniteSet(Due(P)) /\ Cardinality(Due(P)) \in Nat
        /\ IsFiniteSet(Decr \cap P) /\ Cardinality(Decr \cap P) \in Nat
        /\ Cardinality(Incr \cap P) \in Nat
    BY DueFinite DEF LedgerInv
  <2>4. Cardinality(Due(Q)') \in Nat /\ Cardinality(Due(Q)') <= Cardinality(Due(P))
    BY <2>1, <2>3, Shrinks
  <2>5. /\ Cardinality(Decr' \cap Q) \in Nat
        /\ Cardinality(Decr' \cap Q) + 1 <= Cardinality(Decr \cap P)
    BY <2>2, <2>3, Loses
  <2>6. Cardinality(Due(P)) + Cardinality(Decr \cap P) <= count + Cardinality(Incr \cap P)
    BY <1>3 DEF BalancedFor, P
  <2>7. Cardinality(Due(Q)') + Cardinality(Decr' \cap Q) <= count' + Cardinality(Incr' \cap Q)
    <3>1. Cardinality(Incr' \cap Q) = Cardinality(Incr \cap P)
      BY <2>1, Zenon
    <3>2. QED
      BY <1>2, <2>3, <2>4, <2>5, <2>6, <3>1
  <2>8. QED
    BY <2>7 DEF BalancedFor
<1>4. QED
  BY <1>3, LedgerServed

\* The books after an increment: what the initialize has added is now counted.
LEMMA LedgerCounted ==
  ASSUME LedgerInv, NEW s \in Sessions, Acquires(s), pc[s] = "incr", count' = count + 1,
         NEW to, to \notin {"incr", "decr"}, pc' = [pc EXCEPT ![s] = to], loop' \in {s, None},
         Owed' = Owed, target' = target
  PROVE  Balanced'
<1>1. Decr' = Decr /\ s \notin Decr /\ s \in Incr /\ Incr' = Incr \ {s} /\ s \in Tasks
  BY DEF LedgerInv, CountInv, TypeInv, TypeOK, Incr, Decr, Tasks
<1>2. ASSUME NEW Q, BalancedFor(Q \cup {s}) PROVE BalancedFor(Q)'
  <2> DEFINE P == Q \cup {s}
  <2>1. Due(Q)' \subseteq Due(P) /\ Decr' \cap Q = Decr \cap P
    BY <1>1 DEF Due, New
  <2>2. Incr \cap P \subseteq (Incr' \cap Q) \cup {s} /\ Incr' \cap Q \in SUBSET Tasks
    BY <1>1 DEF Incr, Tasks
  <2> HIDE DEF P
  <2>3. /\ IsFiniteSet(Due(P)) /\ Cardinality(Due(P)) \in Nat
        /\ Cardinality(Decr \cap P) \in Nat /\ Cardinality(Incr \cap P) \in Nat /\ count \in Nat
    BY DueFinite DEF LedgerInv, CountInv, TypeInv, TypeOK
  <2>4. Cardinality(Due(Q)') \in Nat /\ Cardinality(Due(Q)') <= Cardinality(Due(P))
    BY <2>1, <2>3, Shrinks
  <2>5. /\ Cardinality(Incr' \cap Q) \in Nat
        /\ Cardinality(Incr \cap P) <= Cardinality(Incr' \cap Q) + 1
    BY <2>2, TasksFinite, Grows
  <2>6. Cardinality(Due(P)) + Cardinality(Decr \cap P) <= count + Cardinality(Incr \cap P)
    BY <1>2 DEF BalancedFor, P
  <2>7. Cardinality(Due(Q)') + Cardinality(Decr' \cap Q) <= count' + Cardinality(Incr' \cap Q)
    <3>1. Cardinality(Decr' \cap Q) = Cardinality(Decr \cap P)
      BY <2>1, Zenon
    <3>2. QED
      BY <2>3, <2>4, <2>5, <2>6, <3>1
  <2>8. QED
    BY <2>7 DEF BalancedFor
<1>3. QED
  BY <1>1, <1>2, LedgerServed

\* A task moves on away from the lock, or nothing about the lock changes.
LEMMA LedgerMoved ==
  ASSUME LedgerInv, NEW t \in Tasks, NEW to, {to, pc[t]} \cap {"incr", "decr"} = {},
         pc' = [pc EXCEPT ![t] = to], {loop, loop'} \subseteq {t, None},
         UNCHANGED waiters, count' = count, Owed' \subseteq Owed,
         \A s \in Incr : target'[s] = target[s]
  PROVE  Balanced'
<1>1. Decr' = Decr /\ Incr' = Incr
  BY DEF LedgerInv, CountInv, TypeInv, TypeOK, Decr, Incr, Tasks
<1>2. pc[t] \notin {"incr", "decr"} /\ pc'[t] \notin {"incr", "decr"}
  BY DEF LedgerInv, CountInv, TypeInv, TypeOK
<1>3. AtLock = waiters /\ AtLock' = waiters'
  BY <1>2 DEF AtLock
<1>4. QED
  BY <1>1, <1>3, LedgerKept
LEMMA LedgerUnmoved ==
  ASSUME LedgerInv, UNCHANGED <<pc, loop, waiters, count, target>>, Owed' \subseteq Owed
  PROVE  Balanced'
BY LedgerKept DEF AtLock, Decr, Incr

LEMMA LedgerStep == LedgerInv /\ [Next]_vars => LedgerInv'
<1> SUFFICES ASSUME LedgerInv, [Next]_vars PROVE Balanced'
  BY CountStep, OrderlyStep DEF LedgerInv
<1> USE DEF Tasks
<1>0. TypeOK /\ CountInv'
  BY CountStep DEF LedgerInv, CountInv, TypeInv
<1>1. ASSUME NEW b \in Bridges, Connect(b) PROVE Balanced'
  BY <1>1, LedgerUnmoved DEF Connect, idleVars, sweepVars, Owed
<1>2. ASSUME NEW d \in Closers, NEW c \in ConnIds, Disconnect(d, c) PROVE Balanced'
  <2>1. /\ d \in Tasks /\ pc[d] = "idle" /\ loop = None /\ Owed' \subseteq Owed
        /\ UNCHANGED <<waiters, count, target>>
    BY <1>2 DEF Disconnect, Begins, Cleanup, idleVars, sweepVars, Owed
  <2>2. CASE pc' = [pc EXCEPT ![d] = "decr"] /\ loop' = d
    BY <1>0, <2>1, <2>2, LedgerJoined
  <2>3. CASE UNCHANGED <<pc, loop>>
    BY <2>1, <2>3, LedgerUnmoved
  <2>4. QED
    BY <1>2, <2>2, <2>3 DEF Disconnect, Goto
<1>3. ASSUME NEW t \in Tasks, AwaitLock(t) PROVE Balanced'
  <2>1. AtLock = Append(waiters, t) /\ AtLock' = waiters'
    BY <1>3, ConnectionAssumptions DEF AwaitLock, AtLock
  <2>2. AtLock' = AtLock
    BY <1>3, <2>1 DEF AwaitLock
  <2>3. /\ Owed' = Owed /\ Decr' = Decr /\ Incr' = Incr /\ UNCHANGED <<count, target>>
    BY <1>3 DEF AwaitLock, runtimeVars, sweepVars, Owed, Decr, Incr
  <2>4. QED
    BY <2>2, <2>3, LedgerKept
<1>4. ASSUME NEW d \in Closers, DisconnectDecrement(d) PROVE Balanced'
  BY <1>4, LedgerSettled DEF DisconnectDecrement, Goto, runtimeVars, sweepVars, Owed
<1>5. ASSUME NEW s \in Sessions, NEW b \in Bridges, InitializeBridge(s, b) PROVE Balanced'
  <2>1. /\ s \in Tasks /\ pc[s] = "idle" /\ loop = None /\ loop' = s /\ Owed' \subseteq Owed
        /\ UNCHANGED <<waiters, count>> /\ target' = [target EXCEPT ![s] = b]
    BY <1>5 DEF InitializeBridge, Begins, idleVars, sweepVars, Owed
  <2>2. \A u \in Incr : target'[u] = target[u]
    BY <1>0, <2>1 DEF Incr, TypeOK
  <2>3. CASE pc' = [pc EXCEPT ![s] = "decr"]
    BY <1>0, <2>1, <2>2, <2>3, LedgerJoined
  <2>4. CASE pc' = [pc EXCEPT ![s] = "admit"]
    BY <2>1, <2>2, <2>4, LedgerMoved
  <2>5. QED
    BY <1>5, <2>3, <2>4 DEF InitializeBridge, Goto
<1>6. ASSUME NEW s \in Sessions, NEW n \in Natives, InitializeNative(s, n) PROVE Balanced'
  <2>1. /\ s \in Tasks /\ pc[s] = "idle" /\ loop = None /\ loop' = s /\ Owed' = Owed
        /\ UNCHANGED <<waiters, count>> /\ target' = [target EXCEPT ![s] = n]
        /\ pc' = [pc EXCEPT ![s] = "admit"]
    BY <1>6 DEF InitializeNative, Begins, Goto, idleVars, sweepVars, Owed
  <2>2. \A u \in Incr : target'[u] = target[u]
    BY <1>0, <2>1 DEF Incr, TypeOK
  <2>3. QED
    BY <2>1, <2>2, LedgerMoved
<1>7. ASSUME NEW s \in Sessions, InitializeDecrement(s) PROVE Balanced'
  <2>1. PICK to \in {"idle", "admit"} : pc' = [pc EXCEPT ![s] = to]
    BY <1>7 DEF InitializeDecrement, Goto, Returns
  <2>2. /\ s \in Tasks /\ Acquires(s) /\ Decrement /\ pc[s] = "decr" /\ loop' \in {s, None}
        /\ Owed' = Owed /\ target' \in {target, [target EXCEPT ![s] = None]}
    BY <1>7 DEF InitializeDecrement, Returns, sweepVars, Owed
  <2>3. \A u \in Incr : target'[u] = target[u]
    BY <1>0, <2>2 DEF Incr, TypeOK
  <2>4. QED
    BY <2>1, <2>2, <2>3, LedgerSettled
<1>8. ASSUME NEW s \in Sessions, NEW at \in {"admit", "respond"}, pc[s] = at, loop \in {s, None},
             Returns(s), loop' = None, Owed' \subseteq Owed, UNCHANGED <<waiters, count>>
      PROVE  Balanced'
  <2>1. pc' = [pc EXCEPT ![s] = "idle"] /\ target' = [target EXCEPT ![s] = None]
    BY <1>8 DEF Returns, Goto
  <2>2. \A u \in Incr : target'[u] = target[u]
    BY <1>0, <1>8, <2>1 DEF Incr, TypeOK
  <2>3. QED
    BY <1>8, <2>1, <2>2, LedgerMoved
<1>9. ASSUME NEW s \in Sessions, Reject(s) PROVE Balanced'
  BY <1>9, <1>8 DEF Reject, Continues, runtimeVars, idleVars, sweepVars, Owed
<1>10. ASSUME NEW s \in Sessions, Admit(s) PROVE Balanced'
  <2>1. /\ s \in Tasks /\ pc[s] = "admit" /\ loop = s /\ loop' = s
        /\ pc' = [pc EXCEPT ![s] = "incr"] /\ UNCHANGED <<waiters, count, target>>
    BY <1>10 DEF Admit, Continues, Goto, idleVars
  <2>2. Owed' \subseteq Owed \cup {New(s)'}
    BY <1>10 DEF Admit, Owed, New, sweepVars
  <2>3. QED
    BY <1>0, <2>1, <2>2, LedgerJoined
<1>11. ASSUME NEW s \in Sessions, InitializeIncrement(s) PROVE Balanced'
  <2>1. PICK to \in {"cancelling", "capture"} : pc' = [pc EXCEPT ![s] = to]
    BY <1>11 DEF InitializeIncrement, Increment, Goto
  <2>2. /\ Acquires(s) /\ pc[s] = "incr" /\ count' = count + 1 /\ loop' \in {s, None}
        /\ Owed' = Owed /\ target' = target
    BY <1>11 DEF InitializeIncrement, Increment, runtimeVars, sweepVars, Owed
  <2>3. QED
    BY <2>1, <2>2, LedgerCounted
<1>12. ASSUME NEW s \in Sessions, TimerCancelled(s) PROVE Balanced'
  <2>1. /\ s \in Tasks /\ pc[s] = "cancelling" /\ pc' = [pc EXCEPT ![s] = "capture"]
        /\ loop = None /\ loop' = s /\ UNCHANGED <<waiters, count, target>> /\ Owed' = Owed
    BY <1>12 DEF TimerCancelled, Resumes, Goto, runtimeVars, sweepVars, Owed
  <2>2. QED
    BY <2>1, LedgerMoved
<1>13. ASSUME NEW s \in Sessions, Capture(s) PROVE Balanced'
  <2>1. PICK to \in {"respond", "idle"} : pc' = [pc EXCEPT ![s] = to]
    BY <1>13 DEF Capture, Goto, Returns
  <2>2. /\ s \in Tasks /\ pc[s] = "capture" /\ loop = s /\ loop' = None /\ UNCHANGED <<waiters, count>>
        /\ Owed' \subseteq Owed /\ target' \in {target, [target EXCEPT ![s] = None]}
    BY <1>13 DEF Capture, Continues, Cleanup, Returns, idleVars, sweepVars, Owed
  <2>3. \A u \in Incr : target'[u] = target[u]
    BY <1>0, <2>2 DEF Incr, TypeOK
  <2>4. QED
    BY <2>1, <2>2, <2>3, LedgerMoved
<1>14. ASSUME NEW s \in Sessions, Respond(s) PROVE Balanced'
  BY <1>14, <1>8 DEF Respond, Resumes, runtimeVars, idleVars, sweepVars, Owed
<1>15. ASSUME NEW s \in Sessions, RespondFails(s) PROVE Balanced'
  BY <1>15, <1>8 DEF RespondFails, Resumes, Cleanup, idleVars, sweepVars, Owed
<1>16. ASSUME NEW s \in Sessions, UseBound(s) \/ Adopt(s) PROVE Balanced'
  BY <1>16, LedgerUnmoved DEF UseBound, Adopt, idleVars, sweepVars, Owed
<1>17. ASSUME NEW c \in ConnIds, NotifyBegin(c) PROVE Balanced'
  <2>1. /\ Notifier \in Tasks /\ pc[Notifier] = "idle" /\ pc' = [pc EXCEPT ![Notifier] = "send"]
        /\ loop = None /\ loop' = None /\ UNCHANGED <<waiters, count>> /\ Owed' = Owed
        /\ target' = [target EXCEPT ![Notifier] = c]
    BY <1>17 DEF NotifyBegin, Begins, Goto, runtimeVars, idleVars, sweepVars, Owed
  <2>2. \A u \in Incr : target'[u] = target[u]
    BY <1>0, <2>1, ConnectionAssumptions DEF Incr, TypeOK
  <2>3. QED
    BY <2>1, <2>2, LedgerMoved
<1>18. CASE NotifySteps
  <2>1. /\ Notifier \in Tasks /\ pc[Notifier] = "send" /\ pc' = [pc EXCEPT ![Notifier] = "idle"]
        /\ loop = None /\ loop' = None /\ UNCHANGED <<waiters, count>> /\ Owed' = Owed
        /\ target' = [target EXCEPT ![Notifier] = None]
    BY <1>18 DEF NotifySteps, NotifySent, NotifyFails, Resumes, Returns, Goto, runtimeVars, idleVars,
       sweepVars, Owed
  <2>2. \A u \in Incr : target'[u] = target[u]
    BY <1>0, <2>1, ConnectionAssumptions DEF Incr, TypeOK
  <2>3. QED
    BY <2>1, <2>2, LedgerMoved
<1>19. CASE SweepBegin
  <2>1. /\ Reaper \in Tasks /\ pc[Reaper] = "idle" /\ pc' = [pc EXCEPT ![Reaper] = "sweep"]
        /\ loop = None /\ loop' = Reaper /\ UNCHANGED <<waiters, count, target>>
    BY <1>19 DEF SweepBegin, Begins, Goto, runtimeVars, idleVars
  <2>2. Owed' \subseteq Owed
    BY <1>19 DEF SweepBegin, runtimeVars, Owed
  <2>3. QED
    BY <2>1, <2>2, LedgerMoved
<1>20. ASSUME NEW x \in Contexts, SweepOne(x) PROVE Balanced'
  <2>1. /\ Reaper \in Tasks /\ pc[Reaper] = "sweep" /\ loop = Reaper /\ loop' = Reaper
        /\ UNCHANGED <<waiters, count, target>> /\ Owed' \subseteq Owed
    BY <1>20 DEF SweepOne, Continues, Cleanup, runtimeVars, idleVars, Owed
  <2>2. CASE pc' = [pc EXCEPT ![Reaper] = "decr"]
    BY <1>0, <2>1, <2>2, LedgerJoined
  <2>3. CASE UNCHANGED pc
    BY <2>1, <2>3, LedgerUnmoved
  <2>4. QED
    BY <1>20, <2>2, <2>3 DEF SweepOne, Goto
<1>21. CASE SweepDecrement
  BY <1>21, LedgerSettled DEF SweepDecrement, Goto, runtimeVars, sweepVars, Owed
<1>22. CASE SweepEnd
  <2>1. /\ Reaper \in Tasks /\ pc[Reaper] = "sweep" /\ pc' = [pc EXCEPT ![Reaper] = "idle"]
        /\ loop = Reaper /\ loop' = None /\ UNCHANGED <<waiters, count, target>>
    BY <1>22 DEF SweepEnd, Continues, Goto, runtimeVars, idleVars
  <2>2. Owed' \subseteq Owed
    BY <1>22 DEF SweepEnd, runtimeVars, Owed
  <2>3. QED
    BY <2>1, <2>2, LedgerMoved
<1>23. ASSUME NEW x \in Contexts, Age(x) PROVE Balanced'
  BY <1>23, LedgerUnmoved DEF Age, idleVars, sweepVars, Owed
<1>24. CASE TimerFires
  BY <1>24, LedgerUnmoved DEF TimerFires, runtimeVars, sweepVars, Owed
<1>25. CASE UNCHANGED vars
  BY <1>25, LedgerUnmoved DEF vars, runtimeVars, idleVars, sweepVars, Owed
<1>26. QED
  BY <1>1, <1>2, <1>3, <1>4, <1>5, <1>6, <1>7, <1>9, <1>10, <1>11, <1>12, <1>13, <1>14, <1>15,
     <1>16, <1>17, <1>18, <1>19, <1>20, <1>21, <1>22, <1>23, <1>24, <1>25
  DEF Next, DisconnectSteps, Initialize, InitializeSteps, SweepSteps

LEMMA LedgerInit == Init => LedgerInv
<1> SUFFICES ASSUME Init PROVE LedgerInv
  OBVIOUS
<1>1. CountInv
  BY CountInit
<1>2. Orderly
  BY DEF Init, Orderly
<1>3. AtLock = <<>> /\ Owed = {} /\ count = 0
  BY DEF Init, AtLock, Owed
<1>4. ASSUME NEW P, P = {} PROVE BalancedFor(P)
  <2>1. Due(P) = {} /\ Decr \cap P = {} /\ Incr \cap P = {}
    BY <1>3, <1>4 DEF Due
  <2>2. Cardinality(Due(P)) = 0 /\ Cardinality(Decr \cap P) = 0 /\ Cardinality(Incr \cap P) = 0
    BY <2>1, FS_EmptySet, Zenon
  <2>3. QED
    BY <1>3, <2>2 DEF BalancedFor
<1>5. ASSUME NEW k \in 0..Len(AtLock) PROVE BalancedFor(First(k))
  <2>1. First(k) = {}
    BY <1>3, <1>5 DEF First
  <2>2. QED
    BY <1>4, <2>1
<1>6. QED
  BY <1>1, <1>2, <1>5 DEF LedgerInv, Balanced

\* With nothing counted and nobody in the lock, whatever is listed has just been added, and its
\* initialize is on its way to the lock.
LEMMA IdleListed ==
  ASSUME LedgerInv, count = 0, NEW x \in conns
  PROVE  pc[x.by] = "incr" /\ target[x.by] = x.id
<1>1. 0 \in 0..Len(AtLock) /\ First(0) = {}
  BY DEF AtLock, First, LedgerInv, CountInv, TypeInv, TypeOK, Tasks
<1>2. BalancedFor({})
  <2>1. BalancedFor(First(0))
    BY <1>1 DEF LedgerInv, Balanced
  <2>2. QED
    BY <1>1, <2>1, Zenon
<1>3. Decr \cap {} = {} /\ Incr \cap {} = {}
  OBVIOUS
<1>4. Cardinality(Decr \cap {}) = 0 /\ Cardinality(Incr \cap {}) = 0
  BY <1>3, FS_EmptySet, Zenon
<1>5. IsFiniteSet(Due({})) /\ Cardinality(Due({})) = 0
  <2>1. IsFiniteSet(Due({})) /\ Cardinality(Due({})) \in Nat
    BY DueFinite DEF LedgerInv
  <2>2. Cardinality(Due({})) + Cardinality(Decr \cap {}) <= count + Cardinality(Incr \cap {})
    BY <1>2 DEF BalancedFor
  <2> DEFINE due == Cardinality(Due({}))
             decr == Cardinality(Decr \cap {})
             incr == Cardinality(Incr \cap {})
  <2>3. due \in Nat /\ due + decr <= count + incr /\ decr = 0 /\ incr = 0
    BY <1>4, <2>1, <2>2
  <2> HIDE DEF due, decr, incr
  <2>4. due = 0
    BY <2>3
  <2>5. QED
    BY <2>1, <2>4 DEF due
<1>6. Due({}) = {}
  BY <1>5, FS_EmptySet
<1>7. x \in Owed
  BY DEF Owed
<1>8. PICK s \in Incr : x = New(s)
  BY <1>6, <1>7 DEF Due
<1>9. QED
  BY <1>8 DEF New, Incr

\* IdleStopSpares for every instance: when the idle timer stops the gateway, every listed
\* connection is one whose initialize has not yet reached the manager's lock
\* (_idle_timer_expired, increment, decrement).
THEOREM IdleStopSafe == Spec => IdleStopSpares
<1>1. LedgerInv /\ [Next]_vars
        => (stop' # stop => \A x \in conns : pc[x.by] = "incr" /\ target[x.by] = x.id)
  <2> SUFFICES ASSUME LedgerInv, [Next]_vars, stop' # stop
               PROVE  \A x \in conns : pc[x.by] = "incr" /\ target[x.by] = x.id
    OBVIOUS
  <2>1. TimerFires
    BY DEF Next, vars, runtimeVars, idleVars, sweepVars, Connect, Disconnect, DisconnectSteps,
       DisconnectDecrement, AwaitLock, Decrement, Initialize, InitializeBridge, InitializeNative,
       InitializeSteps, InitializeDecrement, Reject, Admit, InitializeIncrement, Increment,
       TimerCancelled, Capture, Respond, RespondFails, UseBound, Adopt, NotifyBegin, NotifySteps,
       NotifySent, NotifyFails, SweepBegin, SweepSteps, SweepOne, SweepDecrement, SweepEnd, Age
  <2>2. count = 0
    BY <2>1 DEF TimerFires, LedgerInv, CountInv, Frame, IdleTimerSound
  <2>3. QED
    BY <2>2, IdleListed
<1>2. QED
  BY <1>1, LedgerInit, LedgerStep, PTL DEF Spec, IdleStopSpares

\* A decrement never finds the count at zero, so the underflow of IdleShutdownManager.decrement,
\* which would reject an initialize that has already removed its old connection, does not happen.
THEOREM DecrementsCount == Spec => NoUnderflow
<1>1. LedgerInv /\ [Next]_vars
        => \A t \in Tasks : pc[t] = "decr" /\ pc'[t] # "decr" => count' < count
  <2> SUFFICES ASSUME LedgerInv, [Next]_vars, NEW t \in Tasks, pc[t] = "decr", pc'[t] # "decr"
               PROVE  count' < count
    OBVIOUS
  <2>1. ASSUME Acquires(t), Decrement, NEW to \in {"idle", "admit", "sweep"},
               pc' = [pc EXCEPT ![t] = to], loop' \in {t, None}
        PROVE  count' < count
    <3>1. count > 0 /\ count \in Nat
      BY <2>1, DecrementCounts DEF LedgerInv, CountInv, TypeInv, TypeOK
    <3>2. QED
      BY <2>1, <3>1 DEF Decrement
  <2>2. TypeOK
    BY DEF LedgerInv, CountInv, TypeInv
  <2>3. \/ \E d \in Closers : DisconnectDecrement(d) /\ d = t
        \/ \E s \in Sessions : InitializeDecrement(s) /\ s = t
        \/ SweepDecrement /\ t = Reaper
    BY <2>2 DEF TypeOK, Next, vars, runtimeVars, idleVars, sweepVars, Connect, Disconnect, DisconnectSteps,
       DisconnectDecrement, AwaitLock, Initialize, InitializeBridge, InitializeNative,
       InitializeSteps, InitializeDecrement, Reject, Admit, InitializeIncrement, Increment,
       TimerCancelled, Capture, Respond, RespondFails, UseBound, Adopt, NotifyBegin, NotifySteps,
       NotifySent, NotifyFails, SweepBegin, SweepSteps, SweepOne, SweepDecrement, SweepEnd, Age,
       TimerFires, Begins, Continues, Resumes, Goto, Returns
  <2>4. CASE DisconnectDecrement(t)
    BY <2>1, <2>4 DEF DisconnectDecrement, Goto
  <2>5. CASE InitializeDecrement(t)
    BY <2>1, <2>5 DEF InitializeDecrement, Goto, Returns
  <2>6. CASE SweepDecrement /\ t = Reaper
    BY <2>1, <2>6 DEF SweepDecrement, Goto
  <2>7. QED
    BY <2>3, <2>4, <2>5, <2>6
<1>2. QED
  BY <1>1, LedgerInit, LedgerStep, PTL DEF Spec, NoUnderflow
=============================================================================
