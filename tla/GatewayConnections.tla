------------------------- MODULE GatewayConnections -------------------------
(***************************************************************************)
(* The upstream side of a running tela gateway: the connection list, the   *)
(* bridge registrations and the session registry of GatewayRuntime, the    *)
(* idle shutdown manager that counts connections, the connection reaper,   *)
(* and the handlers that move them: POST /connect, POST /disconnect, MCP   *)
(* initialize, tool requests and tools/list_changed notifications.         *)
(*                                                                         *)
(* Everything runs on one asyncio event loop.  A coroutine is interrupted  *)
(* only where it really suspends, so `loop' names the coroutine that has   *)
(* not suspended yet; other coroutines run only when `loop' is None.  The  *)
(* suspension points on these paths are: a contended asyncio.Lock of the   *)
(* idle manager, the await of the cancelled idle timer, the response of    *)
(* initialize and the send of a notification.                              *)
(*                                                                         *)
(* Abstractions: the connection list is a set of contexts [id, by], one    *)
(* for each id and initializing session (a session's initializes are       *)
(* sequential and each first removes its id, so this pair is unique); the  *)
(* code's "first match" in a list or dict is any match; last_activity is   *)
(* membership in `aged'.  The idle manager exists before the first         *)
(* connection (serve creates it before it yields after convergence).       *)
(***************************************************************************)
EXTENDS Naturals, Sequences, FiniteSets

CONSTANTS
  Sessions,       \* upstream MCP sessions; each handles one initialize at a time
  Bridges,        \* bridge_* connection ids, chosen by `tela connect'
  Natives,        \* conn_* connection ids, fresh for each native initialize
  Closers,        \* concurrent POST /disconnect handlers
  Reaper,         \* the sweep task of ConnectionReaper
  Notifier,       \* a task that runs notify_tools_changed
  None,           \* no task, no session, no connection
  IdleTimeout,    \* TRUE iff --idle-timeout > 0
  NativeTTL,      \* TRUE iff native_idle_ttl_seconds > 0
  BridgeTTL,      \* TRUE iff bridge_idle_ttl_seconds > 0
  MaxInits        \* bound: initialize requests in a behaviour

ConnIds == Bridges \cup Natives
Tasks   == Sessions \cup Closers \cup {Reaper, Notifier}
Contexts == [id: ConnIds, by: Sessions]

ASSUME ConnectionAssumptions ==
  /\ IsFiniteSet(Sessions) /\ IsFiniteSet(Bridges) /\ IsFiniteSet(Natives)
  /\ IsFiniteSet(Closers)
  /\ Bridges \cap Natives = {}
  /\ Sessions \cap Closers = {}
  /\ {Reaper, Notifier} \cap (Sessions \cup Closers) = {}
  /\ Reaper # Notifier
  /\ None \notin Sessions \cup Closers \cup Bridges \cup Natives \cup {Reaper, Notifier}
  /\ IdleTimeout \in BOOLEAN /\ NativeTTL \in BOOLEAN /\ BridgeTTL \in BOOLEAN
  /\ MaxInits \in Nat

VARIABLES
  conns,      \* _runtime.connections
  aged,       \* the contexts whose last activity is older than their TTL
  pending,    \* _runtime.pending_bridge_registrations
  sess,       \* _runtime.session_registry
  issued,     \* conn_* ids already generated
  count,      \* IdleShutdownManager._connection_count
  timer,      \* _idle_handle: none, a sleeping task, a cancelled one, a finished one
  holder,     \* the task suspended inside the manager's lock
  waiters,    \* the tasks queued on the manager's lock, in order
  stop,       \* serve's stop_event, set by the idle timer
  loop,       \* the coroutine running without having suspended, or None
  pc,         \* where each task is
  target,     \* the connection id an initialize or a notification is for
  swept,      \* the reaper's snapshot: contexts still to inspect
  old,        \* the contexts that were aged when the snapshot was taken
  sentTo,     \* the session the notifier is sending to
  ready,      \* sessions past MCP initialization: their requests are accepted
  inits       \* initialize requests so far

runtimeVars == <<conns, aged, pending, sess, issued>>
idleVars    == <<count, timer, holder, waiters, stop>>
sweepVars   == <<swept, old>>
vars == <<runtimeVars, idleVars, loop, pc, target, sweepVars, sentTo, ready, inits>>

TypeOK ==
  /\ conns \subseteq Contexts /\ aged \subseteq Contexts
  /\ pending \subseteq Bridges
  /\ sess \in [ConnIds -> Sessions \cup {None}]
  /\ issued \subseteq Natives
  /\ count \in Nat
  /\ timer \in {"none", "armed", "cancelled", "fired"}
  /\ holder \in Tasks \cup {None}
  /\ waiters \in Seq(Tasks)
  /\ stop \in BOOLEAN
  /\ loop \in Tasks \cup {None}
  /\ pc \in [Tasks -> {"idle", "decr", "admit", "incr", "cancelling", "capture",
                       "respond", "sweep", "send"}]
  /\ target \in [Sessions \cup {Notifier} -> ConnIds \cup {None}]
  /\ swept \subseteq Contexts /\ old \subseteq Contexts
  /\ sentTo \in Sessions \cup {None}
  /\ ready \subseteq Sessions
  /\ inits \in Nat

\* serve primes the manager (increment, decrement): with a timeout the timer runs.
Init ==
  /\ conns = {} /\ aged = {} /\ pending = {} /\ issued = {}
  /\ sess = [c \in ConnIds |-> None]
  /\ count = 0 /\ holder = None /\ waiters = <<>> /\ stop = FALSE
  /\ timer = IF IdleTimeout THEN "armed" ELSE "none"
  /\ loop = None
  /\ pc = [t \in Tasks |-> "idle"] /\ target = [t \in Sessions \cup {Notifier} |-> None]
  /\ swept = {} /\ old = {} /\ sentTo = None /\ ready = {} /\ inits = 0

-----------------------------------------------------------------------------
(* Helpers *)

Of(c) == {x \in Contexts : x.id = c}
Live(c) == conns \cap Of(c) # {}

\* cleanup_connection_by_id: runtime entry, registration and session, one step.
Cleanup(c) ==
  /\ conns' = conns \ Of(c)
  /\ aged' = aged \ Of(c)
  /\ pending' = pending \ {c}
  /\ sess' = [sess EXCEPT ![c] = None]
  /\ UNCHANGED issued

Goto(t, to) == pc' = [pc EXCEPT ![t] = to]
\* The handler of t returns.
Returns(t) == Goto(t, "idle") /\ target' = [target EXCEPT ![t] = None]
\* A fresh request reaches an idle handler only when nobody holds the loop.
Begins(t) == ~stop /\ loop = None /\ pc[t] = "idle"
\* t continues the code it is in without having suspended.
Continues(t, at) == ~stop /\ loop = t /\ pc[t] = at
\* t is resumed by the event loop after a suspension.
Resumes(t, at) == ~stop /\ loop = None /\ pc[t] = at

\* asyncio.Lock: acquired at once when free with no waiters, else first come first served.
FreeLock == holder = None /\ waiters = <<>>
Acquires(t) ==
  \/ loop = t /\ FreeLock /\ UNCHANGED waiters
  \/ /\ loop = None /\ holder = None /\ waiters # <<>> /\ Head(waiters) = t
     /\ waiters' = Tail(waiters)

\* async with self._lock finds the lock taken: t queues and suspends.
AwaitLock(t) ==
  /\ ~stop /\ loop = t /\ pc[t] \in {"incr", "decr"} /\ ~FreeLock
  /\ waiters' = Append(waiters, t)
  /\ loop' = None
  /\ UNCHANGED <<runtimeVars, count, timer, holder, stop, pc, target, sweepVars,
                 sentTo, ready, inits>>

\* IdleShutdownManager.decrement with the lock: an underflow changes nothing.
Decrement ==
  /\ count' = IF count = 0 THEN 0 ELSE count - 1
  /\ timer' = IF count = 1 /\ IdleTimeout THEN "armed" ELSE timer
  /\ UNCHANGED <<holder, stop>>

\* Mutant: a sleeping timer is not cancelled.
IncrementKeepsTimer(t) ==
  /\ count' = count + 1
  /\ loop' = t /\ Goto(t, "capture")
  /\ UNCHANGED <<timer, holder, stop>>

\* IdleShutdownManager.increment with the lock: a sleeping timer is cancelled
\* and awaited inside the lock; a finished or absent one needs no wait.
Increment(t) ==
  /\ count' = count + 1
  /\ IF timer = "armed"
       THEN timer' = "cancelled" /\ holder' = t /\ loop' = None /\ Goto(t, "cancelling")
       ELSE timer' = "none" /\ UNCHANGED holder /\ loop' = t /\ Goto(t, "capture")
  /\ UNCHANGED stop

-----------------------------------------------------------------------------
(* POST /connect and POST /disconnect *)

Connect(b) ==
  /\ ~stop /\ loop = None
  /\ pending' = pending \cup {b}
  /\ UNCHANGED <<conns, aged, sess, issued, idleVars, loop, pc, target, sweepVars,
                 sentTo, ready, inits>>

\* Mutant: decrement whether or not the connection was listed.
DisconnectUnchecked(d, c) ==
  /\ Begins(d)
  /\ c \in Natives => FreeLock
  /\ Cleanup(c)
  /\ Goto(d, "decr") /\ loop' = d
  /\ UNCHANGED <<idleVars, target, sweepVars, sentTo, ready, inits>>

\* handle_disconnect cleans up at once; the route then decrements if the
\* connection was in the list.  A caller learns a conn_* id from GET /status
\* only, many loop iterations after its initialize took the lock.
Disconnect(d, c) ==
  /\ Begins(d)
  /\ c \in Natives => FreeLock
  /\ Cleanup(c)
  /\ IF Live(c) THEN Goto(d, "decr") /\ loop' = d ELSE UNCHANGED <<pc, loop>>
  /\ UNCHANGED <<idleVars, target, sweepVars, sentTo, ready, inits>>

DisconnectDecrement(d) ==
  /\ ~stop /\ pc[d] = "decr" /\ Acquires(d) /\ Decrement
  /\ Goto(d, "idle") /\ loop' = None
  /\ UNCHANGED <<runtimeVars, target, sweepVars, sentTo, ready, inits>>

-----------------------------------------------------------------------------
(* MCP initialize: handle_initialize called by _patched_received_request *)

\* A bridge initialize needs its registration; an old context of the same id is
\* removed first and, if there was one, uncounted before the session is released.
InitializeBridge(s, b) ==
  /\ Begins(s) /\ inits < MaxInits /\ b \in pending
  /\ inits' = inits + 1
  /\ conns' = conns \ Of(b) /\ aged' = aged \ Of(b)
  /\ target' = [target EXCEPT ![s] = b]
  /\ loop' = s
  /\ IF Live(b) THEN Goto(s, "decr") /\ UNCHANGED sess
                ELSE Goto(s, "admit") /\ sess' = [sess EXCEPT ![b] = None]
  /\ UNCHANGED <<pending, issued, idleVars, sweepVars, sentTo, ready>>

\* An underflow rejects the initialize before release_session.
InitializeDecrement(s) ==
  /\ ~stop /\ pc[s] = "decr" /\ Acquires(s) /\ Decrement
  /\ IF count = 0
       THEN Returns(s) /\ loop' = None /\ UNCHANGED sess
       ELSE /\ Goto(s, "admit") /\ loop' = s /\ UNCHANGED target
            /\ sess' = [sess EXCEPT ![target[s]] = None]
  /\ UNCHANGED <<conns, aged, pending, issued, sweepVars, sentTo, ready, inits>>

\* Mutant: the generated id is not kept for the context.
InitializeNativeNoId(s, n) ==
  /\ Begins(s) /\ inits < MaxInits /\ n \notin issued
  /\ inits' = inits + 1
  /\ issued' = issued \cup {n}
  /\ Goto(s, "admit") /\ loop' = s
  /\ UNCHANGED <<conns, aged, pending, sess, idleVars, target, sweepVars, sentTo, ready>>

InitializeNative(s, n) ==
  /\ Begins(s) /\ inits < MaxInits /\ n \notin issued
  /\ inits' = inits + 1
  /\ issued' = issued \cup {n}
  /\ target' = [target EXCEPT ![s] = n]
  /\ Goto(s, "admit") /\ loop' = s
  /\ UNCHANGED <<conns, aged, pending, sess, idleVars, sweepVars, sentTo, ready>>

\* No default profile, or a refused token: what was removed stays removed.
Reject(s) ==
  /\ Continues(s, "admit")
  /\ Returns(s) /\ loop' = None
  /\ UNCHANGED <<runtimeVars, idleVars, sweepVars, sentTo, ready, inits>>

Admit(s) ==
  /\ Continues(s, "admit")
  /\ LET new == [id |-> target[s], by |-> s]
     IN  conns' = conns \cup {new} /\ aged' = aged \ {new}
  /\ Goto(s, "incr")
  /\ UNCHANGED <<pending, sess, issued, idleVars, loop, target, sweepVars,
                 sentTo, ready, inits>>

InitializeIncrement(s) ==
  /\ ~stop /\ pc[s] = "incr" /\ Acquires(s) /\ Increment(s)
  /\ UNCHANGED <<runtimeVars, target, sweepVars, sentTo, ready, inits>>

\* Mutant: the lock is not released.
TimerCancelledKeepsLock(s) ==
  /\ Resumes(s, "cancelling")
  /\ timer' = "none"
  /\ Goto(s, "capture") /\ loop' = s
  /\ UNCHANGED <<runtimeVars, count, holder, waiters, stop, target, sweepVars, sentTo,
                 ready, inits>>

\* The cancelled timer task has ended: the handle is cleared, the lock released.
TimerCancelled(s) ==
  /\ Resumes(s, "cancelling")
  /\ timer' = "none" /\ holder' = None
  /\ Goto(s, "capture") /\ loop' = s
  /\ UNCHANGED <<runtimeVars, count, waiters, stop, target, sweepVars, sentTo, ready, inits>>

\* capture_session keeps a first binding; a connection bound to another session
\* is cleaned up and the initialize refused, without uncounting it.
Capture(s) ==
  /\ Continues(s, "capture")
  /\ loop' = None
  /\ IF sess[target[s]] \in {None, s}
       THEN /\ sess' = [sess EXCEPT ![target[s]] = s]
            /\ Goto(s, "respond")
            /\ ready' = ready \ {s}
            /\ UNCHANGED <<conns, aged, pending, issued, target>>
       ELSE Cleanup(target[s]) /\ Returns(s) /\ UNCHANGED ready
  /\ UNCHANGED <<idleVars, sweepVars, sentTo, inits>>

Respond(s) ==
  /\ Resumes(s, "respond")
  /\ Returns(s) /\ ready' = ready \cup {s}
  /\ UNCHANGED <<runtimeVars, idleVars, loop, sweepVars, sentTo, inits>>

\* The protocol handler raises: the connection is cleaned up, not uncounted.
RespondFails(s) ==
  /\ Resumes(s, "respond")
  /\ Cleanup(target[s]) /\ Returns(s)
  /\ UNCHANGED <<idleVars, loop, sweepVars, sentTo, ready, inits>>

-----------------------------------------------------------------------------
(* Tool requests: _ensure_connection *)

\* The session's connection is in the list: touch it.
UseBound(s) ==
  /\ ~stop /\ loop = None /\ s \in ready
  /\ \E c \in ConnIds : sess[c] = s /\ Live(c) /\ aged' = aged \ Of(c)
  /\ UNCHANGED <<conns, pending, sess, issued, idleVars, loop, pc, target, sweepVars,
                 sentTo, ready, inits>>

\* It is not (or the session has none): adopt a bridge connection without session.
Adopt(s) ==
  /\ ~stop /\ loop = None /\ s \in ready
  /\ {c \in ConnIds : sess[c] = s} = {} \/ \E c \in ConnIds : sess[c] = s /\ ~Live(c)
  /\ \E b \in Bridges :
       /\ Live(b) /\ sess[b] = None
       /\ sess' = [sess EXCEPT ![b] = s]
       /\ aged' = aged \ Of(b)
  /\ UNCHANGED <<conns, pending, issued, idleVars, loop, pc, target, sweepVars,
                 sentTo, ready, inits>>

-----------------------------------------------------------------------------
(* notify_tools_changed: the session is read before the send, released after *)

NotifyBegin(c) ==
  /\ Begins(Notifier) /\ Live(c) /\ sess[c] # None
  /\ sentTo' = sess[c] /\ target' = [target EXCEPT ![Notifier] = c]
  /\ Goto(Notifier, "send")
  /\ UNCHANGED <<runtimeVars, idleVars, loop, sweepVars, ready, inits>>

NotifySent ==
  /\ Resumes(Notifier, "send")
  /\ Returns(Notifier) /\ sentTo' = None
  /\ UNCHANGED <<runtimeVars, idleVars, loop, sweepVars, ready, inits>>

NotifyFails ==
  /\ Resumes(Notifier, "send")
  /\ sess' = [sess EXCEPT ![target[Notifier]] = None]
  /\ Returns(Notifier) /\ sentTo' = None
  /\ UNCHANGED <<conns, aged, pending, issued, idleVars, loop, sweepVars,
                 ready, inits>>

-----------------------------------------------------------------------------
(* ConnectionReaper.sweep *)

SweepBegin ==
  /\ Begins(Reaper) /\ conns # {}
  /\ swept' = conns /\ old' = aged
  /\ Goto(Reaper, "sweep") /\ loop' = Reaper
  /\ UNCHANGED <<runtimeVars, idleVars, target, sentTo, ready, inits>>

TTL(x) == IF x.id \in Bridges THEN BridgeTTL ELSE NativeTTL

\* Mutant: no session probe, only the TTL.
ReapableByAge(x) == TTL(x) /\ x \in old

\* The session registry is read live, the last activity from the snapshot.
Reapable(x) ==
  \/ x.id \in Natives /\ sess[x.id] = None
  \/ TTL(x) /\ x \in old

SweepOne(x) ==
  /\ Continues(Reaper, "sweep") /\ x \in swept
  /\ swept' = swept \ {x}
  /\ IF Reapable(x) THEN Cleanup(x.id) /\ Goto(Reaper, "decr")
                    ELSE UNCHANGED <<runtimeVars, pc>>
  /\ UNCHANGED <<idleVars, loop, target, old, sentTo, ready, inits>>

SweepDecrement ==
  /\ ~stop /\ pc[Reaper] = "decr" /\ Acquires(Reaper) /\ Decrement
  /\ Goto(Reaper, "sweep") /\ loop' = Reaper
  /\ UNCHANGED <<runtimeVars, target, sweepVars, sentTo, ready, inits>>

SweepEnd ==
  /\ Continues(Reaper, "sweep") /\ swept = {}
  /\ Goto(Reaper, "idle") /\ loop' = None /\ old' = {}
  /\ UNCHANGED <<runtimeVars, idleVars, target, swept, sentTo, ready, inits>>

-----------------------------------------------------------------------------
(* Time *)

\* A connection's last activity becomes older than its TTL: seconds to minutes,
\* and so never in the few loop iterations for which the lock stays taken.
Age(x) ==
  /\ ~stop /\ loop = None /\ x \in conns /\ TTL(x) /\ FreeLock
  /\ aged' = aged \cup {x}
  /\ UNCHANGED <<conns, pending, sess, issued, idleVars, loop, pc, target, sweepVars,
                 sentTo, ready, inits>>

\* _idle_timer_expired: the sleep ended without cancellation.
TimerFires ==
  /\ ~stop /\ loop = None /\ timer = "armed"
  /\ timer' = "fired" /\ stop' = TRUE
  /\ UNCHANGED <<runtimeVars, count, holder, waiters, loop, pc, target, sweepVars,
                 sentTo, ready, inits>>

-----------------------------------------------------------------------------

Initialize(s) ==
  \/ \E b \in Bridges : InitializeBridge(s, b)
  \/ \E n \in Natives : InitializeNative(s, n)

\* Steps of an initialize already under way.
InitializeSteps(s) ==
  \/ AwaitLock(s) \/ InitializeDecrement(s) \/ Reject(s) \/ Admit(s)
  \/ InitializeIncrement(s) \/ TimerCancelled(s) \/ Capture(s)
  \/ Respond(s) \/ RespondFails(s)

DisconnectSteps(d) == AwaitLock(d) \/ DisconnectDecrement(d)

SweepSteps ==
  \/ AwaitLock(Reaper) \/ SweepDecrement \/ SweepEnd
  \/ \E x \in Contexts : SweepOne(x)

NotifySteps == NotifySent \/ NotifyFails

Next ==
  \/ \E b \in Bridges : Connect(b)
  \/ \E d \in Closers, c \in ConnIds : Disconnect(d, c)
  \/ \E d \in Closers : DisconnectSteps(d)
  \/ \E s \in Sessions : Initialize(s) \/ InitializeSteps(s) \/ UseBound(s) \/ Adopt(s)
  \/ \E c \in ConnIds : NotifyBegin(c)
  \/ NotifySteps
  \/ SweepBegin \/ SweepSteps
  \/ \E x \in Contexts : Age(x)
  \/ TimerFires

Spec == Init /\ [][Next]_vars

\* The ready queue of the event loop is first in, first out, so a coroutine that
\* can be resumed again and again is resumed (strong fairness: other coroutines
\* hold the loop in between); the sweep interval and the idle timeout elapse.
\* Requests, failures and the passing of a TTL are not promised.
Fairness ==
  /\ \A s \in Sessions : SF_vars(InitializeSteps(s))
  /\ \A d \in Closers : SF_vars(DisconnectSteps(d))
  /\ SF_vars(SweepBegin) /\ SF_vars(SweepSteps)
  /\ SF_vars(NotifySteps) /\ SF_vars(TimerFires)

FairSpec == Spec /\ Fairness

-----------------------------------------------------------------------------
(* Properties *)

\* The idle timer sleeps only while the manager counts no connection and nobody
\* is inside its lock; _start_idle_timer, which overwrites _idle_handle, never
\* loses a timer that is still running.
IdleTimerSound == timer = "armed" => count = 0 /\ holder = None

\* Every connection in the runtime list, and every removed one whose decrement is
\* still under way, is counted by the idle manager or its increment is under way:
\* whatever initialize, /disconnect and the reaper interleave, nothing is
\* uncounted twice.
NoUndercount ==
  Cardinality(conns) + Cardinality({t \in Tasks : pc[t] = "decr"})
     <= count + Cardinality({s \in Sessions : pc[s] = "incr"})

\* _idle_timer_expired never stops the gateway under an admitted connection: when
\* the stop event is set, each listed connection is one whose initialize has not
\* yet reached the idle manager's lock.
IdleStopSpares ==
  [][stop' # stop => \A x \in conns : pc[x.by] = "incr" /\ target[x.by] = x.id]_vars

\* Every decrement finds a connection to uncount: IdleShutdownManager.decrement never answers with
\* its underflow error, whoever waits for the lock in whichever order, so no initialize is refused
\* for it after its old connection has been removed.
NoUnderflow == [][\A t \in Tasks : pc[t] = "decr" /\ pc'[t] # "decr" => count' < count]_vars

\* A conn_* connection without a captured session does not stay in the list: the
\* reaper removes it unless its initialize binds the session first.
OrphanReaped ==
  \A n \in Natives : (Live(n) /\ sess[n] = None) ~> (~Live(n) \/ sess[n] # None \/ stop)

\* An initialize that waits for the idle manager ends: the lock is never held for
\* ever, whoever waits for it.
InitializeEnds ==
  \A s \in Sessions : pc[s] \in {"decr", "incr"} ~> (pc[s] = "idle" \/ stop)

\* DESIGN.md: after the last connection closes and no new one arrives, the idle
\* timeout stops the server.
IdleGatewayStops == <>[](conns = {} /\ \A t \in Tasks : pc[t] = "idle") => <>stop
=============================================================================
