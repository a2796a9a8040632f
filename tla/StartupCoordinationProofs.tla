--------------------- MODULE StartupCoordinationProofs ---------------------
(***************************************************************************)
(* Proofs about StartupCoordination, for any number of clients, gateways   *)
(* and configs and any bound on the retries.                               *)
(***************************************************************************)
EXTENDS StartupCoordination, TLAPS

\* A client attached to a gateway that had started; its config is fixed from then on.
Attached == \A c \in Clients : pc[c] = "done" =>
              found[c] \in Gateways /\ gw[found[c]] # "unborn" /\ gwConfig[found[c]] = want[c]

\* A stop is for a gateway.
Stopping == \A p \in Stoppers : pc[p] \in {"signal", "await", "clean"} => found[p] \in Gateways

StartInv == TypeOK /\ LeaderHoldsLock /\ Attached /\ Stopping

\* A gateway that rolls back or has ended in good order is not named by the lockfile.
NamedInv == StartInv /\ Process!NamesBound

-----------------------------------------------------------------------------

LEMMA StartInit == Init => StartInv
<1> SUFFICES ASSUME Init PROVE StartInv
  OBVIOUS
<1> USE StartupAssumptions DEF Init
<1>1. TypeOK
  BY DEF TypeOK
<1>2. LeaderHoldsLock
  BY DEF LeaderHoldsLock, Leading, Procs
<1>3. Attached /\ Stopping
  BY DEF Attached, Stopping, Procs
<1>4. QED
  BY <1>1, <1>2, <1>3 DEF StartInv

\* What a failed attempt leaves behind.
LEMMA FailedAttempt ==
  ASSUME TypeOK, NEW c \in Clients, AttemptFails(c)
  PROVE  /\ attempts' \in [Clients -> 0..(Retries - 1)] /\ chances' \in [Clients -> 0..1]
         /\ spawned' \in [Clients -> Gateways \cup {None}]
         /\ want' = want /\ found' = found
         /\ \E to \in {"try", "look", "failed"} : pc' = [pc EXCEPT ![c] = to]
<1> USE StartupAssumptions DEF TypeOK, AttemptFails, Goto
<1>1. attempts' \in [Clients -> 0..(Retries - 1)]
  OBVIOUS
<1>2. chances' \in [Clients -> 0..1]
  OBVIOUS
<1>3. QED
  BY <1>1, <1>2

LEMMA StartStep == StartInv /\ [Next]_vars => StartInv'
<1> SUFFICES ASSUME StartInv, [Next]_vars PROVE StartInv'
  OBVIOUS
<1> USE StartupAssumptions DEF StartInv, TypeOK, LeaderHoldsLock, Attached, Stopping, Leading,
        Procs, clientVars, Goto
<1>1. ASSUME NEW c \in Clients, Start(c) PROVE StartInv'
  BY <1>1 DEF Start
<1>2. ASSUME NEW c \in Clients, Look(c) PROVE StartInv'
  BY <1>2 DEF Look, Owned, Live, Alive, Finds
<1>3. ASSUME NEW c \in Clients, TryLock(c) PROVE StartInv'
  BY <1>3 DEF TryLock
<1>4. ASSUME NEW c \in Clients, MeetsStale(c) PROVE StartInv'
  BY <1>4 DEF MeetsStale
<1>5. ASSUME NEW c \in Clients, Unlink(c) PROVE StartInv'
  BY <1>5 DEF Unlink
<1>6. ASSUME NEW c \in Clients, RaceFound(c) PROVE StartInv'
  BY <1>6 DEF RaceFound, Owned, Live, Alive, Finds, Releases
<1>7. ASSUME NEW c \in Clients, RaceEnds(c) PROVE StartInv'
  BY <1>7 DEF RaceEnds
<1>8. ASSUME NEW c \in Clients, NEW g \in Gateways, Autostart(c, g) PROVE StartInv'
  BY <1>8 DEF Autostart
<1>9. ASSUME NEW c \in Clients, AutostartFails(c) \/ LeadTimesOut(c) PROVE StartInv'
  BY <1>9, FailedAttempt DEF AutostartFails, LeadTimesOut, Releases
<1>10. ASSUME NEW c \in Clients, LeadFound(c) PROVE StartInv'
  BY <1>10 DEF LeadFound, Owned, Live, Alive, Finds, Releases
<1>11. ASSUME NEW c \in Clients, FollowFound(c) PROVE StartInv'
  BY <1>11 DEF FollowFound, Owned, Live, Alive, Finds
<1>12. ASSUME NEW c \in Clients, FollowTimesOut(c) PROVE StartInv'
  BY <1>12, FailedAttempt DEF FollowTimesOut
<1>13. ASSUME NEW c \in Clients, ClientCrashes(c) PROVE StartInv'
  BY <1>13 DEF ClientCrashes, Releases
<1>14. ASSUME NEW g \in Gateways, NEW k \in Configs, Serve(g, k) PROVE StartInv'
  BY <1>14 DEF Serve
<1>15. ASSUME NEW g \in Gateways, Publish(g) \/ Converged(g) \/ ConvergeFails(g) \/ StartFails(g) \/ RolledBack(g)
      PROVE StartInv'
  BY <1>15 DEF Publish, Converged, ConvergeFails, StartFails, RolledBack
<1>16. ASSUME NEW g \in Gateways, BeginsStop(g) \/ EndsStop(g) \/ GatewayDies(g) PROVE StartInv'
  BY <1>16 DEF BeginsStop, EndsStop, GatewayDies
<1>17. ASSUME NEW p \in Stoppers, StopReads(p) PROVE StartInv'
  BY <1>17 DEF StopReads, Live
<1>18. ASSUME NEW p \in Stoppers, StopSignals(p) PROVE StartInv'
  BY <1>18 DEF StopSignals
<1>19. ASSUME NEW p \in Stoppers, StopSeesExit(p) \/ StopTimesOut(p) \/ StopCleans(p) PROVE StartInv'
  BY <1>19 DEF StopSeesExit, StopTimesOut, StopCleans
<1>20. CASE UNCHANGED vars
  BY <1>20 DEF vars
<1>21. QED
  BY <1>1, <1>2, <1>3, <1>4, <1>5, <1>6, <1>7, <1>8, <1>9, <1>10, <1>11, <1>12, <1>13,
     <1>14, <1>15, <1>16, <1>17, <1>18, <1>19, <1>20
  DEF Next, ClientSteps, GatewaySteps

\* Every state has its types: in particular the attempts of a discovery stay below
\* START_RACE_RETRIES and the coordinator is run at most twice.
THEOREM StartTypes == Spec => []TypeOK
<1>1. StartInv => TypeOK
  BY DEF StartInv
<1>2. QED
  BY <1>1, StartInit, StartStep, PTL DEF Spec

\* Leader election: a client holds the startup lock of its config exactly while it leads,
\* whatever times out, fails or crashes; two clients of one config never lead together.
THEOREM LeadershipExclusive == Spec => []LeaderHoldsLock
<1>1. StartInv => LeaderHoldsLock
  BY DEF StartInv
<1>2. QED
  BY <1>1, StartInit, StartStep, PTL DEF Spec

\* Config ownership: a client only ever attaches to a gateway of the config it asked for.
THEOREM AttachesToOwn == Spec => []OwnConfig
<1>1. StartInv => OwnConfig
  BY DEF StartInv, Attached, OwnConfig
<1>2. QED
  BY <1>1, StartInit, StartStep, PTL DEF Spec

\* A budget is a number, also after a step.
LEMMA BudgetNat == ASSUME TypeOK, NEW c \in Clients PROVE Budget(c) \in Nat
<1>1. attempts[c] \in 0..(Retries - 1) /\ Retries \in Nat
  BY StartupAssumptions DEF TypeOK
<1>2. Retries - attempts[c] \in Nat
  BY <1>1
<1>3. QED
  BY <1>1, <1>2 DEF Budget
LEMMA BudgetNatNext == ASSUME TypeOK', NEW c \in Clients PROVE Budget(c)' \in Nat
<1>1. attempts'[c] \in 0..(Retries - 1) /\ Retries \in Nat
  BY StartupAssumptions DEF TypeOK
<1>2. Retries - attempts'[c] \in Nat
  BY <1>1
<1>3. QED
  BY <1>1, <1>2 DEF Budget

\* A failed attempt that is followed by another has spent one.
LEMMA AttemptSpent ==
  ASSUME TypeOK, NEW c \in Clients, AttemptFails(c), pc'[c] # "failed"
  PROVE  Budget(c)' < Budget(c)
<1> USE StartupAssumptions DEF TypeOK, AttemptFails, Goto, Budget, Procs
<1>1. attempts[c] \in 0..(Retries - 1) /\ chances[c] \in {0, 1} /\ Retries \in Nat
  OBVIOUS
<1>2. CASE attempts[c] + 1 < Retries
  <2>1. attempts'[c] = attempts[c] + 1 /\ chances'[c] = chances[c]
    BY <1>2
  <2>2. QED
    BY <1>1, <2>1
<1>3. CASE ~(attempts[c] + 1 < Retries)
  <2>1. attempts'[c] = 0 /\ chances'[c] = 0 /\ attempts[c] = Retries - 1
    BY <1>1, <1>3
  <2>2. chances[c] = 1
    BY <1>1, <1>3
  <2>3. QED
    BY <1>1, <2>1, <2>2
<1>4. QED
  BY <1>2, <1>3

\* A client's steps do not touch the budget of another.
LEMMA OthersKeepBudget ==
  ASSUME TypeOK, NEW c \in Clients, NEW d \in Clients, c # d, AttemptFails(d)
  PROVE  Budget(c)' = Budget(c) /\ pc'[c] = pc[c]
<1> USE DEF TypeOK, AttemptFails, Goto
<1>1. attempts'[c] = attempts[c] /\ chances'[c] = chances[c]
  OBVIOUS
<1>2. pc'[c] = pc[c]
  BY DEF Procs
<1>3. QED
  BY <1>1, <1>2 DEF Budget

\* A discovery makes at most 2 * START_RACE_RETRIES attempts, for every value of it: each new one
\* is paid for and none is given back (discover_or_autostart, _discover_or_autostart).
THEOREM DiscoveryBounded == Spec => RetriesPaid
<1> DEFINE Paid(c) == pc'[c] # "failed" =>
                        /\ Budget(c)' <= Budget(c)
                        /\ pc[c] \notin {"off", "look", "try"} /\ pc'[c] \in {"look", "try"} =>
                             Budget(c)' < Budget(c)
<1>1. ASSUME StartInv, [Next]_vars, NEW c \in Clients PROVE Paid(c)
  <2>1. TypeOK /\ Budget(c) \in Nat
    BY <1>1, BudgetNat DEF StartInv
  <2>2. c \in Procs /\ DOMAIN pc = Procs
    BY <2>1 DEF TypeOK, Procs
  <2>3. ASSUME UNCHANGED <<attempts, chances>>,
               pc'[c] \in {"look", "try"} => pc[c] \in {"off", "look", "try"}
        PROVE  Paid(c)
    BY <2>1, <2>3 DEF Budget
  <2>4. ASSUME NEW d \in Clients, AttemptFails(d) PROVE Paid(c)
    <3>1. CASE d = c
      <4>1. TypeOK'
        BY <1>1, StartStep DEF StartInv
      <4>2. Budget(c)' \in Nat
        BY <4>1, BudgetNatNext
      <4>3. pc'[c] # "failed" => Budget(c)' < Budget(c)
        BY <2>1, <2>4, <3>1, AttemptSpent
      <4>4. QED
        BY <2>1, <4>2, <4>3
    <3>2. CASE d # c
      BY <2>1, <2>4, <3>2, OthersKeepBudget
    <3>3. QED
      BY <3>1, <3>2
  <2>5. ASSUME NEW d \in Clients, \/ Start(d) \/ Look(d) \/ TryLock(d) \/ MeetsStale(d) \/ Unlink(d)
                                  \/ RaceFound(d) \/ RaceEnds(d) \/ LeadFound(d) \/ FollowFound(d)
                                  \/ ClientCrashes(d) \/ \E g \in Gateways : Autostart(d, g)
        PROVE  Paid(c)
    <3>1. UNCHANGED <<attempts, chances>>
      BY <2>5 DEF Start, Look, TryLock, MeetsStale, Unlink, RaceFound, RaceEnds, LeadFound,
         FollowFound, ClientCrashes, Autostart, clientVars
    <3>2. pc'[c] \in {"look", "try"} => pc[c] \in {"off", "look", "try"}
      BY <2>5, <2>2 DEF Goto, Finds, Start, Look, TryLock, MeetsStale, Unlink, RaceFound,
         RaceEnds, LeadFound, FollowFound, ClientCrashes, Autostart
    <3>3. QED
      BY <2>3, <3>1, <3>2
  <2>6. ASSUME NEW d \in Clients, AutostartFails(d) \/ LeadTimesOut(d) \/ FollowTimesOut(d)
        PROVE  Paid(c)
    BY <2>4, <2>6 DEF AutostartFails, LeadTimesOut, FollowTimesOut
  <2>7. ASSUME NEW g \in Gateways, \/ GatewaySteps(g) \/ BeginsStop(g) \/ GatewayDies(g)
                                   \/ \E k \in Configs : Serve(g, k)
        PROVE  Paid(c)
    BY <2>3, <2>7 DEF GatewaySteps, Publish, StartFails, Converged, ConvergeFails, RolledBack,
       EndsStop, BeginsStop, GatewayDies, Serve, clientVars
  <2>8. ASSUME NEW p \in Stoppers, \/ StopReads(p) \/ StopSignals(p) \/ StopSeesExit(p)
                                   \/ StopTimesOut(p) \/ StopCleans(p)
        PROVE  Paid(c)
    <3>1. UNCHANGED <<attempts, chances>> /\ pc'[c] = pc[c]
      BY <2>8, <2>2, StartupAssumptions DEF Goto, StopReads, StopSignals, StopSeesExit, StopTimesOut,
         StopCleans, clientVars
    <3>2. QED
      BY <2>3, <3>1
  <2>9. CASE UNCHANGED vars
    BY <2>3, <2>9 DEF vars
  <2>10. QED
    BY <1>1, <2>5, <2>6, <2>7, <2>8, <2>9 DEF Next, ClientSteps
<1>2. StartInv /\ [Next]_vars => \A c \in Clients : Paid(c)
  BY <1>1
<1>3. QED
  BY <1>2, StartInit, StartStep, PTL DEF Spec, RetriesPaid

-----------------------------------------------------------------------------
(* The processes keep the protocol of the shared lockfile. *)

\* What clients and stop commands may do to the file and to a gateway.
Deletes == lockfile' \in {lockfile, None} /\ gw' = gw

LEMMA ClientDeletes ==
  ASSUME NEW c \in Clients, Start(c) \/ Look(c) \/ TryLock(c) \/ MeetsStale(c) \/ Unlink(c)
         \/ RaceFound(c) \/ RaceEnds(c) \/ AutostartFails(c) \/ LeadFound(c) \/ LeadTimesOut(c)
         \/ FollowFound(c) \/ FollowTimesOut(c) \/ ClientCrashes(c)
  PROVE  Deletes
BY DEF Deletes, Start, Look, TryLock, MeetsStale, Unlink, RaceFound, RaceEnds, AutostartFails,
       LeadFound, LeadTimesOut, FollowFound, FollowTimesOut, ClientCrashes, vars

LEMMA DeletesImplements == ASSUME Deletes PROVE [Process!Next]_(Process!vars)
BY DEF Deletes, Process!Next, Process!Unlinked, Process!vars

LEMMA ProcessStep ==
  ASSUME StartInv, Process!NamesBound, [Next]_vars
  PROVE  [Process!Next]_(Process!vars)
<1> USE StartupAssumptions
        DEF StartInv, TypeOK, Stopping, Process!NamesBound, Process!Goes, Process!Ended,
            Process!Disowned
<1>1. ASSUME NEW c \in Clients, NEW g \in Gateways, Autostart(c, g) PROVE Process!Starts(g)
  BY <1>1 DEF Autostart, Process!Starts
<1>2. ASSUME NEW g \in Gateways, NEW k \in Configs, Serve(g, k) PROVE Process!Starts(g)
  BY <1>2 DEF Serve, Process!Starts
<1>3. ASSUME NEW g \in Gateways, Publish(g) PROVE Process!Publishes(g)
  BY <1>3 DEF Publish, Process!Publishes
<1>4. ASSUME NEW g \in Gateways, Converged(g) PROVE Process!Converges(g)
  BY <1>4 DEF Converged, Process!Converges
<1>5. ASSUME NEW g \in Gateways, ConvergeFails(g) PROVE Process!Withdraws(g)
  BY <1>5 DEF ConvergeFails, Process!Withdraws
<1>6. ASSUME NEW g \in Gateways, RolledBack(g) \/ StartFails(g) \/ EndsStop(g)
      PROVE Process!Exits(g)
  BY <1>6 DEF RolledBack, StartFails, EndsStop, Process!Exits
<1>7. ASSUME NEW g \in Gateways, BeginsStop(g) PROVE Process!Stops(g)
  BY <1>7 DEF BeginsStop, Process!Stops
<1>8. ASSUME NEW g \in Gateways, GatewayDies(g) PROVE Process!Dies(g)
  BY <1>8 DEF GatewayDies, Alive, Process!Dies
<1>9. ASSUME NEW p \in Stoppers, StopSignals(p)
      PROVE Process!Stops(found[p]) \/ Process!Dies(found[p]) \/ Deletes
  BY <1>9 DEF StopSignals, Deletes, Process!Stops, Process!Dies
<1>10. ASSUME NEW p \in Stoppers, StopReads(p) \/ StopSeesExit(p) \/ StopTimesOut(p) \/ StopCleans(p)
       PROVE Deletes
  BY <1>10 DEF Deletes, StopReads, StopSeesExit, StopTimesOut, StopCleans
<1>11. CASE UNCHANGED vars
  BY <1>11 DEF vars, Process!vars
<1>12. ASSUME NEW p \in Stoppers, StopSignals(p) PROVE found[p] \in Gateways
  BY <1>12 DEF StopSignals
<1>13. QED
  BY <1>1, <1>2, <1>3, <1>4, <1>5, <1>6, <1>7, <1>8, <1>9, <1>10, <1>11, <1>12, ClientDeletes,
     DeletesImplements
  DEF Next, ClientSteps, GatewaySteps, Process!Next

LEMMA NamedStep ==
  ASSUME None \notin Gateways, DOMAIN gw = Gateways, Process!NamesBound,
         [Process!Next]_(Process!vars)
  PROVE  Process!NamesBound'
BY DEF Process!NamesBound, Process!Next, Process!vars, Process!Starts, Process!Publishes,
       Process!Converges, Process!Stops, Process!Withdraws, Process!Exits, Process!Dies,
       Process!Unlinked, Process!Goes, Process!Disowned, Process!Ended

LEMMA NamedInvariant == Spec => []NamedInv
<1>1. Init => NamedInv
  BY StartInit, StartupAssumptions DEF Init, NamedInv, Process!NamesBound
<1>2. NamedInv /\ [Next]_vars => NamedInv'
  <2> SUFFICES ASSUME NamedInv, [Next]_vars PROVE NamedInv'
    OBVIOUS
  <2>1. DOMAIN gw = Gateways /\ None \notin Gateways
    BY StartupAssumptions DEF NamedInv, StartInv, TypeOK
  <2>2. QED
    BY <2>1, StartStep, ProcessStep, NamedStep DEF NamedInv
<1>3. QED
  BY <1>1, <1>2, PTL DEF Spec

\* The lockfile never leads to a process that is starting, rolling back or gone in good order,
\* whoever deletes it and whoever dies meanwhile (write_lockfile, delete_lockfile).
THEOREM FileNamesBound == Spec => []Process!NamesBound
<1>1. NamedInv => Process!NamesBound
  BY DEF NamedInv
<1>2. QED
  BY <1>1, NamedInvariant, PTL

\* Serve processes that start, stop, roll back and die while clients and stop commands delete the
\* file keep the protocol of GatewayProcesses (_run_serve_gateway).
THEOREM ImplementsProcesses == Spec => GatewaySpec
<1>1. Init => Process!Init
  BY DEF Init, Process!Init
<1>2. NamedInv /\ [Next]_vars => [Process!Next]_(Process!vars)
  BY ProcessStep DEF NamedInv
<1>3. QED
  BY <1>1, <1>2, NamedInvariant, PTL DEF Spec, GatewaySpec, Process!Spec
=============================================================================
