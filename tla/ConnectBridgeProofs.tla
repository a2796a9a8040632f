------------------------- MODULE ConnectBridgeProofs -------------------------
(***************************************************************************)
(* Proofs about ConnectBridge, for any number of frames, gateway processes,*)
(* recovery attempts, HTTP retries and polls.                              *)
(***************************************************************************)
EXTENDS ConnectBridge, TLAPS

-----------------------------------------------------------------------------
(* Types.  The provers take the records apart from the rest.               *)

FlatTypes ==
  /\ kind \in [Requests -> Kinds \cup {"none"}] /\ runs \in [Requests -> 0..2]
  /\ answer \in [Requests -> Errors \cup {"none", "result", "silent", "undelivered"}]
  /\ mode \in {"discovery", "server"}
  /\ orphans \subseteq 0..MaxRequests
  /\ pc \in Attached \cup {"register", "teardown", "resume", "exited"}
  /\ back \in {"cycle", "forward"} /\ ep \in Gateways /\ cand \in Gateways
  /\ attempts \in 0..MaxRecovery /\ tries \in 0..HttpRetries /\ polls \in 0..(MaxPolls - 1)
  /\ n \in 0..MaxRequests /\ posts \in Nat /\ stopped \in BOOLEAN
  /\ out \in Errors \cup {"result", "silent", "none"}
RecordTypes ==
  gw \in GatewayStates /\ loop \in LoopLocals /\ cur \in FrameLocals /\ http \in PostStates

LEMMA TypeParts == TypeOK <=> FlatTypes /\ RecordTypes
BY DEF TypeOK, FlatTypes, RecordTypes

LEMMA TypeInit == Init => FlatTypes /\ RecordTypes
<1> SUFFICES ASSUME Init PROVE FlatTypes /\ RecordTypes
  OBVIOUS
<1>1. 1 \in Gateways /\ NoSession \in Sessions
  BY BridgeAssumptions DEF Gateways, Sessions, NoSession
<1>2. gw \in GatewayStates
  BY <1>1 DEF Init, GatewayStates
<1>3. loop \in LoopLocals /\ cur \in FrameLocals /\ http \in PostStates
  BY <1>1 DEF Init, LoopLocals, FrameLocals, PostStates
<1>4. FlatTypes
  <2>1. /\ kind \in [Requests -> Kinds \cup {"none"}] /\ runs \in [Requests -> 0..2]
        /\ answer \in [Requests -> Errors \cup {"none", "result", "silent", "undelivered"}]
    BY DEF Init
  <2>2. attempts \in 0..MaxRecovery /\ tries \in 0..HttpRetries /\ polls \in 0..(MaxPolls - 1)
    BY BridgeAssumptions DEF Init
  <2>3. /\ mode \in {"discovery", "server"} /\ orphans = {} /\ pc = "register" /\ back = "cycle"
        /\ ep = 1 /\ cand = 1 /\ n = 0 /\ posts = 0 /\ out = "none"
    BY DEF Init
  <2>4. stopped \in BOOLEAN
    BY DEF Init
  <2>5. QED
    BY <1>1, <2>1, <2>2, <2>3, <2>4, BridgeAssumptions DEF FlatTypes, Attached, Errors
<1>5. QED
  BY <1>2, <1>3, <1>4 DEF RecordTypes

LEMMA FlatStep == FlatTypes /\ RecordTypes /\ [Next]_vars => FlatTypes'
<1> SUFFICES ASSUME FlatTypes, RecordTypes, [Next]_vars PROVE FlatTypes'
  OBVIOUS
<1> USE BridgeAssumptions
    DEF FlatTypes, RecordTypes, GatewayStates, LoopLocals, FrameLocals, PostStates, Attached,
        Waiting, Errors, Gateways
<1>1. CASE GatewayAnswers
  BY <1>1
    DEF GatewayAnswers, Responds, NotRun, Runs, SessionsEnd, gwVars, recoveryVars, Payload, More
<1>2. CASE ConnectionLost
  BY <1>2 DEF ConnectionLost, hostVars, recoveryVars, Payload
<1>3. ASSUME NEW m \in 0..MaxRequests, OrphanRuns(m) PROVE FlatTypes'
  <2>1. runs' \in [Requests -> 0..2]
    <3>1. CASE m = 0
      BY <1>3, <3>1 DEF OrphanRuns, Runs
    <3>2. CASE m # 0
      <4>1. runs' = [runs EXCEPT ![m] = More(kind[m], @)]
        BY <1>3, <3>2 DEF OrphanRuns, Runs
      <4>2. More(kind[m], runs[m]) \in 0..2
        BY DEF More
      <4>3. QED
        BY <4>1, <4>2
    <3>3. QED
      BY <3>1, <3>2
  <2>2. orphans' \subseteq 0..MaxRequests
    BY <1>3 DEF OrphanRuns
  <2>3. UNCHANGED <<kind, answer, mode, pc, back, cand, attempts, polls, ep, tries, n, posts, out,
                    stopped>>
    BY <1>3 DEF OrphanRuns, recoveryVars
  <2>4. QED
    BY <2>1, <2>2, <2>3
<1>4. CASE GatewayForgets
  BY <1>4 DEF GatewayForgets, hostVars, recoveryVars, SessionsEnd
<1>5. CASE GatewayDies
  BY <1>5 DEF GatewayDies, hostVars, recoveryVars, SessionsEnd
<1>6. CASE GatewayStarts
  BY <1>6 DEF GatewayStarts, hostVars, recoveryVars
<1>7. CASE HttpRaises
  BY <1>7 DEF HttpRaises, MayRegister, Goto, Left, Quiet
<1>8. CASE Register
  BY <1>8 DEF Register, Goto, Quiet, recoveryVars, frameVars
<1>9. CASE RegisterFails
  BY <1>9 DEF RegisterFails, MayRegister, HttpFails, Goto, Quiet, recoveryVars, frameVars
<1>10. CASE Cycle
  BY <1>10 DEF Cycle, Polls, HttpFails, Goto, Quiet, frameVars
<1>11. CASE Recover
  BY <1>11 DEF Recover, Gives, Goto, Quiet
<1>12. CASE Discover
  BY <1>12 DEF Discover, Goto, Quiet, frameVars
<1>13. CASE PollsRecovered
  BY <1>13 DEF PollsRecovered, Polls, HttpFails, Goto, Quiet
<1>14. CASE Reregister
  BY <1>14 DEF Reregister, Goto, Quiet, recoveryVars, frameVars
<1>15. CASE ReregisterFails
  BY <1>15 DEF ReregisterFails, MayRegister, HttpFails, Goto, Quiet, recoveryVars
<1>16. CASE PostFails
  BY <1>16 DEF PostFails, Recovers, Goto, idleVars
<1>17. CASE PostUnknown
  BY <1>17 DEF PostUnknown, Unknown, Recovers, Settles, Goto, idleVars
<1>18. CASE PostSent
  BY <1>18 DEF PostSent, Goto, idleVars
<1>19. CASE Receive
  <2>1. /\ pc' \in {"write", "recover"} /\ back' \in {back, "forward"}
        /\ out' \in {out, "result", "silent", "forward", "interrupted"}
    BY <1>19 DEF Receive, Done, Unknown, Recovers, Settles, Goto
  <2>2. UNCHANGED <<kind, runs, answer, mode, orphans, attempts, polls, cand, ep, tries, n,
                    posts, stopped>>
    BY <1>19 DEF Receive, idleVars
  <2>3. QED
    BY <2>1, <2>2
<1>20. CASE Bootstrap
  <2>1. pc' \in {"write", "bootAwait"} /\ out' \in {out, "forward"}
    BY <1>20 DEF Bootstrap, Settles, Goto
  <2>2. orphans' \in {orphans, orphans \cup {0}}
    BY <1>20 DEF Bootstrap
  <2>3. UNCHANGED <<runs, answer, mode, gw, attempts, polls, cand, ep, tries, kind, n, posts, stopped,
                    back>>
    BY <1>20 DEF Bootstrap, Settles, idleVars
  <2>4. QED
    BY <2>1, <2>2, <2>3
<1>21. CASE Bootstrapped
  BY <1>21 DEF Bootstrapped, NoHttp, Settles, Goto, idleVars
<1>22. CASE Write
  <2>1. answer' \in [Requests -> Errors \cup {"none", "result", "silent", "undelivered"}]
    BY <1>22 DEF Write
  <2>2. /\ pc' = "read" /\ attempts' = 0 /\ out' = "none" /\ posts' = 0 /\ back' = "cycle" /\ cand' = ep
        /\ UNCHANGED <<kind, n, runs, mode, orphans, stopped, polls, ep, tries>>
    BY <1>22 DEF Write, FrameDone, Goto
  <2>3. QED
    BY <2>1, <2>2
<1>23. CASE WriteFails
  BY <1>23 DEF WriteFails, FrameDone, Goto
<1>24. CASE Teardown
  BY <1>24 DEF Teardown, Forgotten, HttpFails, Goto, Quiet, recoveryVars, frameVars
<1>25. CASE Stop
  BY <1>25 DEF Stop, NoHttp, Left, Goto, hostVars, Payload
<1>26. CASE ReadEnds
  BY <1>26 DEF ReadEnds, Left, Goto, Quiet
<1>27. ASSUME NEW k \in Kinds, Read(k) PROVE FlatTypes'
  <2>1. kind' \in [Requests -> Kinds \cup {"none"}]
    BY <1>27 DEF Read
  <2>2. n' \in 0..MaxRequests
    BY <1>27 DEF Read
  <2>3. /\ pc' = "post"
        /\ UNCHANGED <<runs, answer, mode, orphans, stopped, back, cand, attempts, polls, ep, tries,
                       posts, out>>
    BY <1>27 DEF Read, Goto, Quiet, recoveryVars
  <2>4. QED
    BY <2>1, <2>2, <2>3
<1>28. CASE UNCHANGED vars
  BY <1>28 DEF vars
<1>29. QED
  BY <1>1, <1>2, <1>3, <1>4, <1>5, <1>6, <1>7, <1>8, <1>9, <1>10, <1>11, <1>12, <1>13, <1>14, <1>15,
     <1>16, <1>17, <1>18, <1>19, <1>20, <1>21, <1>22, <1>23, <1>24, <1>25, <1>26, <1>27, <1>28
  DEF Next, BridgeStep

LEMMA RecordStep == FlatTypes /\ RecordTypes /\ [Next]_vars => RecordTypes'
<1> SUFFICES ASSUME FlatTypes, RecordTypes, [Next]_vars PROVE RecordTypes'
  OBVIOUS
<1> USE BridgeAssumptions
    DEF RecordTypes, GatewayStates, LoopLocals, FrameLocals, PostStates, Waiting
<1>a. NoSession \in Sessions /\ NewSession \in Sessions /\ gw.inc \in Gateways
  BY DEF Sessions, NoSession, NewSession, Gateways
<1>b. \A s \in Sessions : Ended(s) \in Sessions
  BY DEF Sessions, Ended
<1>c. ep \in Gateways /\ cand \in Gateways
  BY DEF FlatTypes
<1>1. CASE GatewayAnswers
  <2>1. loop' \in LoopLocals /\ cur' \in FrameLocals /\ gw' = gw
    BY <1>1, <1>a, <1>b DEF GatewayAnswers, NotRun, Runs, SessionsEnd, gwVars
  <2>2. http' \in PostStates
    BY <1>1, <1>a, <1>b DEF GatewayAnswers, Responds
  <2>3. QED
    BY <2>1, <2>2
<1>2. CASE ConnectionLost
  BY <1>2, <1>a, <1>b, <1>c DEF ConnectionLost
<1>3. ASSUME NEW m \in 0..MaxRequests, OrphanRuns(m) PROVE RecordTypes'
  <2>1. loop' \in LoopLocals /\ cur' \in FrameLocals /\ gw' = gw
    BY <1>3, <1>b DEF OrphanRuns, Runs, SessionsEnd
  <2>2. http' \in PostStates
    BY <1>3, <1>b DEF OrphanRuns
  <2>3. QED
    BY <2>1, <2>2
<1>4. CASE GatewayForgets
  BY <1>4, <1>a, <1>b, <1>c DEF GatewayForgets, SessionsEnd
<1>5. CASE GatewayDies
  BY <1>5, <1>a, <1>b, <1>c DEF GatewayDies, SessionsEnd
<1>6. CASE GatewayStarts
  <2>1. CASE gw.st = "warming" /\ gw' = [gw EXCEPT !.st = "ready"]
    BY <1>6, <2>1 DEF GatewayStarts
  <2>2. CASE gw.inc < MaxGateways /\ gw' = [inc |-> gw.inc + 1, st |-> "warming", reg |-> FALSE]
    <3>1. gw.inc + 1 \in Gateways
      BY <2>2 DEF Gateways
    <3>2. QED
      BY <1>6, <2>2, <3>1 DEF GatewayStarts
  <2>3. QED
    BY <1>6, <2>1, <2>2 DEF GatewayStarts
<1>7. CASE HttpRaises
  <2>1. gw' \in GatewayStates
    BY <1>7 DEF HttpRaises, MayRegister
  <2>2. QED
    BY <1>7, <2>1, <1>a, <1>c DEF HttpRaises, Left, Quiet
<1>8. CASE Register
  BY <1>8, <1>a, <1>b, <1>c DEF Register, Quiet
<1>9. CASE RegisterFails
  <2>1. gw' \in GatewayStates
    BY <1>9 DEF RegisterFails, MayRegister
  <2>2. QED
    BY <1>9, <2>1 DEF RegisterFails, Quiet
<1>10. CASE Cycle
  BY <1>10, <1>a, <1>b, <1>c DEF Cycle, Polls, Quiet
<1>11. CASE Recover
  BY <1>11, <1>a, <1>b, <1>c DEF Recover, Gives, Quiet
<1>12. CASE Discover
  BY <1>12, <1>a, <1>b, <1>c DEF Discover, Quiet
<1>13. CASE PollsRecovered
  BY <1>13, <1>a, <1>b, <1>c DEF PollsRecovered, Polls, Quiet
<1>14. CASE Reregister
  <2>1. gw' \in GatewayStates
    BY <1>14 DEF Reregister
  <2>2. cur' \in FrameLocals
    BY <1>14, <1>a, <1>c DEF Reregister
  <2>3. QED
    BY <1>14, <2>1, <2>2 DEF Reregister, Quiet
<1>15. CASE ReregisterFails
  BY <1>15, <1>a, <1>b, <1>c DEF ReregisterFails, MayRegister, Quiet
<1>16. CASE PostFails
  BY <1>16, <1>a, <1>b, <1>c DEF PostFails, Recovers, idleVars
<1>17. CASE PostUnknown
  BY <1>17, <1>a, <1>b, <1>c DEF PostUnknown, Unknown, Recovers, Settles, idleVars
<1>18. CASE PostSent
  BY <1>18, <1>a, <1>b, <1>c DEF PostSent, idleVars
<1>19. CASE Receive
  BY <1>19, <1>a, <1>b, <1>c DEF Receive, NoHttp, Done, Unknown, Recovers, Settles, idleVars
<1>20. CASE Bootstrap
  <2>1. http' \in PostStates
    BY <1>20, <1>a DEF Bootstrap
  <2>2. QED
    BY <1>20, <2>1 DEF Bootstrap, idleVars
<1>21. CASE Bootstrapped
  BY <1>21, <1>a, <1>b, <1>c DEF Bootstrapped, NoHttp, Settles, idleVars
<1>22. CASE Write
  BY <1>22, <1>a, <1>b, <1>c DEF Write, FrameDone
<1>23. CASE WriteFails
  BY <1>23, <1>a, <1>b, <1>c DEF WriteFails, FrameDone
<1>24. CASE Teardown
  <2>1. gw' \in GatewayStates
    BY <1>24 DEF Teardown, Forgotten
  <2>2. QED
    BY <1>24, <2>1 DEF Teardown, Quiet
<1>25. CASE Stop
  BY <1>25, <1>a, <1>b, <1>c DEF Stop, NoHttp, Left
<1>26. CASE ReadEnds
  BY <1>26, <1>a, <1>b, <1>c DEF ReadEnds, Left, Quiet
<1>27. ASSUME NEW k \in Kinds, Read(k) PROVE RecordTypes'
  BY <1>27, <1>a, <1>b, <1>c DEF Read, Quiet
<1>28. CASE UNCHANGED vars
  BY <1>28, <1>a, <1>b, <1>c DEF vars
<1>29. QED
  BY <1>1, <1>2, <1>3, <1>4, <1>5, <1>6, <1>7, <1>8, <1>9, <1>10, <1>11, <1>12, <1>13, <1>14, <1>15,
     <1>16, <1>17, <1>18, <1>19, <1>20, <1>21, <1>22, <1>23, <1>24, <1>25, <1>26, <1>27, <1>28
  DEF Next, BridgeStep

\* Every variable of the bridge keeps its type, whatever the gateway, the host and signals do.
THEOREM BridgeTypes == Spec => []TypeOK
<1>1. Init => TypeOK
  BY TypeInit, TypeParts
<1>2. TypeOK /\ [Next]_vars => TypeOK'
  <2> SUFFICES ASSUME TypeOK, [Next]_vars PROVE TypeOK'
    OBVIOUS
  <2>1. FlatTypes /\ RecordTypes
    BY TypeParts
  <2>2. FlatTypes' /\ RecordTypes'
    BY <2>1, FlatStep, RecordStep
  <2>3. QED
    BY <2>2 DEF TypeOK, FlatTypes, RecordTypes
<1>3. QED
  BY <1>1, <1>2, PTL DEF Spec

-----------------------------------------------------------------------------
(* The recovery budget, the sessions and the teardown                      *)

\* Where _recover_inflight_transport is, once it has taken an attempt.
InRecovery == pc \in {"discover", "poll", "reregister"}

\* Every attempt pays for one more post: whoever is about to post the frame again has paid, and a
\* recovery of the cycle has posted nothing.
PostsInv ==
  /\ posts <= attempts + 1
  /\ InRecovery \/ pc \in {"post", "boot", "bootAwait"} => posts <= attempts
  /\ pc \in {"register", "cycle", "read", "teardown", "resume"} => posts = 0
  /\ (InRecovery \/ pc = "recover") /\ back = "cycle" => posts = 0

Paired(x) == x.session # NoSession => x.session.gw = x.url
\* The locals of the loop and of the frame are paired; an answer that may still bring a session is
\* that of the endpoint the frame was posted to, and its process is alive.
PairInv ==
  mode = "discovery" =>
    /\ Paired(loop) /\ Paired(cur)
    /\ http.st \notin {"idle", "lost"} =>
         /\ gw.st # "down" /\ cur.url = gw.inc
         /\ http.session # NoSession => http.session.gw = cur.url
    /\ http.st # "idle" => pc \in {"await", "bootAwait"}

\* Only the endpoint the bridge holds can have registered it.
AimInv == mode = "discovery" /\ gw.reg => ep = gw.inc

LEMMA PostsStep == TypeOK /\ PostsInv /\ [Next]_vars => PostsInv'
<1> SUFFICES ASSUME TypeOK, PostsInv, [Next]_vars PROVE PostsInv'
  OBVIOUS
<1> USE BridgeAssumptions
  DEF PostsInv, InRecovery, TypeOK, GatewayStates, LoopLocals, FrameLocals, PostStates
<1>1. CASE GatewayAnswers
  BY <1>1 DEF GatewayAnswers, Responds, NotRun, Runs, SessionsEnd, gwVars, recoveryVars
<1>2. CASE ConnectionLost
  BY <1>2 DEF ConnectionLost, hostVars, recoveryVars
<1>3. ASSUME NEW m \in 0..MaxRequests, OrphanRuns(m) PROVE PostsInv'
  BY <1>3 DEF OrphanRuns, Runs, SessionsEnd, recoveryVars
<1>4. CASE GatewayForgets
  BY <1>4 DEF GatewayForgets, hostVars, recoveryVars, SessionsEnd
<1>5. CASE GatewayDies
  BY <1>5 DEF GatewayDies, hostVars, recoveryVars, SessionsEnd
<1>6. CASE GatewayStarts
  BY <1>6 DEF GatewayStarts, hostVars, recoveryVars
<1>7. CASE HttpRaises
  BY <1>7 DEF HttpRaises, MayRegister, Goto, Left, Quiet
<1>8. CASE Register
  BY <1>8 DEF Register, Goto, Quiet, recoveryVars, frameVars
<1>9. CASE RegisterFails
  BY <1>9 DEF RegisterFails, MayRegister, HttpFails, Goto, Quiet, recoveryVars, frameVars
<1>10. CASE Cycle
  BY <1>10 DEF Cycle, Polls, HttpFails, Goto, Quiet, frameVars
<1>11. CASE Recover
  BY <1>11 DEF Recover, Gives, Goto, Quiet
<1>12. CASE Discover
  BY <1>12 DEF Discover, Goto, Quiet, frameVars
<1>13. CASE PollsRecovered
  BY <1>13 DEF PollsRecovered, Polls, HttpFails, Goto, Quiet
<1>14. CASE Reregister
  BY <1>14 DEF Reregister, Goto, Quiet, recoveryVars, frameVars
<1>15. CASE ReregisterFails
  BY <1>15 DEF ReregisterFails, MayRegister, HttpFails, Goto, Quiet, recoveryVars
<1>16. CASE PostFails
  BY <1>16 DEF PostFails, Recovers, Goto, idleVars
<1>17. CASE PostUnknown
  BY <1>17 DEF PostUnknown, Unknown, Recovers, Settles, Goto, idleVars
<1>18. CASE PostSent
  BY <1>18 DEF PostSent, Goto, idleVars
<1>19. CASE Receive
  <2>1. pc' = "write" \/ (pc' = "recover" /\ back' = "forward")
    BY <1>19 DEF Receive, Done, Unknown, Recovers, Settles, Goto, Waiting
  <2>2. pc = "await" /\ UNCHANGED <<posts, attempts>>
    BY <1>19 DEF Receive, idleVars
  <2>3. QED
    BY <2>1, <2>2
<1>20. CASE Bootstrap
  BY <1>20 DEF Bootstrap, Settles, Goto, idleVars
<1>21. CASE Bootstrapped
  BY <1>21 DEF Bootstrapped, NoHttp, Settles, Goto, idleVars
<1>22. CASE Write
  BY <1>22 DEF Write, FrameDone, Goto
<1>23. CASE WriteFails
  BY <1>23 DEF WriteFails, FrameDone, Goto
<1>24. CASE Teardown
  BY <1>24 DEF Teardown, Forgotten, HttpFails, Goto, Quiet, recoveryVars, frameVars
<1>25. CASE Stop
  BY <1>25 DEF Stop, NoHttp, Left, Goto, hostVars
<1>26. CASE ReadEnds
  BY <1>26 DEF ReadEnds, Left, Goto, Quiet
<1>27. ASSUME NEW k \in Kinds, Read(k) PROVE PostsInv'
  BY <1>27 DEF Read, Goto, Quiet, recoveryVars
<1>28. CASE UNCHANGED vars
  BY <1>28 DEF vars
<1>29. QED
  BY <1>1, <1>2, <1>3, <1>4, <1>5, <1>6, <1>7, <1>8, <1>9, <1>10, <1>11, <1>12, <1>13, <1>14, <1>15,
     <1>16, <1>17, <1>18, <1>19, <1>20, <1>21, <1>22, <1>23, <1>24, <1>25, <1>26, <1>27, <1>28
  DEF Next, BridgeStep

\* The end of a session does not part it from its endpoint.
LEMMA EndedStays ==
  ASSUME NEW s \in Sessions
  PROVE  Ended(s).gw = s.gw /\ (Ended(s) # NoSession => s # NoSession)
<1>1. Ended(s).gw = s.gw
  BY DEF Ended, Sessions
<1>2. ASSUME s = NoSession PROVE Ended(s) = NoSession
  BY <1>2 DEF Sessions, Ended, NoSession
<1>3. QED
  BY <1>1, <1>2

LEMMA PairedEnds ==
  ASSUME TypeOK, SessionsEnd, Paired(loop), Paired(cur)
  PROVE  Paired(loop)' /\ Paired(cur)' /\ cur'.url = cur.url
<1>1. loop.session \in Sessions /\ cur.session \in Sessions
  BY DEF TypeOK, LoopLocals, FrameLocals
<1>2. /\ loop'.url = loop.url /\ loop'.session = Ended(loop.session)
      /\ cur'.url = cur.url /\ cur'.session = Ended(cur.session)
  BY DEF SessionsEnd, TypeOK, LoopLocals, FrameLocals
<1>3. QED
  BY <1>1, <1>2, EndedStays DEF Paired

LEMMA PairStep == TypeOK /\ PairInv /\ [Next]_vars => PairInv'
<1> SUFFICES ASSUME TypeOK, PairInv, [Next]_vars PROVE PairInv'
  OBVIOUS
<1> USE BridgeAssumptions DEF PairInv
<1>a. gw \in GatewayStates /\ loop \in LoopLocals /\ cur \in FrameLocals /\ http \in PostStates
  BY DEF TypeOK
<1>c. http.session \in Sessions /\ NewSession \in Sessions
  BY <1>a DEF TypeOK, PostStates, Sessions, NewSession, GatewayStates, Gateways
<1>1. CASE GatewayAnswers
  <2>1. http.st = "sent" /\ http'.st \in Waiting /\ UNCHANGED <<mode, gw, pc>>
    BY <1>1 DEF GatewayAnswers, Responds, gwVars, Waiting
  <2>2. http'.session \in {http.session, NewSession, Ended(NewSession)}
    BY <1>1 DEF GatewayAnswers, Responds
  <2>3. SessionsEnd \/ UNCHANGED <<loop, cur>>
    BY <1>1 DEF GatewayAnswers, NotRun, Runs
  <2>4. mode = "discovery" => Paired(loop)' /\ Paired(cur)' /\ cur'.url = cur.url
    BY <2>3, PairedEnds DEF Paired
  <2>5. NewSession.gw = gw.inc /\ Ended(NewSession).gw = gw.inc
    BY <1>c, EndedStays DEF NewSession
  <2>6. QED
    BY <2>1, <2>2, <2>4, <2>5
<1>2. CASE ConnectionLost
  <2>1. http.st # "idle" /\ http'.st = "lost" /\ UNCHANGED <<mode, gw, pc, loop, cur>>
    BY <1>2, <1>a DEF ConnectionLost, Waiting, PostStates
  <2>2. QED
    BY <2>1 DEF Paired
<1>3. ASSUME NEW m \in 0..MaxRequests, OrphanRuns(m) PROVE PairInv'
  <2>1. /\ http'.st = http.st /\ UNCHANGED <<mode, gw, pc>>
        /\ http'.session \in {http.session, Ended(http.session)}
    BY <1>3, <1>a DEF OrphanRuns, PostStates
  <2>2. SessionsEnd \/ UNCHANGED <<loop, cur>>
    BY <1>3 DEF OrphanRuns, Runs
  <2>3. mode = "discovery" => Paired(loop)' /\ Paired(cur)' /\ cur'.url = cur.url
    BY <2>2, PairedEnds DEF Paired
  <2>4. QED
    BY <1>c, <2>1, <2>3, EndedStays
<1>4. CASE GatewayForgets
  <2>1. /\ gw'.st = gw.st /\ gw'.inc = gw.inc /\ UNCHANGED <<mode, pc>> /\ SessionsEnd
        /\ http'.st = http.st /\ http'.session = Ended(http.session)
    BY <1>4, <1>a DEF GatewayForgets, PostStates, GatewayStates
  <2>2. mode = "discovery" => Paired(loop)' /\ Paired(cur)' /\ cur'.url = cur.url
    BY <2>1, PairedEnds
  <2>3. QED
    BY <1>c, <2>1, <2>2, EndedStays
<1>5. CASE GatewayDies
  <2>1. /\ UNCHANGED <<mode, pc>> /\ SessionsEnd
        /\ http'.st = IF http.st = "idle" THEN "idle" ELSE "lost"
    BY <1>5 DEF GatewayDies
  <2>2. mode = "discovery" => Paired(loop)' /\ Paired(cur)'
    BY <2>1, PairedEnds
  <2>3. QED
    BY <2>1, <2>2
<1>20. CASE Bootstrap
  <2>1. UNCHANGED <<mode, gw, loop, cur>>
    BY <1>20 DEF Bootstrap, idleVars
  <2>2. CASE UNCHANGED http /\ pc = "boot"
    BY <2>1, <2>2 DEF Paired
  <2>3. CASE Reachable(cur.url) /\ pc' = "bootAwait" /\ http' = [st |-> "sent", session |-> NoSession]
    BY <2>1, <2>3 DEF Paired, Reachable
  <2>4. QED
    BY <1>20, <2>2, <2>3 DEF Bootstrap, Goto
<1> USE <1>a
  DEF Paired, Reachable, NoSession, GatewayStates, LoopLocals, FrameLocals, PostStates, Sessions
<1>6. CASE GatewayStarts
  BY <1>6 DEF GatewayStarts, hostVars, recoveryVars
<1>7. CASE HttpRaises
  BY <1>7 DEF HttpRaises, MayRegister, Goto, Left, Quiet
<1>8. CASE Register
  BY <1>8 DEF Register, Goto, Quiet, recoveryVars, frameVars
<1>9. CASE RegisterFails
  BY <1>9 DEF RegisterFails, MayRegister, HttpFails, Goto, Quiet, recoveryVars, frameVars
<1>10. CASE Cycle
  BY <1>10 DEF Cycle, Polls, HttpFails, Goto, Quiet, frameVars
<1>11. CASE Recover
  BY <1>11 DEF Recover, Gives, Goto, Quiet
<1>12. CASE Discover
  BY <1>12 DEF Discover, Goto, Quiet, frameVars
<1>13. CASE PollsRecovered
  BY <1>13 DEF PollsRecovered, Polls, HttpFails, Goto, Quiet
<1>14. CASE Reregister
  BY <1>14 DEF Reregister, Goto, Quiet, recoveryVars, frameVars
<1>15. CASE ReregisterFails
  BY <1>15 DEF ReregisterFails, MayRegister, HttpFails, Goto, Quiet, recoveryVars
<1>16. CASE PostFails
  BY <1>16 DEF PostFails, Recovers, Goto, idleVars
<1>17. CASE PostUnknown
  BY <1>17 DEF PostUnknown, Unknown, Recovers, Settles, Goto, idleVars
<1>18. CASE PostSent
  BY <1>18 DEF PostSent, Goto, idleVars
<1>19. CASE Receive
  BY <1>19 DEF Receive, NoHttp, Done, Unknown, Recovers, Settles, Goto, idleVars
<1>21. CASE Bootstrapped
  BY <1>21 DEF Bootstrapped, NoHttp, Settles, Goto, idleVars
<1>22. CASE Write
  BY <1>22 DEF Write, FrameDone, Goto
<1>23. CASE WriteFails
  BY <1>23 DEF WriteFails, FrameDone, Goto
<1>24. CASE Teardown
  BY <1>24 DEF Teardown, Forgotten, HttpFails, Goto, Quiet, recoveryVars, frameVars
<1>25. CASE Stop
  BY <1>25 DEF Stop, NoHttp, Left, Goto, hostVars
<1>26. CASE ReadEnds
  BY <1>26 DEF ReadEnds, Left, Goto, Quiet
<1>27. ASSUME NEW k \in Kinds, Read(k) PROVE PairInv'
  BY <1>27 DEF Read, Goto, Quiet, recoveryVars
<1>28. CASE UNCHANGED vars
  BY <1>28 DEF vars
<1>29. QED
  BY <1>1, <1>2, <1>3, <1>4, <1>5, <1>6, <1>7, <1>8, <1>9, <1>10, <1>11, <1>12, <1>13, <1>14, <1>15,
     <1>16, <1>17, <1>18, <1>19, <1>20, <1>21, <1>22, <1>23, <1>24, <1>25, <1>26, <1>27, <1>28
  DEF Next, BridgeStep

LEMMA AimStep == TypeOK /\ AimInv /\ [Next]_vars => AimInv'
<1> SUFFICES ASSUME TypeOK, AimInv, [Next]_vars PROVE AimInv'
  OBVIOUS
<1> USE BridgeAssumptions
  DEF AimInv, Reachable, TypeOK, GatewayStates, LoopLocals, FrameLocals, PostStates
<1>1. CASE GatewayAnswers
  BY <1>1 DEF GatewayAnswers, Responds, NotRun, Runs, SessionsEnd, gwVars, recoveryVars
<1>2. CASE ConnectionLost
  BY <1>2 DEF ConnectionLost, hostVars, recoveryVars
<1>3. ASSUME NEW m \in 0..MaxRequests, OrphanRuns(m) PROVE AimInv'
  BY <1>3 DEF OrphanRuns, Runs, SessionsEnd, recoveryVars
<1>4. CASE GatewayForgets
  BY <1>4 DEF GatewayForgets, hostVars, recoveryVars, SessionsEnd
<1>5. CASE GatewayDies
  BY <1>5 DEF GatewayDies, hostVars, recoveryVars, SessionsEnd
<1>6. CASE GatewayStarts
  BY <1>6 DEF GatewayStarts, hostVars, recoveryVars
<1>7. CASE HttpRaises
  BY <1>7 DEF HttpRaises, MayRegister, Goto, Left, Quiet
<1>8. CASE Register
  BY <1>8 DEF Register, Goto, Quiet, recoveryVars, frameVars
<1>9. CASE RegisterFails
  BY <1>9 DEF RegisterFails, MayRegister, HttpFails, Goto, Quiet, recoveryVars, frameVars
<1>10. CASE Cycle
  BY <1>10 DEF Cycle, Polls, HttpFails, Goto, Quiet, frameVars
<1>11. CASE Recover
  BY <1>11 DEF Recover, Gives, Goto, Quiet
<1>12. CASE Discover
  BY <1>12 DEF Discover, Goto, Quiet, frameVars
<1>13. CASE PollsRecovered
  BY <1>13 DEF PollsRecovered, Polls, HttpFails, Goto, Quiet
<1>14. CASE Reregister
  BY <1>14 DEF Reregister, Goto, Quiet, recoveryVars, frameVars
<1>15. CASE ReregisterFails
  BY <1>15 DEF ReregisterFails, MayRegister, HttpFails, Goto, Quiet, recoveryVars
<1>16. CASE PostFails
  BY <1>16 DEF PostFails, Recovers, Goto, idleVars
<1>17. CASE PostUnknown
  BY <1>17 DEF PostUnknown, Unknown, Recovers, Settles, Goto, idleVars
<1>18. CASE PostSent
  BY <1>18 DEF PostSent, Goto, idleVars
<1>19. CASE Receive
  BY <1>19 DEF Receive, NoHttp, Done, Unknown, Recovers, Settles, Goto, idleVars
<1>20. CASE Bootstrap
  BY <1>20 DEF Bootstrap, Settles, Goto, idleVars
<1>21. CASE Bootstrapped
  BY <1>21 DEF Bootstrapped, NoHttp, Settles, Goto, idleVars
<1>22. CASE Write
  BY <1>22 DEF Write, FrameDone, Goto
<1>23. CASE WriteFails
  BY <1>23 DEF WriteFails, FrameDone, Goto
<1>24. CASE Teardown
  BY <1>24 DEF Teardown, Forgotten, HttpFails, Goto, Quiet, recoveryVars, frameVars
<1>25. CASE Stop
  BY <1>25 DEF Stop, NoHttp, Left, Goto, hostVars
<1>26. CASE ReadEnds
  BY <1>26 DEF ReadEnds, Left, Goto, Quiet
<1>27. ASSUME NEW k \in Kinds, Read(k) PROVE AimInv'
  BY <1>27 DEF Read, Goto, Quiet, recoveryVars
<1>28. CASE UNCHANGED vars
  BY <1>28 DEF vars
<1>29. QED
  BY <1>1, <1>2, <1>3, <1>4, <1>5, <1>6, <1>7, <1>8, <1>9, <1>10, <1>11, <1>12, <1>13, <1>14, <1>15,
     <1>16, <1>17, <1>18, <1>19, <1>20, <1>21, <1>22, <1>23, <1>24, <1>25, <1>26, <1>27, <1>28
  DEF Next, BridgeStep

\* Whatever the gateway answers or loses, a frame of the host is posted at most
\* max_recovery_attempts + 1 times (_recover_inflight_transport counts before each recovery,
\* reset_recovery_attempts gives the attempts back with the answer).
THEOREM PostsStayBounded == Spec => []PostsBounded
<1>1. Init => PostsInv
  BY DEF Init, PostsInv, InRecovery
<1>2. TypeOK /\ PostsInv /\ [Next]_vars => PostsInv'
  BY PostsStep
<1>3. TypeOK /\ PostsInv => PostsBounded
  BY BridgeAssumptions DEF TypeOK, PostsInv, PostsBounded
<1>4. QED
  BY <1>1, <1>2, <1>3, BridgeTypes, PTL DEF Spec

\* The loop and the frame never hold a session with the endpoint of another gateway process
\* (forward_stdio_http, _forward_request_with_recovery, _recover_bridge_transport_state).
THEOREM SessionsPaired == Spec => []SessionPaired
<1>1. Init => PairInv
  BY DEF Init, PairInv, Paired
<1>2. TypeOK /\ PairInv /\ [Next]_vars => PairInv'
  BY PairStep
<1>3. PairInv => SessionPaired
  BY DEF PairInv, Paired, SessionPaired
<1>4. QED
  BY <1>1, <1>2, <1>3, BridgeTypes, PTL DEF Spec

\* While the bridge is attached, no gateway but the one its state names has it registered, so the
\* POST /disconnect of _teardown_bridge_connection goes to the one that must hear it.
THEOREM TeardownsAimed == Spec => []TeardownAimed
<1>1. Init => AimInv
  BY DEF Init, AimInv
<1>2. TypeOK /\ AimInv /\ [Next]_vars => AimInv'
  BY AimStep
<1>3. AimInv => TeardownAimed
  BY DEF AimInv, TeardownAimed
<1>4. QED
  BY <1>1, <1>2, <1>3, BridgeTypes, PTL DEF Spec

-----------------------------------------------------------------------------
(* The bridge implements RequestDelivery                                   *)

Unsafe(r) == kind[r] \notin Safe
\* r has not run, and runs only if it is posted.
Untouched(r) == runs[r] = 0 /\ r \notin orphans
Refused == {"exhausted", "recovery"}
\* A frame was read and is not answered yet: frame n.
Carried == pc \in {"post", "await", "boot", "bootAwait", "write"}
           \/ ((InRecovery \/ pc = "recover") /\ back = "forward")

\* A frame that is not safe to repeat is untouched whenever it may be posted, refused or answered
\* as not admitted, and a result that is carried to the host has been computed.
FrameInv ==
  /\ \A r \in Requests :
       /\ kind[r] = "none" <=> r > n
       /\ kind[r] = "none" => Untouched(r) /\ answer[r] = "none"
       /\ r \in orphans /\ Unsafe(r) => runs[r] = 0
       /\ answer[r] \in Refused /\ Unsafe(r) => Untouched(r)
  /\ pc \in {"register", "cycle"} => back = "cycle"
  /\ http.st # "idle" <=> pc \in {"await", "bootAwait"}
  /\ Carried => n \in Requests /\ answer[n] = "none"
  /\ Carried /\ pc \notin {"await", "write"} /\ Unsafe(n) => Untouched(n)
  /\ pc = "await" /\ http.st \in {"sent", "warming", "missing", "reconnect"} /\ Unsafe(n) =>
       Untouched(n)
  /\ pc = "await" /\ http.st = "result" => runs[n] > 0
  /\ pc = "write" =>
       /\ out # "none"
       /\ out = "result" => runs[n] > 0
       /\ out \in Refused /\ Unsafe(n) => Untouched(n)

LEMMA FrameStep == TypeOK /\ FrameInv /\ [Next]_vars => FrameInv'
<1> SUFFICES ASSUME TypeOK, FrameInv, [Next]_vars PROVE FrameInv'
  OBVIOUS
<1> USE BridgeAssumptions
  DEF FrameInv, Carried, InRecovery, Untouched, Unsafe, Refused, Waiting, Errors, Requests, TypeOK,
      GatewayStates, LoopLocals, FrameLocals, PostStates
<1>1. CASE GatewayAnswers
  <2>1. /\ http.st = "sent" /\ http'.st \in Waiting \ {"sent"}
        /\ UNCHANGED <<kind, answer, pc, back, n, out, orphans>>
    BY <1>1 DEF GatewayAnswers, Responds, gwVars, recoveryVars
  <2>2. \/ UNCHANGED runs /\ http'.st # "result"
        \/ Runs(Payload) /\ http'.st \in {"result", "empty", "refused"}
    BY <1>1 DEF GatewayAnswers, Responds, NotRun
  <2>3. CASE UNCHANGED runs /\ (pc = "await" => http'.st # "result")
    BY <2>1, <2>3
  <2>4. CASE pc = "await" /\ Runs(Payload) /\ http'.st \in {"result", "empty", "refused"}
    <3>1. n \in Requests /\ runs' = [runs EXCEPT ![n] = More(kind[n], @)]
      BY <2>4 DEF Runs, Payload
    <3>2. More(kind[n], runs[n]) > 0
      BY DEF More
    <3>3. QED
      BY <2>1, <2>4, <3>1, <3>2
  <2>5. CASE pc = "bootAwait" /\ Runs(Payload)
    BY <2>1, <2>3, <2>5 DEF Runs, Payload
  <2>6. QED
    BY <2>1, <2>2, <2>3, <2>4, <2>5
<1>2. CASE ConnectionLost
  <2>1. /\ http.st # "idle" /\ http'.st = "lost"
        /\ UNCHANGED <<kind, runs, answer, pc, back, n, out>>
    BY <1>2 DEF ConnectionLost, hostVars, recoveryVars
  <2>2. orphans' = orphans \/ (http.st = "sent" /\ orphans' = orphans \cup {Payload})
    BY <1>2 DEF ConnectionLost
  <2>3. http.st = "sent" /\ pc = "await" /\ Unsafe(n) => Untouched(n)
    OBVIOUS
  <2>4. Payload = (IF pc = "bootAwait" THEN 0 ELSE n)
    BY DEF Payload
  <2>5. QED
    BY <2>1, <2>2, <2>3, <2>4
<1>3. ASSUME NEW m \in 0..MaxRequests, OrphanRuns(m) PROVE FrameInv'
  BY <1>3 DEF OrphanRuns, Runs, SessionsEnd, recoveryVars, More, IsInitialize
<1>4. CASE GatewayForgets
  BY <1>4 DEF GatewayForgets, hostVars, recoveryVars, SessionsEnd
<1>5. CASE GatewayDies
  BY <1>5 DEF GatewayDies, hostVars, recoveryVars, SessionsEnd
<1>6. CASE GatewayStarts
  BY <1>6 DEF GatewayStarts, hostVars, recoveryVars
<1>7. CASE HttpRaises
  BY <1>7 DEF HttpRaises, MayRegister, Goto, Left, Quiet
<1>8. CASE Register
  BY <1>8 DEF Register, Goto, Quiet, recoveryVars, frameVars
<1>9. CASE RegisterFails
  BY <1>9 DEF RegisterFails, MayRegister, HttpFails, Goto, Quiet, recoveryVars, frameVars
<1>10. CASE Cycle
  <2>1. /\ pc = "cycle" /\ pc' \in {"cycle", "read", "recover", "teardown"}
        /\ UNCHANGED <<kind, runs, answer, back, n, out, orphans, http>>
    BY <1>10 DEF Cycle, Polls, HttpFails, Goto, Quiet, frameVars
  <2>2. back = "cycle"
    BY <2>1
  <2>3. QED
    BY <2>1, <2>2
<1>11. CASE Recover
  BY <1>11 DEF Recover, Gives, Goto, Quiet
<1>12. CASE Discover
  BY <1>12 DEF Discover, Goto, Quiet, frameVars
<1>13. CASE PollsRecovered
  BY <1>13 DEF PollsRecovered, Polls, HttpFails, Goto, Quiet
<1>14. CASE Reregister
  BY <1>14 DEF Reregister, Goto, Quiet, recoveryVars, frameVars
<1>15. CASE ReregisterFails
  BY <1>15 DEF ReregisterFails, MayRegister, HttpFails, Goto, Quiet, recoveryVars
<1>16. CASE PostFails
  BY <1>16 DEF PostFails, Recovers, Goto, idleVars
<1>17. CASE PostUnknown
  BY <1>17 DEF PostUnknown, Unknown, Recovers, Settles, Goto, idleVars
<1>18. CASE PostSent
  BY <1>18 DEF PostSent, Goto, idleVars
<1>19. CASE Receive
  BY <1>19 DEF Receive, NoHttp, Done, Unknown, Recovers, Settles, Goto, idleVars
<1>20. CASE Bootstrap
  BY <1>20 DEF Bootstrap, Settles, Goto, idleVars
<1>21. CASE Bootstrapped
  BY <1>21 DEF Bootstrapped, NoHttp, Settles, Goto, idleVars
<1>22. CASE Write
  BY <1>22 DEF Write, FrameDone, Goto
<1>23. CASE WriteFails
  BY <1>23 DEF WriteFails, FrameDone, Goto
<1>24. CASE Teardown
  BY <1>24 DEF Teardown, Forgotten, HttpFails, Goto, Quiet, recoveryVars, frameVars
<1>25. CASE Stop
  <2>1. /\ http'.st = "idle" /\ pc' \in {"exited", "resume", "teardown"} /\ UNCHANGED <<kind, runs, answer, n>>
    BY <1>25 DEF Stop, NoHttp, Goto, hostVars
  <2>2. orphans' = orphans \/ (http.st = "sent" /\ orphans' = orphans \cup {Payload})
    BY <1>25 DEF Stop
  <2>3. Payload = (IF pc = "bootAwait" THEN 0 ELSE n)
    BY DEF Payload
  <2>4. QED
    BY <2>1, <2>2, <2>3
<1>26. CASE ReadEnds
  BY <1>26 DEF ReadEnds, Left, Goto, Quiet
<1>27. ASSUME NEW k \in Kinds, Read(k) PROVE FrameInv'
  <2>1. /\ pc' = "post" /\ n < MaxRequests /\ n' = n + 1 /\ kind' = [kind EXCEPT ![n + 1] = k]
        /\ UNCHANGED <<runs, answer, orphans, http>> /\ pc = "read"
    BY <1>27 DEF Read, Goto, Quiet
  <2>2. k # "none"
    BY DEF Kinds, Safe
  <2>3. n + 1 \in Requests /\ kind[n + 1] = "none"
    BY <2>1
  <2>4. kind' \in [Requests -> Kinds \cup {"none"}] /\ kind'[n + 1] = k
    BY <2>1, <2>3
  <2>5. \A r \in Requests : r # n + 1 => kind'[r] = kind[r]
    BY <2>1
  <2>6. QED
    BY <2>1, <2>2, <2>3, <2>4, <2>5
<1>28. CASE UNCHANGED vars
  BY <1>28 DEF vars
<1>29. QED
  BY <1>1, <1>2, <1>3, <1>4, <1>5, <1>6, <1>7, <1>8, <1>9, <1>10, <1>11, <1>12, <1>13, <1>14, <1>15,
     <1>16, <1>17, <1>18, <1>19, <1>20, <1>21, <1>22, <1>23, <1>24, <1>25, <1>26, <1>27, <1>28
  DEF Next, BridgeStep


\* One frame more is answered for the host: nothing else changes for it.
LEMMA ToldReply ==
  ASSUME TypeOK, NEW r \in Requests, NEW a,
         answer' = [answer EXCEPT ![r] = a],
         NEW b, b = CASE a \in Refused -> "notrun"
                      [] a \in {"interrupted", "forward", "undelivered"} -> "unknown"
                      [] OTHER -> a
  PROVE  Told' = [Told EXCEPT ![r] = b]
BY DEF Told, TypeOK, Refused

LEMMA HostStutters == UNCHANGED hostVars => UNCHANGED Delivery!vars
BY DEF hostVars, Delivery!vars, Told

LEMMA RefinesInit == Init => Delivery!Init
BY DEF Init, Delivery!Init, Told, Requests, Delivery!Requests

\* The gateway runs a frame of the host.
LEMMA RefinesRun ==
  ASSUME TypeOK, FrameInv, NEW m \in Requests, Runs(m), UNCHANGED <<kind, answer>>,
         kind[m] # "none", Unsafe(m) => runs[m] = 0 /\ answer[m] \notin Refused
  PROVE  Delivery!Run(m)
<1>1. Unsafe(m) => Told[m] # "notrun"
  BY DEF Told, Refused, TypeOK, Errors
<1>2. UNCHANGED Told
  BY DEF Told
<1>3. runs' = [runs EXCEPT ![m] = More(kind[m], @)]
  BY DEF Runs, Requests
<1>4. QED
  BY <1>1, <1>2, <1>3
  DEF Delivery!Run, Delivery!Taken, Delivery!More, More, Unsafe, Safe, Delivery!Safe

LEMMA RefinesStep == TypeOK /\ FrameInv /\ [Next]_vars => [Delivery!Next]_(Delivery!vars)
<1> SUFFICES ASSUME TypeOK, FrameInv, [Next]_vars PROVE Delivery!Next \/ UNCHANGED Delivery!vars
  BY DEF Delivery!vars
<1>1. CASE GatewayAnswers
  <2>1. http.st = "sent" /\ pc \in {"await", "bootAwait"} /\ UNCHANGED <<kind, answer>>
    BY <1>1 DEF GatewayAnswers, FrameInv
  <2>2. UNCHANGED runs \/ Runs(Payload)
    BY <1>1 DEF GatewayAnswers, NotRun
  <2>3. CASE UNCHANGED runs
    BY <2>1, <2>3, HostStutters DEF hostVars
  <2>4. CASE pc = "await" /\ Runs(Payload)
    <3>1. /\ n \in Requests /\ Runs(n) /\ kind[n] # "none"
          /\ Unsafe(n) => runs[n] = 0 /\ answer[n] \notin Refused
      BY <2>1, <2>4 DEF Payload, FrameInv, Carried, Untouched, TypeOK, Refused, Requests
    <3>2. Delivery!Run(n)
      BY <2>1, <3>1, RefinesRun
    <3>3. QED
      BY <3>1, <3>2 DEF Delivery!Next, Delivery!Requests, Requests
  <2>5. CASE pc = "bootAwait" /\ Runs(Payload)
    BY <2>1, <2>3, <2>5 DEF Runs, Payload
  <2>6. QED
    BY <2>1, <2>2, <2>3, <2>4, <2>5
<1>2. CASE ConnectionLost
  BY <1>2, HostStutters DEF ConnectionLost, hostVars
<1>3. ASSUME NEW m \in 0..MaxRequests, OrphanRuns(m) PROVE Delivery!Next \/ UNCHANGED Delivery!vars
  <2>1. m \in orphans /\ Runs(m) /\ UNCHANGED <<kind, answer>>
    BY <1>3 DEF OrphanRuns
  <2>2. CASE m = 0
    BY <2>1, <2>2, HostStutters DEF Runs, hostVars
  <2>3. CASE m # 0
    <3>1. m \in Requests /\ kind[m] # "none" /\ (Unsafe(m) => runs[m] = 0 /\ answer[m] \notin Refused)
      BY <2>1, <2>3 DEF FrameInv, Untouched, Requests
    <3>2. Delivery!Run(m)
      BY <2>1, <3>1, RefinesRun
    <3>3. QED
      BY <3>1, <3>2 DEF Delivery!Next, Delivery!Requests, Requests
  <2>4. QED
    BY <2>2, <2>3
<1>4. CASE GatewayForgets
  BY <1>4, HostStutters DEF GatewayForgets, hostVars
<1>5. CASE GatewayDies
  BY <1>5, HostStutters DEF GatewayDies, hostVars
<1>6. CASE GatewayStarts
  BY <1>6, HostStutters DEF GatewayStarts, hostVars
<1>7. CASE HttpRaises
  BY <1>7, HostStutters DEF HttpRaises, Quiet, hostVars
<1>8. CASE Register
  BY <1>8, HostStutters DEF Register, Quiet, frameVars, hostVars
<1>9. CASE RegisterFails
  BY <1>9, HostStutters DEF RegisterFails, Quiet, frameVars, hostVars
<1>10. CASE Cycle
  BY <1>10, HostStutters DEF Cycle, Quiet, frameVars, hostVars
<1>11. CASE Recover
  BY <1>11, HostStutters DEF Recover, Quiet, hostVars
<1>12. CASE Discover
  BY <1>12, HostStutters DEF Discover, Quiet, frameVars, hostVars
<1>13. CASE PollsRecovered
  BY <1>13, HostStutters DEF PollsRecovered, Quiet, hostVars
<1>14. CASE Reregister
  BY <1>14, HostStutters DEF Reregister, Quiet, frameVars, hostVars
<1>15. CASE ReregisterFails
  BY <1>15, HostStutters DEF ReregisterFails, Quiet, hostVars
<1>16. CASE PostFails
  BY <1>16, HostStutters DEF PostFails, idleVars, hostVars
<1>17. CASE PostUnknown
  BY <1>17, HostStutters DEF PostUnknown, idleVars, hostVars
<1>18. CASE PostSent
  BY <1>18, HostStutters DEF PostSent, idleVars, hostVars
<1>19. CASE Receive
  BY <1>19, HostStutters DEF Receive, idleVars, hostVars
<1>20. CASE Bootstrap
  BY <1>20, HostStutters DEF Bootstrap, idleVars, hostVars
<1>21. CASE Bootstrapped
  BY <1>21, HostStutters DEF Bootstrapped, idleVars, hostVars
<1>22. CASE Write
  <2>1. pc = "write" /\ answer' = [answer EXCEPT ![n] = out] /\ UNCHANGED <<kind, runs>>
    BY <1>22 DEF Write, FrameDone
  <2> DEFINE b == CASE out \in Refused -> "notrun"
                    [] out \in {"interrupted", "forward", "undelivered"} -> "unknown"
                    [] OTHER -> out
  <2>2. n \in Requests /\ kind[n] # "none" /\ answer[n] = "none" /\ out # "none"
    BY <2>1 DEF FrameInv, Carried, Requests, TypeOK
  <2>3. b \in Delivery!Answers
    BY <2>2 DEF TypeOK, Errors, Refused, Delivery!Answers
  <2>4. (b = "result" => runs[n] > 0) /\ (b = "notrun" /\ Unsafe(n) => runs[n] = 0)
    BY <2>1 DEF FrameInv, Untouched, TypeOK, Errors, Refused
  <2>5. Told' = [Told EXCEPT ![n] = b] /\ Told[n] = "none"
    <3>1. Told[n] = "none"
      BY <2>2 DEF Told
    <3>2. QED
      BY <2>1, <2>2, <3>1, ToldReply
  <2>6. Delivery!Reply(n, b)
    BY <2>1, <2>2, <2>4, <2>5 DEF Delivery!Reply, Delivery!Taken, Unsafe, Safe, Delivery!Safe
  <2>7. QED
    BY <2>2, <2>3, <2>6 DEF Delivery!Next, Delivery!Requests, Requests
<1>23. CASE WriteFails
  <2>1. pc = "write" /\ answer' = [answer EXCEPT ![n] = "undelivered"] /\ UNCHANGED <<kind, runs>>
    BY <1>23 DEF WriteFails, FrameDone
  <2>2. n \in Requests /\ kind[n] # "none" /\ Told[n] = "none"
    BY <2>1 DEF FrameInv, Carried, Requests, TypeOK, Told
  <2>3. Told' = [Told EXCEPT ![n] = "unknown"]
    BY <2>1, <2>2, ToldReply DEF Refused
  <2>4. Delivery!Reply(n, "unknown")
    BY <2>1, <2>2, <2>3 DEF Delivery!Reply, Delivery!Taken
  <2>5. QED
    BY <2>2, <2>4 DEF Delivery!Next, Delivery!Requests, Requests, Delivery!Answers
<1>24. CASE Teardown
  BY <1>24, HostStutters DEF Teardown, Quiet, frameVars, hostVars
<1>25. CASE Stop
  BY <1>25, HostStutters DEF Stop, hostVars
<1>26. CASE ReadEnds
  BY <1>26, HostStutters DEF ReadEnds, Quiet, hostVars
<1>27. ASSUME NEW k \in Kinds, Read(k) PROVE Delivery!Next \/ UNCHANGED Delivery!vars
  <2>1. n < MaxRequests /\ kind' = [kind EXCEPT ![n + 1] = k] /\ UNCHANGED <<runs, answer>>
    BY <1>27 DEF Read, Quiet
  <2>2. n + 1 \in Requests /\ kind[n + 1] = "none" /\ \A q \in Requests : q < n + 1 => kind[q] # "none"
    BY <2>1, BridgeAssumptions DEF FrameInv, TypeOK, Requests
  <2>3. UNCHANGED Told
    BY <2>1 DEF Told
  <2>4. Delivery!Take(n + 1, k)
    BY <2>1, <2>2, <2>3 DEF Delivery!Take, Delivery!Taken, Requests, Delivery!Requests
  <2>5. QED
    BY <2>2, <2>4
      DEF Delivery!Next, Delivery!Requests, Requests, Kinds, Delivery!Kinds, Safe, Delivery!Safe
<1>28. CASE UNCHANGED vars
  BY <1>28, HostStutters DEF vars, hostVars
<1>29. QED
  BY <1>1, <1>2, <1>3, <1>4, <1>5, <1>6, <1>7, <1>8, <1>9, <1>10, <1>11, <1>12, <1>13, <1>14, <1>15,
     <1>16, <1>17, <1>18, <1>19, <1>20, <1>21, <1>22, <1>23, <1>24, <1>25, <1>26, <1>27, <1>28
  DEF Next, BridgeStep


\* Through crashes, restarts, lost answers and replays, a tools/call or a notification runs at most
\* once, a result is only reported for a frame that ran, and one reported as
\* BRIDGE_RECOVERY_EXHAUSTED or RECOVERY_FAILED_FOR_REQUEST never runs: the bridge implements
\* RequestDelivery (bridge_replay_policy, _forward_request_with_recovery).
THEOREM RefinesDelivery == Spec => DeliverySpec
<1>1. Init => FrameInv
  BY BridgeAssumptions DEF Init, FrameInv, Carried, InRecovery, Untouched, Unsafe, Refused, Requests
<1>2. TypeOK /\ FrameInv /\ [Next]_vars => FrameInv'
  BY FrameStep
<1>3. Spec => []FrameInv
  BY <1>1, <1>2, BridgeTypes, PTL DEF Spec
<1>4. QED
  BY <1>3, BridgeTypes, RefinesInit, RefinesStep, PTL DEF Spec, DeliverySpec, Delivery!Spec
=============================================================================
