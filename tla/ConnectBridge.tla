---------------------------- MODULE ConnectBridge ----------------------------
(***************************************************************************)
(* `tela connect' after discovery: one process that reads JSON-RPC frames  *)
(* from its host on stdin, posts each to the gateway, and writes what comes*)
(* back.  When the gateway vanishes, restarts, warms up or forgets the     *)
(* session it recovers: discovery, readiness, registration, a new session  *)
(* by posting the host's initialize again, and the frame once more if that *)
(* cannot run it twice.  A signal may interrupt it anywhere.               *)
(*                                                                         *)
(* The gateway is external: here it is only what the bridge can meet.  A   *)
(* gateway process is a number; its port and token change with it when     *)
(* gateways are found by discovery, and stay when --server names one.      *)
(* A frame the gateway has received may run although its connection is     *)
(* gone (orphans).  A session is the process that issued it and whether it *)
(* is still known there; a new one replaces the bridge's old one.          *)
(***************************************************************************)
EXTENDS Naturals

CONSTANTS
  MaxRequests,   \* frames the host sends
  MaxRecovery,   \* max_recovery_attempts
  HttpRetries,   \* HTTP_TRANSIENT_RETRIES
  MaxPolls,      \* BRIDGE_READINESS_MAX_POLLS
  MaxGateways    \* gateway processes of a behaviour

ASSUME BridgeAssumptions ==
  /\ MaxRequests \in Nat /\ MaxRecovery \in Nat /\ HttpRetries \in Nat
  /\ MaxPolls \in Nat \ {0} /\ MaxGateways \in Nat \ {0}

VARIABLES
  kind,       \* what each frame is, "none" before it is read
  runs,       \* whether the gateway ran it; 2 if more than once and it is not safe to repeat
  answer,     \* what was written for it, or "undelivered" when stdout was gone
  mode,       \* gateways are found by "discovery", or --server names the "server"
  gw,         \* the gateway: process, state, whether it knows the bridge
  orphans,    \* frames received whose connection is gone; 0 is the bridge's own initialize
  pc,         \* where the bridge is
  back,       \* who called _recover_inflight_transport: "cycle" or "forward"
  ep,         \* the endpoint in BridgeRuntimeState
  cand,       \* recovered_host, recovered_port, recovered_bearer_token
  attempts,   \* state.recovery_attempts
  tries,      \* attempts of the current retry_http_request
  polls,      \* poll_index
  loop,       \* forward_stdio_http: mcp_url, session_id, initialize_payload
  cur,        \* _forward_request_with_recovery: current_mcp_url, current_session_id
  http,       \* the POST in flight
  n,          \* frames read
  posts,      \* how often the current frame was posted
  out,        \* the outcome about to be written
  stopped     \* handling_stop

vars == <<kind, runs, answer, mode, gw, orphans, pc, back, ep, cand, attempts, tries, polls, loop,
          cur, http, n, posts, out, stopped>>
hostVars == <<kind, runs, answer>>

Requests == 1..MaxRequests
\* bridge_replay_policy: "list" stands for ping and tools/list, "call" for everything else that is
\* not a notification (tools/call, batches, malformed frames).
Safe  == {"initialize", "list"}
Kinds == Safe \cup {"call", "notify"}
Gateways == 1..MaxGateways
NoSession == [gw |-> 0, live |-> FALSE]
Sessions  == [gw : 0..MaxGateways, live : BOOLEAN]
\* The error codes of _recovery_error_code the bridge can report.
Errors == {"interrupted", "forward", "exhausted", "recovery"}
Waiting == {"sent", "result", "empty", "warming", "missing", "reconnect", "refused", "lost"}
Attached == {"cycle", "read", "post", "await", "write", "recover", "discover", "poll", "reregister",
             "boot", "bootAwait"}

GatewayStates == [inc : Gateways, st : {"down", "warming", "ready"}, reg : BOOLEAN]
LoopLocals    == [url : Gateways, session : Sessions, init : BOOLEAN]
FrameLocals   == [url : Gateways, session : Sessions]
PostStates    == [st : Waiting \cup {"idle"}, session : Sessions]

\* Every variable of the bridge has its type.
TypeOK ==
  /\ kind \in [Requests -> Kinds \cup {"none"}] /\ runs \in [Requests -> 0..2]
  /\ answer \in [Requests -> Errors \cup {"none", "result", "silent", "undelivered"}]
  /\ mode \in {"discovery", "server"}
  /\ gw \in GatewayStates
  /\ orphans \subseteq 0..MaxRequests
  /\ pc \in Attached \cup {"register", "teardown", "resume", "exited"}
  /\ back \in {"cycle", "forward"} /\ ep \in Gateways /\ cand \in Gateways
  /\ attempts \in 0..MaxRecovery /\ tries \in 0..HttpRetries /\ polls \in 0..(MaxPolls - 1)
  /\ loop \in LoopLocals
  /\ cur \in FrameLocals
  /\ http \in PostStates
  /\ n \in 0..MaxRequests /\ posts \in Nat /\ stopped \in BOOLEAN
  /\ out \in Errors \cup {"result", "silent", "none"}

Init ==
  /\ kind = [r \in Requests |-> "none"] /\ runs = [r \in Requests |-> 0]
  /\ answer = [r \in Requests |-> "none"]
  /\ mode \in {"discovery", "server"}
  /\ gw \in [inc : {1}, st : {"warming", "ready"}, reg : {FALSE}]
  /\ orphans = {} /\ pc = "register" /\ back = "cycle" /\ ep = 1 /\ cand = 1
  /\ attempts = 0 /\ tries = 0 /\ polls = 0
  /\ loop = [url |-> 1, session |-> NoSession, init |-> FALSE]
  /\ cur = [url |-> 1, session |-> NoSession]
  /\ http = [st |-> "idle", session |-> NoSession]
  /\ n = 0 /\ posts = 0 /\ out = "none" /\ stopped = FALSE

-----------------------------------------------------------------------------
(* The gateway, as the bridge meets it *)

gwVars == <<gw, orphans>>
recoveryVars == <<back, cand, attempts, polls>>
\* What only the forwarding of a frame changes.
frameVars == <<kind, n, posts, out>>

Reachable(e) == gw.st # "down" /\ (mode = "discovery" => e = gw.inc)

\* What is in flight: a frame of the host, or the initialize of a re-bootstrap.
Payload == IF pc = "bootAwait" THEN 0 ELSE n
IsInitialize(m) == IF m = 0 THEN TRUE ELSE kind[m] = "initialize"

More(k, x) == IF x = 0 \/ k \in Safe THEN 1 ELSE 2
Ended(s) == [s EXCEPT !.live = FALSE]
\* Whatever sessions the bridge holds, the gateway has forgotten them.
SessionsEnd ==
  /\ loop' = [loop EXCEPT !.session = Ended(@)]
  /\ cur' = [cur EXCEPT !.session = Ended(@)]
NewSession == [gw |-> gw.inc, live |-> TRUE]

\* The gateway runs m: initialize replaces the session the bridge had.
Runs(m) ==
  /\ runs' = IF m = 0 THEN runs ELSE [runs EXCEPT ![m] = More(kind[m], @)]
  /\ IF IsInitialize(m) THEN SessionsEnd ELSE UNCHANGED <<loop, cur>>

Responds(st, s) == http' = [st |-> st, session |-> s]
NotRun == UNCHANGED <<runs, loop, cur>>

\* An initialize is admitted for a registered bridge, anything else in a session the gateway knows.
Admits(m, s) ==
  IF IsInitialize(m) THEN gw.reg /\ (s = NoSession \/ s.live) ELSE s.live

\* The answer to a POST /mcp: 503 while warming; an initialize needs a registration; a session
\* that is unknown is a 404, one whose connection was reaped a reconnect-required error; a frame
\* without a session is refused; anything else runs, and is answered with a result, with an
\* event stream that ends empty, or with an error status.
GatewayAnswers ==
  /\ http.st = "sent"
  /\ LET m == Payload  s == http.session IN
     \/ gw.st = "warming" /\ Responds("warming", s) /\ NotRun
     \/ /\ gw.st = "ready" /\ s # NoSession /\ ~s.live /\ NotRun
        /\ Responds("missing", s) \/ Responds("reconnect", s)
     \/ gw.st = "ready" /\ s = NoSession /\ ~IsInitialize(m) /\ Responds("refused", s) /\ NotRun
     \/ /\ gw.st = "ready" /\ (s = NoSession \/ s.live) /\ IsInitialize(m) /\ ~gw.reg
        /\ Responds("reconnect", Ended(NewSession)) /\ NotRun
     \/ /\ gw.st = "ready" /\ Admits(m, s) /\ Runs(m)
        /\ \E st \in {"result", "empty", "refused"} :
             Responds(st, IF IsInitialize(m) THEN NewSession ELSE s)
  /\ UNCHANGED <<kind, answer, mode, gwVars, pc, recoveryVars, ep, tries, n, posts, out, stopped>>

\* The connection breaks before the answer arrives; a frame not answered yet may still run.
ConnectionLost ==
  /\ http.st \in Waiting \ {"lost"} /\ http' = [http EXCEPT !.st = "lost"]
  /\ orphans' \in {orphans} \cup (IF http.st = "sent" THEN {orphans \cup {Payload}} ELSE {})
  /\ UNCHANGED <<hostVars, mode, gw, pc, recoveryVars, ep, tries, loop, cur, n, posts, out, stopped>>

\* A frame whose connection is gone runs.
OrphanRuns(m) ==
  /\ m \in orphans /\ gw.st = "ready" /\ (IsInitialize(m) => gw.reg)
  /\ orphans' = orphans \ {m} /\ Runs(m)
  /\ http' = IF IsInitialize(m) THEN [http EXCEPT !.session = Ended(@)] ELSE http
  /\ UNCHANGED <<kind, answer, mode, gw, pc, recoveryVars, ep, tries, n, posts, out, stopped>>

\* The reaper drops the bridge's connection.
GatewayForgets ==
  /\ gw.st = "ready" /\ gw.reg /\ gw' = [gw EXCEPT !.reg = FALSE]
  /\ SessionsEnd /\ http' = [http EXCEPT !.session = Ended(@)]
  /\ UNCHANGED <<hostVars, mode, orphans, pc, recoveryVars, ep, tries, n, posts, out, stopped>>

GatewayDies ==
  /\ gw.st # "down" /\ gw' = [gw EXCEPT !.st = "down", !.reg = FALSE] /\ orphans' = {}
  /\ SessionsEnd
  /\ http' = [st |-> IF http.st = "idle" THEN "idle" ELSE "lost", session |-> Ended(http.session)]
  /\ UNCHANGED <<hostVars, mode, pc, recoveryVars, ep, tries, n, posts, out, stopped>>

GatewayStarts ==
  /\ \/ /\ gw.st = "down" /\ gw.inc < MaxGateways
        /\ gw' = [inc |-> gw.inc + 1, st |-> "warming", reg |-> FALSE]
     \/ gw.st = "warming" /\ gw' = [gw EXCEPT !.st = "ready"]
  /\ UNCHANGED <<hostVars, mode, orphans, pc, recoveryVars, ep, tries, loop, cur, http, n, posts, out,
                 stopped>>

-----------------------------------------------------------------------------
(* retry_http_request, for /connect, /status and /disconnect *)

Goto(to) == pc' = to

\* The attach loop is left, and its locals with it.
Left ==
  /\ loop' = [url |-> ep, session |-> NoSession, init |-> FALSE]
  /\ cur' = [url |-> ep, session |-> NoSession]
  /\ back' = "cycle" /\ cand' = ep /\ attempts' = 0 /\ tries' = 0 /\ polls' = 0
  /\ posts' = 0 /\ out' = "none"
Quiet == UNCHANGED <<runs, answer, mode, orphans, http, stopped>>

\* An attempt that fails is repeated while it is transient and attempts remain; otherwise the
\* caller gets an error.
HttpFails(to) ==
  \/ tries < HttpRetries /\ tries' = tries + 1 /\ Goto(pc)
  \/ tries' = 0 /\ Goto(to)

\* A request to e that fails may have been applied.
MayRegister(e) ==
  gw' \in {gw} \cup (IF Reachable(e) THEN {[gw EXCEPT !.reg = TRUE]} ELSE {})

\* urlopen raises what goes wrong after the request was sent without wrapping it in a URLError: no
\* caller catches it, the attach loop is left for the teardown, anything else for good.
HttpRaises ==
  /\ pc \in {"register", "cycle", "poll", "reregister", "teardown", "resume"}
  /\ MayRegister(IF pc = "poll" THEN cand ELSE ep)
  /\ pc \in {"cycle", "poll", "teardown", "resume"} => gw' = gw
  /\ Goto(IF pc \in Attached THEN "teardown" ELSE "exited")
  /\ Left /\ Quiet /\ UNCHANGED <<ep, kind, n>>

-----------------------------------------------------------------------------
(* run_bridge and _run_bridge_cycle *)

\* run_bridge registers first; a failure ends it without a teardown.
Register ==
  /\ pc = "register" /\ Reachable(ep)
  /\ gw' = [gw EXCEPT !.reg = TRUE] /\ tries' = 0 /\ Goto("cycle")
  /\ Quiet /\ UNCHANGED <<recoveryVars, ep, loop, cur, frameVars>>

RegisterFails ==
  /\ pc = "register" /\ MayRegister(ep) /\ HttpFails("exited")
  /\ Quiet /\ UNCHANGED <<recoveryVars, ep, loop, cur, frameVars>>

\* _wait_for_gateway_readiness: one GET /status of e, after which the wait is over in ready or in
\* failed, or polls again.
Polls(e, ready, failed) ==
  \/ Reachable(e) /\ gw.st = "ready" /\ Goto(ready) /\ polls' = 0 /\ tries' = 0
  \/ /\ Reachable(e) /\ gw.st = "warming" /\ tries' = 0
     /\ IF polls + 1 < MaxPolls THEN Goto(pc) /\ polls' = polls + 1 ELSE Goto(failed) /\ polls' = 0
  \/ HttpFails(failed) /\ polls' = (IF pc' = pc THEN polls ELSE 0)

\* A cycle waits for readiness and starts a forwarding loop, which knows no session and no
\* initialize; a readiness failure is recoverable while attempts remain.
Cycle ==
  /\ pc = "cycle"
  /\ Polls(ep, "read", IF attempts < MaxRecovery THEN "recover" ELSE "teardown")
  /\ loop' = IF pc' = "read" THEN [url |-> ep, session |-> NoSession, init |-> FALSE] ELSE loop
  /\ cur' = IF pc' = "read" THEN [url |-> ep, session |-> NoSession] ELSE cur
  /\ Quiet /\ UNCHANGED <<gw, back, cand, attempts, ep, frameVars>>

-----------------------------------------------------------------------------
(* _recover_inflight_transport *)

\* How a failed recovery ends: the attach loop is over, or the frame gets error e.
Gives(e) ==
  IF back = "cycle" THEN Goto("teardown") /\ UNCHANGED out ELSE Goto("write") /\ out' = e

\* Mutant: recovery attempts are not counted.
RecoverUncounted ==
  /\ pc = "recover" /\ UNCHANGED <<attempts, out>>
  /\ Goto(IF mode = "discovery" THEN "discover" ELSE "poll") /\ cand' = ep
  /\ Quiet /\ UNCHANGED <<gw, back, polls, ep, tries, loop, cur, kind, n, posts>>

\* Mutant: one attempt too many.
RecoverOnceMore ==
  /\ pc = "recover"
  /\ IF attempts > MaxRecovery
       THEN Gives("exhausted") /\ UNCHANGED attempts
       ELSE /\ attempts' = attempts + 1 /\ UNCHANGED out
            /\ Goto(IF mode = "discovery" THEN "discover" ELSE "poll")
  /\ cand' = ep
  /\ Quiet /\ UNCHANGED <<gw, back, polls, ep, tries, loop, cur, kind, n, posts>>

Recover ==
  /\ pc = "recover"
  /\ IF attempts >= MaxRecovery
       THEN Gives("exhausted") /\ UNCHANGED attempts
       ELSE /\ attempts' = attempts + 1 /\ UNCHANGED out
            /\ Goto(IF mode = "discovery" THEN "discover" ELSE "poll")
  /\ cand' = ep
  /\ Quiet /\ UNCHANGED <<gw, back, polls, ep, tries, loop, cur, kind, n, posts>>

\* recover_gateway: discovery may find another gateway; without one the old endpoint is tried.
Discover ==
  /\ pc = "discover" /\ Goto("poll")
  /\ cand' \in {ep} \cup (IF gw.st # "down" THEN {gw.inc} ELSE {})
  /\ Quiet /\ UNCHANGED <<gw, back, attempts, polls, ep, tries, loop, cur, frameVars>>

\* The endpoint becomes the bridge's own once it is ready.
PollsRecovered ==
  /\ pc = "poll"
  /\ Polls(cand, "reregister", IF back = "cycle" THEN "teardown" ELSE "write")
  /\ ep' = IF pc' = "reregister" THEN cand ELSE ep
  /\ out' = IF pc' = "write" THEN "recovery" ELSE out
  /\ Quiet /\ UNCHANGED <<gw, back, cand, attempts, loop, cur, kind, n, posts>>

\* Mutant: the frame is sent again with the session it had.
ReregisterKeepsSession ==
  /\ pc = "reregister" /\ Reachable(ep)
  /\ gw' = [gw EXCEPT !.reg = TRUE] /\ tries' = 0
  /\ cur' = IF back = "forward" THEN [cur EXCEPT !.url = ep] ELSE cur
  /\ Goto(IF back = "cycle" THEN "cycle" ELSE "post")
  /\ Quiet /\ UNCHANGED <<recoveryVars, ep, loop, frameVars>>

\* _recover_bridge_transport_state: registered again, the bridge needs a new session for anything
\* but an initialize, if it has seen one.
Reregister ==
  /\ pc = "reregister" /\ Reachable(ep)
  /\ gw' = [gw EXCEPT !.reg = TRUE] /\ tries' = 0
  /\ cur' = IF back = "forward" THEN [url |-> ep, session |-> NoSession] ELSE cur
  /\ Goto(IF back = "cycle" THEN "cycle"
          ELSE IF loop.init /\ kind[n] # "initialize" THEN "boot" ELSE "post")
  /\ Quiet /\ UNCHANGED <<recoveryVars, ep, loop, frameVars>>

\* Mutant: a failed registration puts the old endpoint back.
ReregisterFailsBack ==
  /\ pc = "reregister" /\ MayRegister(ep)
  /\ HttpFails(IF back = "cycle" THEN "teardown" ELSE "write")
  /\ ep' = IF pc' = pc THEN ep ELSE loop.url
  /\ out' = IF pc' = "write" THEN "recovery" ELSE out
  /\ Quiet /\ UNCHANGED <<recoveryVars, loop, cur, kind, n, posts>>

ReregisterFails ==
  /\ pc = "reregister" /\ MayRegister(ep)
  /\ HttpFails(IF back = "cycle" THEN "teardown" ELSE "write")
  /\ out' = IF pc' = "write" THEN "recovery" ELSE out
  /\ Quiet /\ UNCHANGED <<recoveryVars, ep, loop, cur, kind, n, posts>>

-----------------------------------------------------------------------------
(* post_mcp_http and _forward_request_with_recovery *)

idleVars == <<gw, attempts, polls, cand, ep, tries, kind, n>>
NoHttp == http' = [st |-> "idle", session |-> NoSession]

\* The frame gets an outcome, or goes through recovery.
Settles(o) == Goto("write") /\ out' = o /\ UNCHANGED back
Recovers == Goto("recover") /\ back' = "forward" /\ UNCHANGED out

\* Mutant: a frame that may have run is sent again.
UnknownReplays == IF kind[n] = "notify" THEN Settles("silent") ELSE Recovers

\* The frame was sent, or partly, and nothing is known of it: only a safe one is sent again, a
\* notification is let go.
Unknown ==
  IF kind[n] \in Safe THEN Recovers
  ELSE IF kind[n] = "notify" THEN Settles("silent") ELSE Settles("interrupted")

\* The connection, or the headers, fail: the body was not sent.
PostFails ==
  /\ pc = "post" /\ posts' = posts + 1 /\ Recovers
  /\ UNCHANGED <<runs, answer, mode, orphans, idleVars, loop, cur, http, stopped>>

\* The body fails; the gateway may have it.
PostUnknown ==
  /\ pc = "post" /\ Reachable(cur.url) /\ posts' = posts + 1 /\ Unknown
  /\ orphans' \in {orphans, orphans \cup {n}}
  /\ UNCHANGED <<runs, answer, mode, idleVars, loop, cur, http, stopped>>

PostSent ==
  /\ pc = "post" /\ Reachable(cur.url) /\ posts' = posts + 1 /\ Goto("await")
  /\ http' = [st |-> "sent", session |-> cur.session]
  /\ UNCHANGED <<runs, answer, mode, orphans, idleVars, back, loop, cur, out, stopped>>

Done == Settles(IF kind[n] = "notify" THEN "silent" ELSE "result")

\* Mutant: an answer without a message is skipped.
ReceiveSkipsEmpty ==
  /\ pc = "await" /\ http.st \in Waiting \ {"sent"} /\ NoHttp
  /\ cur' = [cur EXCEPT !.session = IF http.st = "result" THEN http.session ELSE @]
  /\ CASE http.st = "result" -> Done
       [] http.st = "empty" -> Goto("read") /\ UNCHANGED <<out, back>>
       [] http.st = "lost" -> Unknown
       [] http.st = "refused" -> Settles("forward")
       [] http.st \in {"warming", "missing", "reconnect"} -> Recovers
  /\ UNCHANGED <<runs, answer, mode, orphans, idleVars, loop, posts, stopped>>

\* The answer: a result; nothing, which is an error unless the frame is a notification; a lost
\* connection; another status, which is an error; or a proof that the frame was not admitted
\* (503 warming, 404 for its session, a reconnect-required error).
Receive ==
  /\ pc = "await" /\ http.st \in Waiting \ {"sent"} /\ NoHttp
  /\ cur' = [cur EXCEPT !.session = IF http.st = "result" THEN http.session ELSE @]
  /\ CASE http.st = "result" -> Done
       [] http.st = "empty" -> IF kind[n] = "notify" THEN Done ELSE Settles("forward")
       [] http.st = "lost" -> Unknown
       [] http.st = "refused" -> Settles("forward")
       [] http.st \in {"warming", "missing", "reconnect"} -> Recovers
  /\ UNCHANGED <<runs, answer, mode, orphans, idleVars, loop, posts, stopped>>

\* The host's initialize is posted again, without a session.
Bootstrap ==
  /\ pc = "boot"
  /\ \/ /\ Settles("forward") /\ UNCHANGED http
        /\ orphans' \in {orphans} \cup (IF Reachable(cur.url) THEN {orphans \cup {0}} ELSE {})
     \/ /\ Reachable(cur.url) /\ Goto("bootAwait")
        /\ http' = [st |-> "sent", session |-> NoSession] /\ UNCHANGED <<orphans, out, back>>
  /\ UNCHANGED <<runs, answer, mode, idleVars, loop, cur, posts, stopped>>

\* Any 2xx answer counts, whatever it says; its session is the one to use.
Bootstrapped ==
  /\ pc = "bootAwait" /\ http.st \in Waiting \ {"sent"} /\ NoHttp
  /\ IF http.st \in {"result", "empty", "reconnect"}
       THEN /\ cur' = [cur EXCEPT !.session = http.session]
            /\ Goto("post") /\ UNCHANGED <<out, back>>
       ELSE Settles("forward") /\ UNCHANGED cur
  /\ UNCHANGED <<runs, answer, mode, orphans, idleVars, loop, posts, stopped>>

-----------------------------------------------------------------------------
(* forward_stdio_http *)

\* The next frame of the host; its initialize is remembered before it has succeeded.
Read(k) ==
  /\ pc = "read" /\ n < MaxRequests
  /\ n' = n + 1 /\ kind' = [kind EXCEPT ![n + 1] = k]
  /\ loop' = [loop EXCEPT !.init = @ \/ k = "initialize"]
  /\ Goto("post")
  /\ Quiet /\ UNCHANGED <<gw, recoveryVars, ep, tries, cur, posts, out>>

\* End of file, or a frame that cannot be read.
ReadEnds ==
  /\ pc = "read" /\ Goto("teardown")
  /\ Left /\ Quiet /\ UNCHANGED <<gw, ep, kind, n>>

\* Nothing is left of a frame that was dealt with.
FrameDone ==
  /\ out' = "none" /\ posts' = 0 /\ back' = "cycle" /\ cand' = ep
  /\ cur' = [url |-> loop'.url, session |-> loop'.session]
  /\ UNCHANGED <<kind, n>>

\* The outcome is written and the attempts are given back; only success moves the loop to the
\* endpoint and session that recovery found.
Write ==
  /\ pc = "write" /\ Goto("read")
  /\ answer' = [answer EXCEPT ![n] = out] /\ attempts' = 0
  /\ loop' = IF out \in Errors THEN loop
             ELSE [loop EXCEPT !.url = cur.url, !.session = cur.session]
  /\ FrameDone
  /\ UNCHANGED <<runs, mode, orphans, http, stopped, gw, polls, ep, tries>>

\* stdout is gone; an error that is_recoverable_error knows leads to another cycle.
WriteFails ==
  /\ pc = "write" /\ out # "silent" /\ answer' = [answer EXCEPT ![n] = "undelivered"]
  /\ Goto("teardown") \/ (attempts < MaxRecovery /\ Goto("recover"))
  /\ UNCHANGED <<attempts, loop>> /\ FrameDone
  /\ UNCHANGED <<runs, mode, orphans, http, stopped, gw, polls, ep, tries>>

-----------------------------------------------------------------------------
(* Signals and teardown *)

\* Mutant: the handler only sets stop_requested.
StopOnlySets ==
  /\ pc # "exited" /\ ~stopped /\ stopped' = TRUE
  /\ UNCHANGED <<hostVars, mode, gw, orphans, pc, recoveryVars, ep, tries, loop, cur, http, n, posts,
                 out>>

\* The first signal interrupts: the registration ends the bridge, the attach loop is left for the
\* teardown, the teardown is resumed once.  What was in flight may still run.
Stop ==
  /\ pc # "exited" /\ ~stopped /\ stopped' = TRUE
  /\ Goto(CASE pc = "register" -> "exited" [] pc = "teardown" -> "resume" [] OTHER -> "teardown")
  /\ NoHttp /\ Left
  /\ orphans' \in {orphans} \cup (IF http.st = "sent" THEN {orphans \cup {Payload}} ELSE {})
  /\ UNCHANGED <<hostVars, mode, gw, ep, n>>

Forgotten == gw' = [gw EXCEPT !.reg = FALSE]

\* _teardown_bridge_connection: POST /disconnect, with retries, or once more when interrupted.
Teardown ==
  /\ pc \in {"teardown", "resume"}
  /\ \/ Reachable(ep) /\ Forgotten /\ Goto("exited") /\ tries' = 0
     \/ /\ UNCHANGED gw \/ (Reachable(ep) /\ Forgotten)
        /\ IF pc = "resume" THEN Goto("exited") /\ tries' = 0 ELSE HttpFails("exited")
  /\ Quiet /\ UNCHANGED <<recoveryVars, ep, loop, cur, frameVars>>

-----------------------------------------------------------------------------
(* The specification *)

BridgeStep ==
  \/ HttpRaises \/ Register \/ RegisterFails \/ Cycle
  \/ Recover \/ Discover \/ PollsRecovered \/ Reregister \/ ReregisterFails
  \/ PostFails \/ PostUnknown \/ PostSent \/ Receive \/ Bootstrap \/ Bootstrapped
  \/ Write \/ WriteFails \/ Teardown

Next ==
  \/ BridgeStep \/ Stop \/ ReadEnds \/ \E k \in Kinds : Read(k)
  \/ GatewayAnswers \/ ConnectionLost \/ GatewayForgets \/ GatewayDies \/ GatewayStarts
  \/ \E m \in 0..MaxRequests : OrphanRuns(m)

Spec == Init /\ [][Next]_vars

\* The bridge runs; a gateway that is up answers what it has received.
FairSpec == Spec /\ WF_vars(BridgeStep) /\ WF_vars(GatewayAnswers)

-----------------------------------------------------------------------------
(* Properties *)

\* What the host may conclude from an answer.
Told ==
  [r \in Requests |->
    CASE answer[r] \in {"exhausted", "recovery"} -> "notrun"
      [] answer[r] \in {"interrupted", "forward", "undelivered"} -> "unknown"
      [] OTHER -> answer[r]]

Delivery == INSTANCE RequestDelivery WITH answer <- Told
\* The bridge implements RequestDelivery: through crashes, restarts, lost answers and replays, a
\* tools/call or a notification runs at most once, a result is reported only for a frame that ran,
\* and one reported with BRIDGE_RECOVERY_EXHAUSTED or RECOVERY_FAILED_FOR_REQUEST never runs.
DeliverySpec == Delivery!Spec

Open(r) == kind[r] # "none" /\ answer[r] = "none"

\* The recovery budget is per frame: however the gateway behaves, a frame is posted at most
\* max_recovery_attempts + 1 times (_recover_inflight_transport, reset_recovery_attempts).
PostsBounded == posts <= MaxRecovery + 1

\* A session is only ever presented to the gateway process that issued it: recovery never pairs
\* the old session with the new endpoint, and a failed recovery never moves one without the other.
SessionPaired ==
  mode = "discovery" =>
    \A x \in {loop, cur} : x.session # NoSession => x.session.gw = x.url

\* While attached, the gateway that knows the bridge is the one its teardown will address, also
\* when the registration was applied and its answer lost.
TeardownAimed == mode = "discovery" /\ pc \in Attached \cup {"teardown"} /\ gw.reg => ep = gw.inc

\* Every frame that is read is answered, unless the bridge ends.
FramesAnswered == \A r \in Requests : Open(r) ~> (~Open(r) \/ pc = "exited")

\* A signal ends the bridge.
StopEnds == stopped ~> pc = "exited"

\* A notification is never answered (ADR-009).
NotificationsSilent ==
  \A r \in Requests : kind[r] = "notify" => answer[r] \in {"none", "silent"}
=============================================================================
