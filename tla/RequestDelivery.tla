--------------------------- MODULE RequestDelivery ---------------------------
(***************************************************************************)
(* What the host of a bridge may rely on, whatever happens to the gateway: *)
(* frames are taken in order; a frame that is not safe to repeat runs at   *)
(* most once; a result is only reported for a frame that ran; and such a   *)
(* frame, once reported as not run, has not run and never will.            *)
(***************************************************************************)
EXTENDS Naturals

CONSTANT MaxRequests   \* frames the host sends

VARIABLES
  kind,    \* what each frame is, "none" before it is taken
  runs,    \* whether the gateway ran it; 2 if more than once and it is not safe to repeat
  answer   \* what the host was told

vars == <<kind, runs, answer>>

Requests == 1..MaxRequests
\* "list" stands for ping and tools/list, "call" for every other request.
Safe     == {"initialize", "list"}
Kinds    == Safe \cup {"call", "notify"}
Answers  == {"result", "silent", "notrun", "unknown"}

Taken(r) == kind[r] # "none"
More(k, x) == IF x = 0 \/ k \in Safe THEN 1 ELSE 2

Init ==
  /\ kind = [r \in Requests |-> "none"]
  /\ runs = [r \in Requests |-> 0]
  /\ answer = [r \in Requests |-> "none"]

Take(r, k) ==
  /\ ~Taken(r) /\ \A q \in Requests : q < r => Taken(q)
  /\ kind' = [kind EXCEPT ![r] = k]
  /\ UNCHANGED <<runs, answer>>

Run(r) ==
  /\ Taken(r)
  /\ kind[r] \notin Safe => runs[r] = 0 /\ answer[r] # "notrun"
  /\ runs' = [runs EXCEPT ![r] = More(kind[r], @)]
  /\ UNCHANGED <<kind, answer>>

Reply(r, a) ==
  /\ Taken(r) /\ answer[r] = "none"
  /\ a = "result" => runs[r] > 0
  /\ a = "notrun" /\ kind[r] \notin Safe => runs[r] = 0
  /\ answer' = [answer EXCEPT ![r] = a]
  /\ UNCHANGED <<kind, runs>>

Next ==
  \E r \in Requests :
    \/ \E k \in Kinds : Take(r, k)
    \/ Run(r)
    \/ \E a \in Answers : Reply(r, a)

Spec == Init /\ [][Next]_vars
=============================================================================
