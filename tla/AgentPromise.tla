---------------------------- MODULE AgentPromise ----------------------------
(***************************************************************************)
(* What the owner is promised about work given to an external agent, with  *)
(* no grants, revisions, clocks, concurrent calls or failures: a request   *)
(* gets at most one answer, the answer never changes, and it either takes  *)
(* effect exactly once or is dropped for good.                             *)
(***************************************************************************)
CONSTANTS Requests, Results, None

VARIABLES answer,   \* the result an agent returned for each request
          outcome   \* what became of the request

vars == <<answer, outcome>>

Init ==
  /\ answer = [r \in Requests |-> None]
  /\ outcome = [r \in Requests |-> "open"]

Answer(r, result) ==
  /\ outcome[r] = "open" /\ answer[r] = None
  /\ answer' = [answer EXCEPT ![r] = result]
  /\ UNCHANGED outcome

\* The answer takes effect.
Apply(r) ==
  /\ outcome[r] = "open" /\ answer[r] # None
  /\ outcome' = [outcome EXCEPT ![r] = "applied"]
  /\ UNCHANGED answer

\* Rejected, cancelled or out of time; several requests may expire together.
Drop(dropped) ==
  /\ \A r \in dropped : outcome[r] = "open"
  /\ outcome' = [r \in Requests |-> IF r \in dropped THEN "dropped" ELSE outcome[r]]
  /\ UNCHANGED answer

Next ==
  \/ \E r \in Requests, result \in Results : Answer(r, result)
  \/ \E r \in Requests : Apply(r)
  \/ \E dropped \in SUBSET Requests : Drop(dropped)

Spec == Init /\ [][Next]_vars
=============================================================================
