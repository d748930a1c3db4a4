----------------------------- MODULE AgentWork -----------------------------
(***************************************************************************)
(* Work the owner hands to an external agent: requests bound to automation *)
(* grants, the agent's proposals, and the owner's review.                  *)
(*   backend/agent_work/service.py, proposal_service.py, acceptance.py,    *)
(*   guards.py, models.py; automation/grants.py; api/routes/agent_bridge.py*)
(*                                                                         *)
(* Every operation is a synchronous route in a worker thread with its own  *)
(* database session.  Its first SELECTs run outside a transaction; its     *)
(* first UPDATE takes SQLite's writer reservation, and everything after it *)
(* up to the commit is one step.  So a call has two steps: it reads, and   *)
(* later, after whatever other calls have committed, it commits or fails.  *)
(*                                                                         *)
(* Results are the payloads that pass validation; the career data a        *)
(* request was built from (profile, facts, job, application, CV, dossier)  *)
(* is one version number, which every edit raises.                         *)
(***************************************************************************)
EXTENDS Integers, FiniteSets

CONSTANTS Requests, Grants, Calls, Keys, Results, None,
          Kinds,            \* the kinds of work asked for
          MaxEdits,         \* bound on edits of the career data
          MaxActiveGrants,  \* MAX_ACTIVE_GRANTS_PER_USER
          HistoryLimit      \* RECENT_GRANT_HISTORY_LIMIT

ASSUME AgentAssumption ==
  /\ MaxEdits \in Nat /\ MaxActiveGrants \in Nat /\ HistoryLimit \in Nat
  /\ Kinds \subseteq {"discover", "analyze", "materials"}
  /\ None \notin Requests \cup Grants \cup Results \cup Nat

VARIABLES
  work,     \* the rows of agent_work_requests with their proposals
  grants,   \* the rows of automation_grants
  inputs,   \* version of the career data
  effects,  \* what accepted proposals did to the career data
  vault,    \* User.vault_lifecycle_state
  call,     \* the operations in flight, with what they have read
  view,     \* what the owner's review page last showed of each request
  told      \* what clients have been told

vars == <<work, grants, inputs, effects, vault, call, view, told>>

States == {"none", "queued", "returned", "accepted", "rejected", "canceled", "expired"}
Pending == {"queued", "returned"}
Terminal == {"accepted", "rejected", "canceled", "expired"}

Versions == 0..MaxEdits
Submissions == [key : Keys, result : Results]
NoSubmission == [key |-> None, result |-> None]
NoEffect == [times |-> 0, result |-> None, reviewed |-> None]
NoView == [rev |-> 0, state |-> "none", result |-> None]

\* due: expires_at has passed; seen: input_digest and input_revisions;
\* receipt: accepted_input_revisions of accepted_receipt, None without receipt.
Works == [state : States, kind : Kinds \cup {"none"}, rev : 0..3, grant : Grants \cup {None},
          seen : Versions, due : BOOLEAN,
          proposal : Submissions \cup {NoSubmission}, receipt : Versions \cup {None}]
NoWork == [state |-> "none", kind |-> "none", rev |-> 0, grant |-> None, seen |-> 0,
           due |-> FALSE, proposal |-> NoSubmission, receipt |-> None]
GrantRows == [state : {"none", "active", "revoked", "expired", "pruned"}, writes : BOOLEAN]
Views == [rev : 0..3, state : States, result : Results \cup {None}]

Idle == [op |-> "idle"]
CreateCalls == [op : {"create"}, r : Requests, g : Grants, kind : Kinds, seen : Versions]
SubmitCalls == [op : {"submit"}, r : Requests, g : Grants, sub : Submissions, rev : 0..3]
AcceptCalls == [op : {"accept"}, r : Requests, g : Grants \cup {None}, rev : 0..3,
                reviewed : Results \cup {None}]
DecideCalls == [op : {"rejected", "canceled"}, r : Requests, rev : 0..3]
ViewCalls == [op : {"view"}, r : Requests, rev : 0..3, state : States]

TypeOK ==
  /\ work \in [Requests -> Works]
  /\ grants \in [Grants -> GrantRows]
  /\ inputs \in Versions
  /\ effects \in [Requests -> [times : 0..2, result : Results \cup {None},
                               reviewed : Results \cup {None}]]
  /\ vault \in {"ready", "pending"}
  /\ call \in [Calls -> {Idle} \cup CreateCalls \cup SubmitCalls \cup AcceptCalls
                          \cup DecideCalls \cup ViewCalls]
  /\ view \in [Requests -> Views]
  /\ told \subseteq [r : Requests, says : {"receipt", "accepted", "rejected", "canceled",
                                           "expired"},
                     result : Results \cup {None}]

Init ==
  /\ work = [r \in Requests |-> NoWork]
  /\ grants = [g \in Grants |-> [state |-> "none", writes |-> FALSE]]
  /\ inputs = 0
  /\ effects = [r \in Requests |-> NoEffect]
  /\ vault = "ready"
  /\ call = [c \in Calls |-> Idle]
  /\ view = [r \in Requests |-> NoView]
  /\ told = {}

-----------------------------------------------------------------------------
(* Guards                                                                  *)

\* require_grant: the row is read afresh each time.
Live(g) == g \in Grants /\ grants[g].state = "active" /\ vault = "ready"

MayWrite(g) == Live(g) /\ grants[g].writes

\* require_work_live.
WorkLive(r) == ~work[r].due /\ work[r].state \notin {"expired", "canceled"}

\* require_current_inputs.
InputsCurrent(r) == work[r].seen = inputs

Tell(r, what, result) == told' = told \cup {[r |-> r, says |-> what, result |-> result]}

Begin(c, operation) == call[c] = Idle /\ call' = [call EXCEPT ![c] = operation]
End(c) == call' = [call EXCEPT ![c] = Idle]

UnchangedRest == UNCHANGED <<grants, inputs, effects, vault, view, told>>

-----------------------------------------------------------------------------
(* Grants                                                                  *)

Inactive(rows) == {g \in Grants : rows[g].state \in {"revoked", "expired"}}

\* _prune_inactive_history: the HistoryLimit latest inactive rows stay.  The order
\* of their times is left open.
Prune(rows, kept) ==
  /\ kept \subseteq Inactive(rows)
  /\ Cardinality(kept) <= HistoryLimit
  /\ kept # Inactive(rows) => Cardinality(kept) = HistoryLimit
  /\ grants' = [g \in Grants |-> IF g \in Inactive(rows) \ kept
                                 THEN [rows[g] EXCEPT !.state = "pruned"] ELSE rows[g]]

\* ON DELETE SET NULL of bound_grant_id.
Unbind(gone) ==
  [r \in Requests |-> IF work[r].grant \in gone THEN [work[r] EXCEPT !.grant = None]
                      ELSE work[r]]

Pruned(rows, kept) == Prune(rows, kept) /\ work' = Unbind(Inactive(rows) \ kept)

\* issue_grant: one database transaction under the mutation lock.
IssueGrant(g, writes) ==
  /\ vault = "ready"
  /\ grants[g].state = "none"
  /\ Cardinality({h \in Grants : grants[h].state = "active"}) < MaxActiveGrants
  /\ \E kept \in SUBSET Grants :
       Pruned([grants EXCEPT ![g] = [state |-> "active", writes |-> writes]], kept)
  /\ UNCHANGED <<inputs, effects, vault, call, view, told>>

\* revoke_grant; a second revocation changes nothing.
RevokeGrant(g) ==
  /\ grants[g].state \in {"active", "expired"}
  /\ \E kept \in SUBSET Grants : Pruned([grants EXCEPT ![g].state = "revoked"], kept)
  /\ UNCHANGED <<inputs, effects, vault, call, view, told>>

\* Time passes a grant's expires_at, and so that of all work bound to it.
GrantExpires(g) ==
  /\ grants[g].state = "active"
  /\ grants' = [grants EXCEPT ![g].state = "expired"]
  /\ work' = [r \in Requests |-> IF work[r].grant = g THEN [work[r] EXCEPT !.due = TRUE]
                                 ELSE work[r]]
  /\ UNCHANGED <<inputs, effects, vault, call, view, told>>

\* Time passes the expires_at of one request.
WorkDue(r) ==
  /\ work[r].state # "none" /\ ~work[r].due
  /\ work' = [work EXCEPT ![r].due = TRUE]
  /\ UNCHANGED call /\ UnchangedRest

-----------------------------------------------------------------------------
(* The owner's requests                                                    *)

\* create_work_request, up to the snapshot.  Its reads are separate statements; a
\* snapshot torn by an edit never matches the career data again, like a stale one.
BeginCreate(c, r, g, kind) ==
  /\ vault = "ready"
  /\ work[r].state = "none"
  /\ grants[g].state = "active"
  /\ \A d \in Calls : ~(call[d].op = "create" /\ call[d].r = r)  \* a fresh uuid
  /\ Begin(c, [op |-> "create", r |-> r, g |-> g, kind |-> kind, seen |-> inputs])
  /\ UNCHANGED work /\ UnchangedRest

NewWork(k) ==
  [state |-> "queued", kind |-> k.kind, rev |-> 1, grant |-> k.g, seen |-> k.seen,
   due |-> grants[k.g].state = "expired", proposal |-> NoSubmission, receipt |-> None]

\* The INSERT checks nothing but the foreign key of the grant.
CommitCreate(c) ==
  /\ call[c].op = "create"
  /\ LET k == call[c] IN
     /\ grants[k.g].state # "pruned"
     /\ work' = [work EXCEPT ![k.r] = NewWork(k)]
  /\ End(c)
  /\ UnchangedRest

\* Fault: returned work never expires.
Expire_QueuedOnly ==
  [r \in Requests |->
     IF work[r].due /\ work[r].state = "queued"
     THEN [work[r] EXCEPT !.state = "expired", !.rev = @ + 1] ELSE work[r]]
\* _expire_stale_work: one conditional UPDATE.
Expire ==
  [r \in Requests |->
     IF work[r].due /\ work[r].state \in Pending
     THEN [work[r] EXCEPT !.state = "expired", !.rev = @ + 1] ELSE work[r]]

\* list_work_requests, by the owner or by the bridge.
List ==
  /\ vault = "ready"
  /\ work' = Expire
  /\ UNCHANGED call /\ UnchangedRest

\* get_work_request: the row is read here, its proposal when the view is built.
BeginView(c, r) ==
  /\ vault = "ready"
  /\ work[r].state # "none"
  /\ work' = Expire
  /\ Begin(c, [op |-> "view", r |-> r, rev |-> Expire[r].rev, state |-> Expire[r].state])
  /\ UnchangedRest

ShowView(c) ==
  /\ call[c].op = "view"
  /\ LET k == call[c] IN
     view' = [view EXCEPT ![k.r] = [rev |-> k.rev, state |-> k.state,
                                    result |-> work[k.r].proposal.result]]
  /\ End(c)
  /\ UNCHANGED <<work, grants, inputs, effects, vault, told>>

\* _transition (cancel, reject), up to its conditional UPDATE.
BeginDecide(c, r, to) ==
  /\ vault = "ready"
  /\ work[r].state # "none" /\ view[r] # NoView
  /\ ~work[r].due /\ work[r].state # "canceled"
  /\ Begin(c, [op |-> to, r |-> r, rev |-> view[r].rev])
  /\ UNCHANGED work /\ UnchangedRest

\* _transition on a request whose time is over.
DecideLate(r) ==
  /\ vault = "ready"
  /\ work[r].due
  /\ work' = Expire
  /\ UNCHANGED call /\ UnchangedRest

MayDecide(r, to, rev) ==
  /\ work[r].rev = rev
  /\ work[r].state \in (IF to = "canceled" THEN Pending ELSE {"returned"})

CommitDecide(c) ==
  /\ call[c].op \in {"rejected", "canceled"}
  /\ LET k == call[c] IN
     /\ MayDecide(k.r, k.op, k.rev)
     /\ work' = [work EXCEPT ![k.r].state = k.op, ![k.r].rev = @ + 1]
     /\ Tell(k.r, k.op, None)
  /\ End(c)
  /\ UNCHANGED <<grants, inputs, effects, vault, view>>

-----------------------------------------------------------------------------
(* The agent's proposals                                                   *)

\* ProposalService._request with the grant the client holds.
Reachable(r, g) == work[r].grant = g /\ work[r].state # "none" /\ WorkLive(r)

\* submit_proposal, up to its conditional UPDATE.
BeginSubmit(c, r, g, sub) ==
  /\ MayWrite(g) /\ Reachable(r, g)
  /\ work[r].proposal = NoSubmission /\ work[r].state = "queued"
  /\ Begin(c, [op |-> "submit", r |-> r, g |-> g, sub |-> sub, rev |-> work[r].rev])
  /\ UNCHANGED work /\ UnchangedRest

\* The same submission again: the receipt, and nothing changes.
ReplaySubmit(r, g, sub) ==
  /\ MayWrite(g) /\ Reachable(r, g)
  /\ work[r].proposal = sub
  /\ Tell(r, "receipt", sub.result)
  /\ UNCHANGED <<work, grants, inputs, effects, vault, call, view>>

\* get_work_result: the receipt with the state of the request.
ReadResult(r, g) ==
  /\ Live(g) /\ Reachable(r, g)
  /\ work[r].proposal # NoSubmission
  /\ Tell(r, IF work[r].state \in {"accepted", "rejected"} THEN work[r].state ELSE "receipt",
          IF work[r].state = "rejected" THEN None ELSE work[r].proposal.result)
  /\ UNCHANGED <<work, grants, inputs, effects, vault, call, view>>

\* Fault: the UPDATE asks for the state the request was read in and no more.
MaySubmit_Unguarded(r, g, rev) == work[r].grant = g
MaySubmit(r, g, rev) ==
  work[r].grant = g /\ work[r].state = "queued" /\ work[r].rev = rev

\* What submit_proposal checks again inside its transaction.
SubmitHolds(r, g) == MayWrite(g) /\ InputsCurrent(r)

\* now is read before the writer reservation is waited for: a request that falls
\* due in between is still served.
CommitSubmit(c) ==
  /\ call[c].op = "submit"
  /\ LET k == call[c] IN
     /\ MaySubmit(k.r, k.g, k.rev)
     /\ SubmitHolds(k.r, k.g)
     /\ work' = [work EXCEPT ![k.r].state = "returned", ![k.r].rev = k.rev + 1,
                             ![k.r].proposal = k.sub]
     /\ Tell(k.r, "receipt", k.sub.result)
  /\ End(c)
  /\ UNCHANGED <<grants, inputs, effects, vault, view>>

-----------------------------------------------------------------------------
(* Acceptance                                                              *)

\* _accept_work_proposal, up to its conditional UPDATE.
BeginAccept(c, r) ==
  /\ view[r] # NoView
  /\ MayWrite(work[r].grant) /\ WorkLive(r)
  /\ work[r].state # "accepted"
  /\ Begin(c, [op |-> "accept", r |-> r, g |-> work[r].grant, rev |-> view[r].rev,
               reviewed |-> view[r].result])
  /\ UNCHANGED work /\ UnchangedRest

\* The same acceptance again: the stored receipt, if nothing it covers has changed.
ReplayAccept(r) ==
  /\ MayWrite(work[r].grant) /\ WorkLive(r)
  /\ work[r].state = "accepted" /\ view[r].rev \in {work[r].rev - 1, work[r].rev}
  /\ work[r].receipt = inputs
  /\ Tell(r, "accepted", work[r].proposal.result)
  /\ UNCHANGED <<work, grants, inputs, effects, vault, call, view>>

\* require_work_live on an acceptance, first or again.
AcceptLate(r) ==
  /\ view[r] # NoView
  /\ MayWrite(work[r].grant) /\ work[r].due
  /\ Tell(r, "expired", None)
  /\ UNCHANGED <<work, grants, inputs, effects, vault, call, view>>

\* Fault: whatever has been returned by now is accepted.
MayAccept_AnyRevision(r, rev) == work[r].state = "returned"
MayAccept(r, rev) == work[r].state = "returned" /\ work[r].rev = rev

\* Fault: the inputs are not compared again.
AcceptHolds_StaleInputs(r, g) == MayWrite(g)
\* What the acceptance checks again inside its transaction.
AcceptHolds(r, g) == MayWrite(g) /\ InputsCurrent(r)

\* What the domain writes leave behind: drafts of a CV and a dossier, jobs and
\* applications, or the analysis of a job; times counts the acceptances that got here.
Effect(before, result, reviewed) ==
  [times |-> IF before.times = 0 THEN 1 ELSE 2, result |-> result, reviewed |-> reviewed]

\* Writing CV and dossier drafts changes the inputs, a new vacancy may, a job's
\* analysis does not.
InputsAfter(kind) ==
  CASE kind = "materials" -> {inputs + 1}
    [] kind = "discover"  -> {inputs, inputs + 1}
    [] OTHER              -> {inputs}

\* The domain writes, the receipt and the new state are one transaction.
CommitAccept(c) ==
  /\ call[c].op = "accept"
  /\ LET k == call[c]
         result == work[k.r].proposal.result IN
     /\ MayAccept(k.r, k.rev)
     /\ AcceptHolds(k.r, k.g)
     /\ inputs' \in InputsAfter(work[k.r].kind) \cap Versions
     /\ effects' = [effects EXCEPT ![k.r] = Effect(@, result, k.reviewed)]
     /\ work' = [work EXCEPT ![k.r].state = "accepted", ![k.r].rev = k.rev + 1,
                             ![k.r].receipt = inputs']
     /\ Tell(k.r, "accepted", result)
  /\ End(c)
  /\ UNCHANGED <<grants, vault, view>>

-----------------------------------------------------------------------------
(* Failures, edits, maintenance                                            *)

\* A call is refused, fails and rolls back, or dies with the process.
Fail(c) ==
  /\ call[c] # Idle
  /\ End(c)
  /\ UNCHANGED work /\ UnchangedRest

\* The owner edits the career data.
Edit ==
  /\ vault = "ready"
  /\ inputs < MaxEdits /\ inputs' = inputs + 1
  /\ UNCHANGED <<work, grants, effects, vault, call, view, told>>

\* Maintenance takes the writer permit, which no call survives; this is the
\* operation that ends with the career data it found.
Maintenance ==
  /\ \A c \in Calls : call[c] = Idle
  /\ vault' = IF vault = "ready" THEN "pending" ELSE "ready"
  /\ UNCHANGED <<work, grants, inputs, effects, call, view, told>>

Commit(c) ==
  \/ CommitCreate(c) \/ ShowView(c) \/ CommitDecide(c)
  \/ CommitSubmit(c) \/ CommitAccept(c) \/ Fail(c)

Owner(c) ==
  \E r \in Requests :
    \/ \E g \in Grants, kind \in Kinds : BeginCreate(c, r, g, kind)
    \/ BeginView(c, r) \/ BeginAccept(c, r)
    \/ \E to \in {"rejected", "canceled"} : BeginDecide(c, r, to)

Agent(c) ==
  \E r \in Requests, g \in Grants, sub \in Submissions : BeginSubmit(c, r, g, sub)

Answers ==
  \E r \in Requests :
    \/ DecideLate(r) \/ AcceptLate(r) \/ ReplayAccept(r)
    \/ \E g \in Grants :
         ReadResult(r, g) \/ \E sub \in Submissions : ReplaySubmit(r, g, sub)

Environment ==
  \/ \E g \in Grants : \/ \E writes \in BOOLEAN : IssueGrant(g, writes)
                       \/ RevokeGrant(g) \/ GrantExpires(g)
  \/ \E r \in Requests : WorkDue(r)
  \/ Edit \/ Maintenance

Next ==
  \/ \E c \in Calls : Commit(c) \/ Owner(c) \/ Agent(c)
  \/ Answers \/ List \/ Environment

Spec == Init /\ [][Next]_vars

\* Calls end, time passes, and the owner goes on opening the list once
\* maintenance is over.
FairSpec ==
  /\ Spec
  /\ \A c \in Calls : WF_vars(Commit(c))
  /\ \A r \in Requests : WF_vars(WorkDue(r))
  /\ WF_vars(List)

-----------------------------------------------------------------------------
(* Properties                                                              *)

\* Accepting is atomic and happens once, whoever double-clicks or retries: the
\* effects are in the vault exactly when the request is accepted and has a receipt
\* (acceptance.py:68-146).
AppliedOnce ==
  \A r \in Requests :
    /\ effects[r].times = IF work[r].state = "accepted" THEN 1 ELSE 0
    /\ work[r].receipt # None <=> work[r].state = "accepted"

\* What took effect is what the owner had in front of them when they accepted,
\* also when the view was torn by a submission (acceptance.py:68-83).
AcceptedAsReviewed ==
  \A r \in Requests :
    effects[r].times > 0 => /\ effects[r].result = effects[r].reviewed
                            /\ effects[r].result = work[r].proposal.result

\* The effects in the vault are those of one acceptance of what was reviewed.
AppliedAsReviewed == AppliedOnce /\ AcceptedAsReviewed

\* The revision is a sound token for optimistic concurrency: a page that carries
\* the current revision shows the current state, and the proposal if there is one
\* to decide on (service.py:209-222, 272-319).
ViewExact ==
  \A r \in Requests :
    (view[r] # NoView /\ view[r].rev = work[r].rev) =>
      /\ view[r].state = work[r].state
      /\ view[r].state \in {"returned", "accepted", "rejected"} =>
           view[r].result = work[r].proposal.result

\* No answer is taken back: a receipt stays a receipt for that very result, and
\* work reported rejected or cancelled never takes effect
\* (proposal_service.py:50-123, service.py:272-319).
AnswersHold ==
  \A t \in told :
    CASE t.says = "receipt"  -> t.result = work[t.r].proposal.result
      [] t.says = "accepted" -> effects[t.r].times = 1 /\ effects[t.r].result = t.result
      [] t.says \in {"rejected", "canceled"} -> effects[t.r].times = 0
      [] OTHER -> TRUE

\* What the owner sees under the current revision and what anyone was told is so
\* and stays so.
ShownIsTrue == ViewExact /\ AnswersHold

\* Nothing is stored or applied on an authority that is gone or on inputs that
\* have changed, whatever happened between a call's reads and its commit
\* (proposal_service.py:96-97, acceptance.py:80-83).
AuthorisedEffects ==
  [][\A r \in Requests :
       (work[r].proposal # work'[r].proposal \/ effects[r] # effects'[r]) =>
         /\ MayWrite(work[r].grant)
         /\ InputsCurrent(r)
         /\ work[r].state \in Pending]_vars

\* The detailed system implements AgentPromise (acceptance.py, proposal_service.py,
\* service.py).
Outcome(r) ==
  IF effects[r].times = 1 THEN "applied"
  ELSE IF effects[r].times > 1 THEN "applied twice"
  ELSE IF work[r].state \in {"rejected", "canceled", "expired"} THEN "dropped" ELSE "open"
Promise == INSTANCE AgentPromise WITH
  answer <- [r \in Requests |-> work[r].proposal.result],
  outcome <- [r \in Requests |-> Outcome(r)]
KeepsPromise == Promise!Spec

\* Pending work does not stay pending for ever: once maintenance is over for good,
\* every request is decided or expires (service.py:209-222).
WorkSettles ==
  <>[](vault = "ready") =>
    \A r \in Requests : work[r].state \in Pending ~> work[r].state \in Terminal
=============================================================================
