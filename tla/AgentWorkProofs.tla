-------------------------- MODULE AgentWorkProofs --------------------------
(***************************************************************************)
(* For any number of requests, grants, concurrent calls, retries and edits:*)
(* accepted work takes effect exactly once and as the owner reviewed it,   *)
(* on live authority and current inputs; no answer is taken back; and the  *)
(* system implements AgentPromise.                                         *)
(***************************************************************************)
EXTENDS AgentWork, TLAPS

\* A request's revision tells how far it has come.
GoodRow(w, e) ==
  /\ w.state = "none" => w = NoWork
  /\ w.state = "queued" => w.rev = 1
  /\ w.state = "returned" => w.rev = 2
  /\ w.state \in {"accepted", "rejected"} => w.rev = 3
  /\ w.state \in {"canceled", "expired"} => w.rev \in {2, 3}
  /\ w.proposal \in Submissions <=>
       w.state \in {"returned", "accepted", "rejected"} \/ w.rev = 3
  /\ w.receipt # None <=> w.state = "accepted"
  /\ e.times = IF w.state = "accepted" THEN 1 ELSE 0
  /\ e.times = 1 => e.result = w.proposal.result /\ e.reviewed = w.proposal.result

RowInv == \A r \in Requests : GoodRow(work[r], effects[r])

Decided == {"returned", "accepted", "rejected"}

\* What a reader who once saw this revision and state knows of the row now.
Saw(rev, state, w) ==
  /\ 1 <= rev /\ rev <= w.rev
  /\ rev = w.rev => state = w.state
  /\ rev = 2 /\ w.proposal \in Submissions => state = "returned"
  /\ state \in Decided => w.proposal \in Submissions

ViewInv ==
  \A r \in Requests : view[r] # NoView =>
    /\ Saw(view[r].rev, view[r].state, work[r])
    /\ view[r].state \in Decided => view[r].result = work[r].proposal.result

CreateOK(c) ==
  call[c].op = "create" =>
    /\ work[call[c].r].state = "none"
    /\ \A d \in Calls : call[d].op = "create" /\ call[d].r = call[c].r => d = c

ViewOK(c) ==
  call[c].op = "view" => Saw(call[c].rev, call[c].state, work[call[c].r])

\* The grant an acceptance was read with is still the bound one, or gone for good.
AcceptOK(c) ==
  call[c].op = "accept" =>
    /\ 1 <= call[c].rev /\ call[c].rev <= work[call[c].r].rev
    /\ call[c].g \in Grants
    /\ call[c].g = work[call[c].r].grant \/ grants[call[c].g].state = "pruned"
    /\ call[c].rev = 2 /\ work[call[c].r].proposal \in Submissions =>
         call[c].reviewed = work[call[c].r].proposal.result

CallInv == \A c \in Calls : CreateOK(c) /\ ViewOK(c) /\ AcceptOK(c)

ToldInv ==
  \A t \in told :
    /\ t.says = "receipt" => /\ work[t.r].proposal \in Submissions
                             /\ t.result = work[t.r].proposal.result
    /\ t.says = "accepted" => /\ work[t.r].state = "accepted"
                              /\ t.result = work[t.r].proposal.result
    /\ t.says \in {"rejected", "canceled"} => work[t.r].state = t.says

IInv == TypeOK /\ RowInv /\ ViewInv /\ CallInv /\ ToldInv

\* How a row may change in one step.
Grows(w, v) ==
  \/ /\ v.state = w.state /\ v.rev = w.rev /\ v.proposal = w.proposal
  \/ w.state = "none"
  \/ /\ w.state \in Pending /\ v.rev = w.rev + 1
     /\ w.state = "returned" => v.proposal = w.proposal

-----------------------------------------------------------------------------
(* Values                                                                  *)

\* Stored proposals differ from the absence of one, and their results from None.
LEMMA ProposalFacts ==
  /\ NoSubmission \notin Submissions
  /\ \A s \in Submissions : s.result \in Results /\ s.result # None
BY AgentAssumption DEF NoSubmission, Submissions

\* A receipt's input version is never mistaken for the absence of a receipt.
LEMMA NotAVersion == None \notin Versions
BY AgentAssumption DEF Versions

\* The row of a request not yet made is a row.
LEMMA NoWorkTyped == NoWork \in Works
BY AgentAssumption DEF NoWork, Works, States, Versions

\* The fields the operations write stay in their ranges.
LEMMA RowUpdates ==
  ASSUME NEW w \in Works
  PROVE  /\ [w EXCEPT !.due = TRUE] \in Works
         /\ [w EXCEPT !.grant = None] \in Works
BY DEF Works

\* A transition of state and revision, with or without a proposal or a receipt, gives
\* a row again.
LEMMA RowTransitions ==
  ASSUME NEW w \in Works, NEW st \in States, NEW rev \in 0..3
  PROVE  /\ [w EXCEPT !.state = st, !.rev = rev] \in Works
         /\ \A sub \in Submissions :
              [w EXCEPT !.state = st, !.rev = rev, !.proposal = sub] \in Works
         /\ \A v \in Versions :
              [w EXCEPT !.state = st, !.rev = rev, !.receipt = v] \in Works
BY DEF Works

\* A call is of the kind its op says.
LEMMA CallKinds ==
  ASSUME TypeOK, NEW c \in Calls
  PROVE  /\ call[c].op = "create" => call[c] \in CreateCalls
         /\ call[c].op = "submit" => call[c] \in SubmitCalls
         /\ call[c].op = "accept" => call[c] \in AcceptCalls
         /\ call[c].op \in {"rejected", "canceled"} => call[c] \in DecideCalls
         /\ call[c].op = "view" => call[c] \in ViewCalls
BY DEF TypeOK, Idle, CreateCalls, SubmitCalls, AcceptCalls, DecideCalls, ViewCalls

\* What a reader knows stays true.
LEMMA SawStays ==
  ASSUME NEW w \in Works, NEW v \in Works, NEW e, NEW f, GoodRow(w, e), GoodRow(v, f),
         Grows(w, v), NEW rev \in 0..3, NEW state \in States, Saw(rev, state, w)
  PROVE  Saw(rev, state, v)
<1>1. w.state # "none" /\ w.rev \in 0..3 /\ v.rev \in 0..3
  BY DEF Saw, GoodRow, NoWork, Works
<1>2. CASE v.state = w.state /\ v.rev = w.rev /\ v.proposal = w.proposal
  BY <1>2 DEF Saw
<1>3. CASE w.state \in Pending /\ v.rev = w.rev + 1
           /\ (w.state = "returned" => v.proposal = w.proposal)
  <2>1. rev < v.rev /\ (rev = 2 => state = "returned")
    BY <1>1, <1>3 DEF Saw, GoodRow, Pending
  <2>2. state \in Decided => v.proposal \in Submissions
    <3>1. CASE w.state = "queued"
      BY <3>1 DEF Saw, GoodRow
    <3>2. CASE w.state = "returned"
      BY <3>2, <1>3 DEF Saw
    <3> QED
      BY <1>3, <3>1, <3>2 DEF Pending
  <2> QED
    BY <1>1, <2>1, <2>2 DEF Saw
<1> QED
  BY <1>1, <1>2, <1>3 DEF Grows

-----------------------------------------------------------------------------
(* Rows                                                                    *)

\* One step of the table of requests and of what they did.
RowStep ==
  /\ work' \in [Requests -> Works]
  /\ RowInv'
  /\ \A r \in Requests : Grows(work[r], work'[r])

\* Steps that leave both alone.
LEMMA QuietRows ==
  ASSUME TypeOK, RowInv, UNCHANGED <<work, effects>>
  PROVE  RowStep
BY DEF RowStep, RowInv, TypeOK, Grows

\* Losing the grant or falling due is no news.
LEMMA SoftRows ==
  ASSUME TypeOK, RowInv, UNCHANGED effects,
         work' \in [Requests -> Works],
         \A r \in Requests :
           \/ work'[r] = work[r]
           \/ /\ work[r].state # "none"
              /\ work'[r].state = work[r].state /\ work'[r].rev = work[r].rev
              /\ work'[r].proposal = work[r].proposal
              /\ work'[r].receipt = work[r].receipt
  PROVE  RowStep
<1>1. ASSUME NEW r \in Requests
      PROVE  GoodRow(work'[r], effects'[r]) /\ Grows(work[r], work'[r])
  <2>1. GoodRow(work[r], effects[r])
    BY DEF RowInv
  <2>2. CASE work'[r] = work[r]
    BY <2>1, <2>2 DEF Grows
  <2>3. CASE work'[r] # work[r]
    BY <2>1, <2>3 DEF Grows, GoodRow
  <2> QED
    BY <2>2, <2>3
<1> QED
  BY <1>1 DEF RowStep, RowInv

\* Deleting grants unbinds their work.
LEMMA UnbindRows ==
  ASSUME TypeOK, RowInv, NEW rows, NEW kept, Pruned(rows, kept), UNCHANGED effects
  PROVE  RowStep
<1> DEFINE gone == Inactive(rows) \ kept
<1>1. work' = [r \in Requests |-> IF work[r].grant \in gone
                                  THEN [work[r] EXCEPT !.grant = None] ELSE work[r]]
  BY DEF Pruned, Unbind
<1>2. ASSUME NEW r \in Requests
      PROVE  /\ work'[r] \in Works
             /\ \/ work'[r] = work[r]
                \/ /\ work[r].state # "none"
                   /\ work'[r].state = work[r].state /\ work'[r].rev = work[r].rev
                   /\ work'[r].proposal = work[r].proposal
                   /\ work'[r].receipt = work[r].receipt
  <2>1. work[r] \in Works /\ GoodRow(work[r], effects[r])
    BY DEF TypeOK, RowInv
  <2>2. CASE work[r].grant \in gone
    <3>1. work'[r] = [work[r] EXCEPT !.grant = None]
      BY <1>1, <2>2
    <3>2. CASE work[r].state = "none"
      <4>1. work'[r] = work[r]
        BY <2>1, <3>1, <3>2 DEF GoodRow, NoWork
      <4> QED
        BY <2>1, <4>1
    <3>3. CASE work[r].state # "none"
      BY <2>1, <3>1, <3>3 DEF Works
    <3> QED
      BY <3>2, <3>3
  <2>3. CASE work[r].grant \notin gone
    BY <1>1, <2>1, <2>3
  <2> QED
    BY <2>2, <2>3
<1>3. work' \in [Requests -> Works]
  BY <1>1, <1>2
<1> QED
  BY <1>2, <1>3, SoftRows

\* Time that passes changes nothing but whether a request is due.
LEMMA DueRows ==
  ASSUME TypeOK, RowInv, UNCHANGED effects,
         \/ \E g \in Grants : GrantExpires(g)
         \/ \E r \in Requests : WorkDue(r)
  PROVE  RowStep
<1>1. ASSUME NEW g \in Grants, GrantExpires(g)
      PROVE  RowStep
  <2>1. work' = [r \in Requests |-> IF work[r].grant = g THEN [work[r] EXCEPT !.due = TRUE]
                                    ELSE work[r]]
    BY <1>1 DEF GrantExpires
  <2>2. ASSUME NEW r \in Requests
        PROVE  /\ work'[r] \in Works
               /\ \/ work'[r] = work[r]
                  \/ /\ work[r].state # "none"
                     /\ work'[r].state = work[r].state /\ work'[r].rev = work[r].rev
                     /\ work'[r].proposal = work[r].proposal
                     /\ work'[r].receipt = work[r].receipt
    <3>1. work[r] \in Works /\ GoodRow(work[r], effects[r])
      BY DEF TypeOK, RowInv
    <3>2. work[r].state = "none" => work[r].grant # g
      BY <3>1, AgentAssumption DEF GoodRow, NoWork
    <3>3. CASE work[r].grant = g
      BY <2>1, <3>1, <3>2, <3>3 DEF Works
    <3>4. CASE work[r].grant # g
      BY <2>1, <3>1, <3>4
    <3> QED
      BY <3>3, <3>4
  <2> QED
    BY <2>1, <2>2, SoftRows
<1>2. ASSUME NEW r \in Requests, WorkDue(r)
      PROVE  RowStep
  <2>1. work[r].state # "none" /\ work' = [work EXCEPT ![r].due = TRUE]
    BY <1>2 DEF WorkDue
  <2>2. work[r] \in Works /\ [work[r] EXCEPT !.due = TRUE] \in Works
    BY RowUpdates DEF TypeOK
  <2>3. work' \in [Requests -> Works]
    BY <2>1, <2>2 DEF TypeOK
  <2>4. ASSUME NEW q \in Requests
        PROVE  \/ work'[q] = work[q]
               \/ /\ work[q].state # "none"
                  /\ work'[q].state = work[q].state /\ work'[q].rev = work[q].rev
                  /\ work'[q].proposal = work[q].proposal
                  /\ work'[q].receipt = work[q].receipt
    BY <2>1, <2>2 DEF TypeOK, Works
  <2> QED
    BY <2>3, <2>4, SoftRows
<1> QED
  BY <1>1, <1>2

\* Expiring is one step of the revision.
LEMMA ExpireRows ==
  ASSUME TypeOK, RowInv, work' = Expire, UNCHANGED effects
  PROVE  RowStep
<1>1. ASSUME NEW r \in Requests
      PROVE  /\ Expire[r] \in Works
             /\ GoodRow(Expire[r], effects[r]) /\ Grows(work[r], Expire[r])
  <2>1. work[r] \in Works /\ GoodRow(work[r], effects[r])
    BY DEF TypeOK, RowInv
  <2>2. CASE work[r].due /\ work[r].state \in Pending
    <3>1. Expire[r] = [work[r] EXCEPT !.state = "expired", !.rev = work[r].rev + 1]
      BY <2>1, <2>2 DEF Expire, Works
    <3>8. "expired" \in States
      BY DEF States
    <3>2. work[r].rev + 1 \in 0..3
      BY <2>1, <2>2 DEF GoodRow, Pending
    <3>7. Expire[r] \in Works
      <4> DEFINE n == work[r].rev + 1
      <4>1. n \in 0..3
        BY <3>2
      <4> HIDE DEF n
      <4>2. [work[r] EXCEPT !.state = "expired", !.rev = n] \in Works
        BY <2>1, <4>1, <3>8, RowTransitions
      <4> QED
        BY <3>1, <4>2 DEF n
    <3> DEFINE v == Expire[r]
    <3>3. /\ v.state = "expired" /\ v.rev = work[r].rev + 1
          /\ v.proposal = work[r].proposal /\ v.receipt = work[r].receipt
      BY <2>1, <3>1 DEF Works
    <3>4. \/ work[r].state = "queued" /\ work[r].rev = 1
          \/ work[r].state = "returned" /\ work[r].rev = 2
      BY <2>1, <2>2 DEF GoodRow, Pending
    <3>5. GoodRow(v, effects[r])
      BY <2>1, <3>3, <3>4 DEF GoodRow
    <3>6. Grows(work[r], v)
      BY <2>2, <3>3 DEF Grows
    <3> QED
      BY <3>5, <3>6, <3>7
  <2>3. CASE ~(work[r].due /\ work[r].state \in Pending)
    <3>1. Expire[r] = work[r]
      BY <2>3 DEF Expire
    <3> QED
      BY <2>1, <3>1 DEF Grows
  <2> QED
    BY <2>2, <2>3
<1> QED
  BY <1>1 DEF RowStep, RowInv, Expire

\* A row is inserted where there was none.
LEMMA CreateRows ==
  ASSUME TypeOK, RowInv, NEW c \in Calls, CreateOK(c), CommitCreate(c)
  PROVE  RowStep
<1> DEFINE k == call[c]
           n == NewWork(k)
<1>1. k \in CreateCalls
  BY CallKinds DEF CommitCreate
<1>2. work[k.r].state = "none" /\ k.r \in Requests
  BY <1>1 DEF CreateOK, CommitCreate, CreateCalls
<1>3. work' = [work EXCEPT ![k.r] = n] /\ UNCHANGED effects
  BY DEF CommitCreate, UnchangedRest
<1>4. n \in Works
  <2>1. k.kind \in Kinds /\ k.g \in Grants /\ k.seen \in Versions
    BY <1>1 DEF CreateCalls
  <2>2. (grants[k.g].state = "expired") \in BOOLEAN
    OBVIOUS
  <2> QED
    BY <2>1, <2>2 DEF NewWork, Works, States
<1>5. GoodRow(n, effects[k.r])
  <2>1. GoodRow(work[k.r], effects[k.r]) /\ effects[k.r].times = 0
    BY <1>2 DEF RowInv, GoodRow
  <2> QED
    BY <2>1, ProposalFacts DEF GoodRow, NewWork
<1>6. ASSUME NEW r \in Requests
      PROVE  /\ work'[r] \in Works
             /\ GoodRow(work'[r], effects'[r]) /\ Grows(work[r], work'[r])
  <2>1. CASE r = k.r
    BY <1>2, <1>3, <1>4, <1>5, <2>1 DEF TypeOK, Grows
  <2>2. CASE r # k.r
    <3>1. work'[r] = work[r]
      BY <1>2, <1>3, <2>2 DEF TypeOK
    <3> QED
      BY <3>1, <1>3 DEF TypeOK, RowInv, Grows
  <2> QED
    BY <2>1, <2>2
<1> QED
  BY <1>3, <1>4, <1>6 DEF RowStep, RowInv, TypeOK

\* The owner decides on one row.
LEMMA DecideRows ==
  ASSUME TypeOK, RowInv, NEW c \in Calls, CommitDecide(c)
  PROVE  RowStep
<1> DEFINE k == call[c]
           w == work[k.r]
           rev == w.rev + 1
           n == [w EXCEPT !.state = k.op, !.rev = rev]
<1>1. k \in DecideCalls /\ k.r \in Requests /\ k.op \in {"rejected", "canceled"}
  BY CallKinds DEF CommitDecide, DecideCalls
<1>2. w \in Works /\ GoodRow(w, effects[k.r])
  BY <1>1 DEF TypeOK, RowInv
<1>3. work' = [work EXCEPT ![k.r] = n] /\ UNCHANGED effects
  BY <1>1, <1>2 DEF CommitDecide, TypeOK, Works
<1>4. \/ w.state = "queued" /\ w.rev = 1 /\ k.op = "canceled"
      \/ w.state = "returned" /\ w.rev = 2
  BY <1>1, <1>2 DEF CommitDecide, MayDecide, GoodRow, Pending
<1>5. rev \in 0..3 /\ k.op \in States
  BY <1>1, <1>4 DEF States
<1>6. n \in Works
  <2> HIDE DEF rev
  <2> QED
    BY <1>2, <1>5, RowTransitions
<1>7. /\ n.state = k.op /\ n.rev = w.rev + 1
      /\ n.proposal = w.proposal /\ n.receipt = w.receipt
  BY <1>2 DEF Works
<1>8. GoodRow(n, effects[k.r]) /\ Grows(w, n)
  <2> HIDE DEF n, w
  <2>1. GoodRow(n, effects[k.r])
    BY <1>1, <1>2, <1>4, <1>7 DEF GoodRow
  <2>2. Grows(w, n)
    BY <1>4, <1>7 DEF Grows, Pending
  <2> QED
    BY <2>1, <2>2
<1>9. ASSUME NEW r \in Requests
      PROVE  /\ work'[r] \in Works
             /\ GoodRow(work'[r], effects'[r]) /\ Grows(work[r], work'[r])
  <2> HIDE DEF n
  <2>1. CASE r = k.r
    BY <1>1, <1>3, <1>6, <1>8, <2>1 DEF TypeOK
  <2>2. CASE r # k.r
    <3>1. work'[r] = work[r]
      BY <1>1, <1>3, <2>2 DEF TypeOK
    <3> QED
      BY <3>1, <1>3 DEF TypeOK, RowInv, Grows
  <2> QED
    BY <2>1, <2>2
<1> QED
  <2> HIDE DEF n
  <2> QED
    BY <1>3, <1>6, <1>9 DEF RowStep, RowInv, TypeOK

\* A proposal is stored with one step of the revision.
LEMMA SubmitRows ==
  ASSUME TypeOK, RowInv, NEW c \in Calls, CommitSubmit(c)
  PROVE  RowStep
<1> DEFINE k == call[c]
           w == work[k.r]
           rev == k.rev + 1
           n == [w EXCEPT !.state = "returned", !.rev = rev, !.proposal = k.sub]
<1>1. k \in SubmitCalls /\ k.r \in Requests /\ k.sub \in Submissions
  BY CallKinds DEF CommitSubmit, SubmitCalls
<1>2. w \in Works /\ GoodRow(w, effects[k.r])
  BY <1>1 DEF TypeOK, RowInv
<1>3. work' = [work EXCEPT ![k.r] = n] /\ UNCHANGED effects
  BY <1>1, <1>2 DEF CommitSubmit, TypeOK, Works
<1>4. w.state = "queued" /\ w.rev = 1 /\ k.rev = 1
  BY <1>2 DEF CommitSubmit, MaySubmit, GoodRow
<1>5. rev \in 0..3 /\ "returned" \in States
  BY <1>4 DEF States
<1>6. n \in Works
  <2> HIDE DEF rev
  <2> QED
    BY <1>1, <1>2, <1>5, RowTransitions
<1>7. /\ n.state = "returned" /\ n.rev = 2
      /\ n.proposal = k.sub /\ n.receipt = w.receipt
  BY <1>2, <1>4 DEF Works
<1>8. GoodRow(n, effects[k.r]) /\ Grows(w, n)
  <2> HIDE DEF n, w
  <2>1. GoodRow(n, effects[k.r])
    BY <1>1, <1>2, <1>4, <1>7 DEF GoodRow
  <2>2. Grows(w, n)
    BY <1>4, <1>7 DEF Grows, Pending
  <2> QED
    BY <2>1, <2>2
<1>9. ASSUME NEW r \in Requests
      PROVE  /\ work'[r] \in Works
             /\ GoodRow(work'[r], effects'[r]) /\ Grows(work[r], work'[r])
  <2> HIDE DEF n
  <2>1. CASE r = k.r
    BY <1>1, <1>3, <1>6, <1>8, <2>1 DEF TypeOK
  <2>2. CASE r # k.r
    <3>1. work'[r] = work[r]
      BY <1>1, <1>3, <2>2 DEF TypeOK
    <3> QED
      BY <3>1, <1>3 DEF TypeOK, RowInv, Grows
  <2> QED
    BY <2>1, <2>2
<1> QED
  <2> HIDE DEF n
  <2> QED
    BY <1>3, <1>6, <1>9 DEF RowStep, RowInv, TypeOK

\* What an acceptance finds once its UPDATE has matched.
LEMMA AcceptFacts ==
  ASSUME TypeOK, RowInv, NEW c \in Calls, AcceptOK(c), CommitAccept(c)
  PROVE  /\ call[c] \in AcceptCalls /\ call[c].r \in Requests
         /\ work[call[c].r] \in Works
         /\ GoodRow(work[call[c].r], effects[call[c].r])
         /\ work[call[c].r].state = "returned" /\ call[c].rev = 2
         /\ work[call[c].r].proposal \in Submissions
         /\ effects[call[c].r].times = 0
         /\ call[c].reviewed = work[call[c].r].proposal.result
<1> DEFINE k == call[c]
           w == work[k.r]
<1>1. k \in AcceptCalls /\ k.r \in Requests
  BY CallKinds DEF CommitAccept, AcceptCalls
<1>2. w \in Works /\ GoodRow(w, effects[k.r])
  BY <1>1 DEF TypeOK, RowInv
<1>3. w.state = "returned" /\ w.rev = k.rev
  BY DEF CommitAccept, MayAccept
<1>4. k.rev = 2 /\ w.proposal \in Submissions /\ effects[k.r].times = 0
  BY <1>2, <1>3 DEF GoodRow
<1>5. k.reviewed = w.proposal.result
  BY <1>4 DEF AcceptOK, CommitAccept
<1> QED
  BY <1>1, <1>2, <1>3, <1>4, <1>5

\* The effects of an acceptance.
Applied(c) ==
  [times |-> 1, result |-> work[call[c].r].proposal.result,
   reviewed |-> work[call[c].r].proposal.result]

\* What an acceptance writes, with the revision and the reviewed result known.
LEMMA AcceptEffects ==
  ASSUME TypeOK, RowInv, NEW c \in Calls, AcceptOK(c), CommitAccept(c)
  PROVE  /\ effects' = [effects EXCEPT ![call[c].r] = Applied(c)]
         /\ work' = [work EXCEPT ![call[c].r] =
                       [work[call[c].r] EXCEPT !.state = "accepted", !.rev = 3,
                                               !.receipt = inputs']]
         /\ inputs' \in Versions
<1>1. effects[call[c].r].times = 0 /\ call[c].rev = 2
      /\ call[c].reviewed = work[call[c].r].proposal.result /\ call[c].r \in Requests
  BY AcceptFacts
<1>2. effects' = [effects EXCEPT ![call[c].r] = Applied(c)]
  BY <1>1 DEF CommitAccept, Effect, Applied, TypeOK
<1>3. work' = [work EXCEPT ![call[c].r] =
                 [work[call[c].r] EXCEPT !.state = "accepted", !.rev = 3,
                                         !.receipt = inputs']]
  <2> DEFINE k == call[c]
             w == work[k.r]
  <2>1. w \in Works
    BY AcceptFacts
  <2>2. work' = [work EXCEPT ![k.r] = [w EXCEPT !.state = "accepted", !.rev = k.rev + 1,
                                              !.receipt = inputs']]
    BY <1>1, <2>1 DEF CommitAccept, TypeOK, Works
  <2>3. k.rev + 1 = 3
    BY <1>1
  <2> QED
    BY <2>2, <2>3
<1>4. inputs' \in Versions
  BY DEF CommitAccept
<1> QED
  BY <1>2, <1>3, <1>4

\* An acceptance changes one row and its effects together.
LEMMA AcceptRows ==
  ASSUME TypeOK, RowInv, NEW c \in Calls, AcceptOK(c), CommitAccept(c)
  PROVE  RowStep
<1> DEFINE k == call[c]
           w == work[k.r]
           n == [w EXCEPT !.state = "accepted", !.rev = 3, !.receipt = inputs']
<1>1. /\ k.r \in Requests /\ w \in Works /\ GoodRow(w, effects[k.r])
      /\ w.state = "returned" /\ w.rev = 2 /\ w.proposal \in Submissions
  BY AcceptFacts DEF GoodRow
<1>2. /\ work' = [work EXCEPT ![k.r] = n]
      /\ effects' = [effects EXCEPT ![k.r] = Applied(c)] /\ inputs' \in Versions
  BY AcceptEffects
<1>3. inputs' # None
  BY <1>2, NotAVersion
<1>4. n \in Works
  <2>1. "accepted" \in States /\ 3 \in 0..3
    BY DEF States
  <2> QED
    BY <1>1, <1>2, <2>1, RowTransitions
<1>5. n.state = "accepted" /\ n.rev = 3 /\ n.proposal = w.proposal /\ n.receipt = inputs'
  BY <1>1 DEF Works
<1>6. GoodRow(n, Applied(c)) /\ Grows(w, n)
  <2>1. Applied(c).times = 1 /\ Applied(c).result = w.proposal.result
        /\ Applied(c).reviewed = w.proposal.result
    BY DEF Applied
  <2> HIDE DEF n, w
  <2>2. GoodRow(n, Applied(c))
    BY <1>1, <1>3, <1>5, <2>1 DEF GoodRow
  <2>3. Grows(w, n)
    BY <1>1, <1>5 DEF Grows, Pending
  <2> QED
    BY <2>2, <2>3
<1>7. ASSUME NEW r \in Requests
      PROVE  /\ work'[r] \in Works
             /\ GoodRow(work'[r], effects'[r]) /\ Grows(work[r], work'[r])
  <2> HIDE DEF n
  <2>1. CASE r = k.r
    BY <1>1, <1>2, <1>4, <1>6, <2>1 DEF TypeOK
  <2>2. CASE r # k.r
    <3>1. work'[r] = work[r] /\ effects'[r] = effects[r]
      BY <1>1, <1>2, <2>2 DEF TypeOK
    <3> QED
      BY <3>1 DEF TypeOK, RowInv, Grows
  <2> QED
    BY <2>1, <2>2
<1> QED
  <2> HIDE DEF n
  <2> QED
    BY <1>2, <1>4, <1>7 DEF RowStep, RowInv, TypeOK

\* Every step keeps the rows in order.
LEMMA NextRows ==
  ASSUME IInv, Next
  PROVE  RowStep
<1> USE DEF IInv, CallInv
<1>1. ASSUME NEW c \in Calls, Commit(c)
      PROVE  RowStep
  <2>1. CASE CommitCreate(c)
    BY <2>1, CreateRows
  <2>2. CASE ShowView(c)
    BY <2>2, QuietRows DEF ShowView
  <2>3. CASE CommitDecide(c)
    BY <2>3, DecideRows
  <2>4. CASE CommitSubmit(c)
    BY <2>4, SubmitRows
  <2>5. CASE CommitAccept(c)
    BY <2>5, AcceptRows
  <2>6. CASE Fail(c)
    BY <2>6, QuietRows DEF Fail, UnchangedRest
  <2> QED
    BY <1>1, <2>1, <2>2, <2>3, <2>4, <2>5, <2>6 DEF Commit
<1>2. ASSUME NEW c \in Calls, Owner(c)
      PROVE  RowStep
  <2>1. PICK r \in Requests :
          \/ \E g \in Grants, kind \in Kinds : BeginCreate(c, r, g, kind)
          \/ BeginView(c, r) \/ BeginAccept(c, r)
          \/ \E to \in {"rejected", "canceled"} : BeginDecide(c, r, to)
    BY <1>2 DEF Owner
  <2>2. CASE BeginView(c, r)
    BY <2>2, ExpireRows DEF BeginView, UnchangedRest
  <2>3. CASE ~BeginView(c, r)
    BY <2>1, <2>3, QuietRows DEF BeginCreate, BeginAccept, BeginDecide, UnchangedRest
  <2> QED
    BY <2>2, <2>3
<1>3. ASSUME NEW c \in Calls, Agent(c)
      PROVE  RowStep
  BY <1>3, QuietRows DEF Agent, BeginSubmit, UnchangedRest
<1>4. CASE Answers
  <2>1. PICK r \in Requests :
          \/ DecideLate(r) \/ AcceptLate(r) \/ ReplayAccept(r)
          \/ \E g \in Grants :
               ReadResult(r, g) \/ \E sub \in Submissions : ReplaySubmit(r, g, sub)
    BY <1>4 DEF Answers
  <2>2. CASE DecideLate(r)
    BY <2>2, ExpireRows DEF DecideLate, UnchangedRest
  <2>3. CASE ~DecideLate(r)
    BY <2>1, <2>3, QuietRows DEF AcceptLate, ReplayAccept, ReadResult, ReplaySubmit
  <2> QED
    BY <2>2, <2>3
<1>5. CASE List
  BY <1>5, ExpireRows DEF List, UnchangedRest
<1>6. CASE Environment
  <2>1. ASSUME NEW g \in Grants, NEW writes \in BOOLEAN, IssueGrant(g, writes)
        PROVE  RowStep
    BY <2>1, UnbindRows DEF IssueGrant
  <2>2. ASSUME NEW g \in Grants, RevokeGrant(g)
        PROVE  RowStep
    BY <2>2, UnbindRows DEF RevokeGrant
  <2>3. ASSUME NEW g \in Grants, GrantExpires(g)
        PROVE  RowStep
    BY <2>3, DueRows DEF GrantExpires
  <2>4. ASSUME NEW r \in Requests, WorkDue(r)
        PROVE  RowStep
    BY <2>4, DueRows DEF WorkDue, UnchangedRest
  <2>5. CASE Edit \/ Maintenance
    BY <2>5, QuietRows DEF Edit, Maintenance
  <2> QED
    BY <1>6, <2>1, <2>2, <2>3, <2>4, <2>5 DEF Environment
<1> QED
  BY <1>1, <1>2, <1>3, <1>4, <1>5, <1>6 DEF Next

-----------------------------------------------------------------------------
(* Types                                                                   *)

\* Pruning keeps the grant table well typed, and what is pruned stays pruned.
LEMMA PruneTyped ==
  ASSUME NEW rows \in [Grants -> GrantRows], NEW kept, Prune(rows, kept)
  PROVE  /\ grants' \in [Grants -> GrantRows]
         /\ \A g \in Grants : rows[g].state = "pruned" => grants'[g].state = "pruned"
         /\ \A g \in Inactive(rows) \ kept : grants'[g].state = "pruned"
BY DEF Prune, GrantRows, Inactive

\* The calls that begin are well typed.
LEMMA BeginTyped ==
  ASSUME TypeOK, NEW c \in Calls,
         NEW k \in {Idle} \cup CreateCalls \cup SubmitCalls \cup AcceptCalls
                   \cup DecideCalls \cup ViewCalls,
         call' = [call EXCEPT ![c] = k]
  PROVE  call' \in [Calls -> {Idle} \cup CreateCalls \cup SubmitCalls \cup AcceptCalls
                              \cup DecideCalls \cup ViewCalls]
BY DEF TypeOK

\* What is told is well typed.
LEMMA TellTyped ==
  ASSUME TypeOK, NEW r \in Requests,
         NEW says \in {"receipt", "accepted", "rejected", "canceled", "expired"},
         NEW result \in Results \cup {None}, Tell(r, says, result)
  PROVE  told' \subseteq [r : Requests, says : {"receipt", "accepted", "rejected",
                                                "canceled", "expired"},
                          result : Results \cup {None}]
BY DEF TypeOK, Tell

\* A stored proposal's result, or None.
LEMMA ResultTyped ==
  ASSUME TypeOK, NEW r \in Requests
  PROVE  work[r].proposal.result \in Results \cup {None}
BY DEF TypeOK, Works, Submissions, NoSubmission

\* Calls that end keep the types.
LEMMA CommitTyped ==
  ASSUME IInv, RowStep, NEW c \in Calls, Commit(c)
  PROVE  TypeOK'
<1> USE DEF IInv, CallInv, RowStep
<1>1. Idle \in {Idle} \cup CreateCalls \cup SubmitCalls \cup AcceptCalls
              \cup DecideCalls \cup ViewCalls
  OBVIOUS
<1>2. End(c) => call' \in [Calls -> {Idle} \cup CreateCalls \cup SubmitCalls
                                     \cup AcceptCalls \cup DecideCalls \cup ViewCalls]
  BY <1>1, BeginTyped DEF End
<1>3. CASE CommitCreate(c) \/ Fail(c)
  BY <1>2, <1>3 DEF CommitCreate, Fail, UnchangedRest, TypeOK
<1>4. CASE ShowView(c)
  <2>1. call[c] \in ViewCalls
    BY <1>4, CallKinds DEF ShowView
  <2>2. view' = [view EXCEPT ![call[c].r] = [rev |-> call[c].rev, state |-> call[c].state,
                                    result |-> work[call[c].r].proposal.result]]
    BY <1>4 DEF ShowView
  <2>3. call[c].r \in Requests /\ call[c].rev \in 0..3 /\ call[c].state \in States
    BY <2>1 DEF ViewCalls
  <2>4. work[call[c].r].proposal.result \in Results \cup {None}
    BY <2>3, ResultTyped
  <2>5. view' \in [Requests -> Views]
    BY <2>2, <2>3, <2>4 DEF TypeOK, Views
  <2> QED
    BY <1>2, <1>4, <2>5 DEF ShowView, TypeOK
<1>5. CASE CommitDecide(c)
  <2>1. call[c] \in DecideCalls
    BY <1>5, CallKinds DEF CommitDecide
  <2>2. call[c].r \in Requests /\ call[c].op \in {"rejected", "canceled"}
        /\ Tell(call[c].r, call[c].op, None)
    BY <1>5, <2>1 DEF CommitDecide, DecideCalls
  <2>3. told' \subseteq [r : Requests, says : {"receipt", "accepted", "rejected",
                                               "canceled", "expired"},
                         result : Results \cup {None}]
    BY <2>2, TellTyped
  <2> QED
    BY <1>2, <1>5, <2>3 DEF CommitDecide, TypeOK
<1>6. CASE CommitSubmit(c)
  <2>1. call[c] \in SubmitCalls
    BY <1>6, CallKinds DEF CommitSubmit
  <2>2. call[c].r \in Requests /\ call[c].sub.result \in Results
        /\ Tell(call[c].r, "receipt", call[c].sub.result)
    BY <1>6, <2>1, ProposalFacts DEF CommitSubmit, SubmitCalls
  <2>3. told' \subseteq [r : Requests, says : {"receipt", "accepted", "rejected",
                                               "canceled", "expired"},
                         result : Results \cup {None}]
    BY <2>2, TellTyped
  <2> QED
    BY <1>2, <1>6, <2>3 DEF CommitSubmit, TypeOK
<1>7. CASE CommitAccept(c)
  <2>1. call[c].r \in Requests /\ effects' = [effects EXCEPT ![call[c].r] = Applied(c)]
        /\ inputs' \in Versions
    BY <1>7, AcceptFacts, AcceptEffects
  <2>2. work[call[c].r].proposal.result \in Results \cup {None}
    BY <2>1, ResultTyped
  <2>3. effects' \in [Requests -> [times : 0..2, result : Results \cup {None},
                                   reviewed : Results \cup {None}]]
    BY <2>1, <2>2 DEF TypeOK, Applied
  <2>4. Tell(call[c].r, "accepted", work[call[c].r].proposal.result)
    BY <1>7 DEF CommitAccept
  <2>5. told' \subseteq [r : Requests, says : {"receipt", "accepted", "rejected",
                                               "canceled", "expired"},
                         result : Results \cup {None}]
    BY <2>1, <2>2, <2>4, TellTyped
  <2> QED
    BY <1>2, <1>7, <2>1, <2>3, <2>5 DEF CommitAccept, TypeOK
<1> QED
  BY <1>3, <1>4, <1>5, <1>6, <1>7 DEF Commit

\* Calls that begin keep the types.
LEMMA BeginnersTyped ==
  ASSUME IInv, RowStep, NEW c \in Calls, Owner(c) \/ Agent(c)
  PROVE  TypeOK'
<1> USE DEF IInv, RowStep
<1>1. ASSUME NEW k \in {Idle} \cup CreateCalls \cup SubmitCalls \cup AcceptCalls
                       \cup DecideCalls \cup ViewCalls,
             call' = [call EXCEPT ![c] = k], UnchangedRest
      PROVE  TypeOK'
  BY <1>1, BeginTyped DEF TypeOK, UnchangedRest
<1>2. ASSUME NEW r \in Requests, NEW g \in Grants, NEW kind \in Kinds,
             BeginCreate(c, r, g, kind)
      PROVE  TypeOK'
  <2>1. [op |-> "create", r |-> r, g |-> g, kind |-> kind, seen |-> inputs] \in CreateCalls
    BY DEF CreateCalls, TypeOK
  <2> QED
    BY <1>1, <1>2, <2>1 DEF BeginCreate, Begin
<1>3. ASSUME NEW r \in Requests, BeginView(c, r)
      PROVE  TypeOK'
  <2>1. work'[r] \in Works /\ work' = Expire
    BY <1>3 DEF BeginView
  <2>2. [op |-> "view", r |-> r, rev |-> Expire[r].rev, state |-> Expire[r].state]
          \in ViewCalls
    BY <2>1 DEF ViewCalls, Works
  <2> QED
    BY <1>1, <1>3, <2>2 DEF BeginView, Begin
<1>4. ASSUME NEW r \in Requests, BeginAccept(c, r)
      PROVE  TypeOK'
  <2>1. [op |-> "accept", r |-> r, g |-> work[r].grant, rev |-> view[r].rev,
         reviewed |-> view[r].result] \in AcceptCalls
    BY DEF AcceptCalls, TypeOK, Works, Views
  <2> QED
    BY <1>1, <1>4, <2>1 DEF BeginAccept, Begin
<1>5. ASSUME NEW r \in Requests, NEW to \in {"rejected", "canceled"}, BeginDecide(c, r, to)
      PROVE  TypeOK'
  <2>1. [op |-> to, r |-> r, rev |-> view[r].rev] \in DecideCalls
    BY DEF DecideCalls, TypeOK, Views
  <2> QED
    BY <1>1, <1>5, <2>1 DEF BeginDecide, Begin
<1>6. ASSUME NEW r \in Requests, NEW g \in Grants, NEW sub \in Submissions,
             BeginSubmit(c, r, g, sub)
      PROVE  TypeOK'
  <2>1. [op |-> "submit", r |-> r, g |-> g, sub |-> sub, rev |-> work[r].rev]
          \in SubmitCalls
    BY DEF SubmitCalls, TypeOK, Works
  <2> QED
    BY <1>1, <1>6, <2>1 DEF BeginSubmit, Begin
<1> QED
  BY <1>2, <1>3, <1>4, <1>5, <1>6 DEF Owner, Agent

\* Answers, the list and the environment keep the types.
LEMMA RestTyped ==
  ASSUME IInv, RowStep, Answers \/ List \/ Environment
  PROVE  TypeOK'
<1> USE DEF IInv, RowStep
<1>1. CASE Answers
  <2>0. ASSUME NEW r \in Requests, DecideLate(r)
        PROVE  TypeOK'
    BY <2>0 DEF DecideLate, UnchangedRest, TypeOK
  <2>1. ASSUME NEW r \in Requests, AcceptLate(r)
        PROVE  TypeOK'
    <3>1. Tell(r, "expired", None)
      BY <2>1 DEF AcceptLate
    <3>2. told' \subseteq [r : Requests, says : {"receipt", "accepted", "rejected",
                                               "canceled", "expired"},
                         result : Results \cup {None}]
      BY <3>1, TellTyped
    <3> QED
      BY <2>1, <3>2 DEF AcceptLate, TypeOK
  <2>2. ASSUME NEW r \in Requests, NEW says \in {"receipt", "accepted", "rejected"},
               NEW result \in Results \cup {None}, Tell(r, says, result),
               UNCHANGED <<work, grants, inputs, effects, vault, call, view>>
        PROVE  TypeOK'
    BY <2>2, TellTyped DEF TypeOK
  <2>3. ASSUME NEW r \in Requests, ReplayAccept(r)
        PROVE  TypeOK'
    <3>1. Tell(r, "accepted", work[r].proposal.result)
      BY <2>3 DEF ReplayAccept
    <3> QED
      BY <2>2, <2>3, <3>1, ResultTyped DEF ReplayAccept
  <2>4. ASSUME NEW r \in Requests, NEW g \in Grants, ReadResult(r, g)
        PROVE  TypeOK'
    <3>1. CASE work[r].state = "rejected"
      BY <2>2, <2>4, <3>1 DEF ReadResult
    <3>2. CASE work[r].state = "accepted"
      BY <2>2, <2>4, <3>2, ResultTyped DEF ReadResult
    <3>3. CASE work[r].state \notin {"accepted", "rejected"}
      BY <2>2, <2>4, <3>3, ResultTyped DEF ReadResult
    <3> QED
      BY <3>1, <3>2, <3>3
  <2>5. ASSUME NEW r \in Requests, NEW g \in Grants, NEW sub \in Submissions,
               ReplaySubmit(r, g, sub)
        PROVE  TypeOK'
    BY <2>2, <2>5, ProposalFacts DEF ReplaySubmit
  <2> QED
    BY <1>1, <2>0, <2>1, <2>3, <2>4, <2>5 DEF Answers
<1>2. CASE List
  BY <1>2 DEF List, UnchangedRest, TypeOK
<1>3. CASE Environment
  <2>1. ASSUME NEW g \in Grants, NEW writes \in BOOLEAN, IssueGrant(g, writes)
        PROVE  TypeOK'
    <3>1. [state |-> "active", writes |-> writes] \in GrantRows
      BY DEF GrantRows
    <3>2. [grants EXCEPT ![g] = [state |-> "active", writes |-> writes]]
            \in [Grants -> GrantRows]
      BY <3>1 DEF TypeOK
    <3> QED
      BY <2>1, <3>2, PruneTyped DEF IssueGrant, Pruned, TypeOK
  <2>2. ASSUME NEW g \in Grants, RevokeGrant(g)
        PROVE  TypeOK'
    <3>1. [grants EXCEPT ![g].state = "revoked"] \in [Grants -> GrantRows]
      BY DEF TypeOK, GrantRows
    <3> QED
      BY <2>2, <3>1, PruneTyped DEF RevokeGrant, Pruned, TypeOK
  <2>3. ASSUME NEW g \in Grants, GrantExpires(g)
        PROVE  TypeOK'
    <3>1. [grants EXCEPT ![g].state = "expired"] \in [Grants -> GrantRows]
      BY DEF TypeOK, GrantRows
    <3> QED
      BY <2>3, <3>1 DEF GrantExpires, TypeOK
  <2>4. ASSUME NEW r \in Requests, WorkDue(r)
        PROVE  TypeOK'
    BY <2>4 DEF WorkDue, UnchangedRest, TypeOK
  <2>5. CASE Edit
    BY <2>5, AgentAssumption DEF Edit, TypeOK, Versions
  <2>6. CASE Maintenance
    BY <2>6 DEF Maintenance, TypeOK
  <2> QED
    BY <1>3, <2>1, <2>2, <2>3, <2>4, <2>5, <2>6 DEF Environment
<1> QED
  BY <1>1, <1>2, <1>3

\* Types are preserved.
LEMMA NextTyped ==
  ASSUME IInv, Next
  PROVE  TypeOK'
BY NextRows, CommitTyped, BeginnersTyped, RestTyped DEF Next

-----------------------------------------------------------------------------
(* What readers know                                                       *)

\* A stored proposal never changes, and a decision is never undone.
LEMMA DecisionsStay ==
  ASSUME IInv, RowStep, NEW r \in Requests
  PROVE  /\ work[r].proposal \in Submissions =>
              work'[r].proposal \in Submissions /\ work'[r].proposal = work[r].proposal
         /\ work[r].state \in Terminal => work'[r].state = work[r].state
<1>1. GoodRow(work[r], effects[r]) /\ Grows(work[r], work'[r]) /\ work[r] \in Works
  BY DEF IInv, RowInv, RowStep, TypeOK
<1>2. work[r].state = "none" => work[r].proposal \notin Submissions
  BY <1>1 DEF GoodRow, NoWork
<1>3. work[r].state = "queued" => work[r].proposal \notin Submissions
  BY <1>1 DEF GoodRow
<1> QED
  BY <1>1, <1>2, <1>3 DEF Grows, Pending, Terminal

\* What was seen of a row stays true of it.
LEMMA SightStays ==
  ASSUME IInv, RowStep, NEW r \in Requests, NEW rev \in 0..3, NEW state \in States,
         Saw(rev, state, work[r])
  PROVE  Saw(rev, state, work'[r])
<1>1. /\ work[r] \in Works /\ work'[r] \in Works
      /\ GoodRow(work[r], effects[r]) /\ GoodRow(work'[r], effects'[r])
      /\ Grows(work[r], work'[r])
  BY DEF IInv, RowInv, RowStep, TypeOK
<1> QED
  BY <1>1, SawStays

\* The pages already shown.
LEMMA PagesStay ==
  ASSUME IInv, RowStep, NEW r \in Requests, view[r] # NoView
  PROVE  /\ Saw(view[r].rev, view[r].state, work'[r])
         /\ view[r].state \in Decided => view[r].result = work'[r].proposal.result
<1>1. /\ Saw(view[r].rev, view[r].state, work[r])
      /\ view[r].state \in Decided => view[r].result = work[r].proposal.result
      /\ view[r].rev \in 0..3 /\ view[r].state \in States
  BY DEF IInv, ViewInv, TypeOK, Views
<1>2. Saw(view[r].rev, view[r].state, work'[r])
  BY <1>1, SightStays
<1>3. view[r].state \in Decided => work[r].proposal \in Submissions
  BY <1>1 DEF Saw
<1> QED
  BY <1>1, <1>2, <1>3, DecisionsStay

\* Only ShowView writes a page.
LEMMA PagesKept ==
  ASSUME Next
  PROVE  view' = view \/ \E c \in Calls : ShowView(c)
<1>1. ASSUME NEW c \in Calls, Commit(c)
      PROVE  view' = view \/ ShowView(c)
  BY <1>1 DEF Commit, CommitCreate, CommitDecide, CommitSubmit, CommitAccept, Fail,
      UnchangedRest
<1>2. ASSUME NEW c \in Calls, Owner(c) \/ Agent(c)
      PROVE  view' = view
  BY <1>2 DEF Owner, Agent, BeginCreate, BeginView, BeginAccept, BeginDecide, BeginSubmit,
      UnchangedRest
<1>3. ASSUME Answers \/ List
      PROVE  view' = view
  BY <1>3 DEF Answers, List, DecideLate, AcceptLate, ReplayAccept, ReadResult,
      ReplaySubmit, UnchangedRest
<1>4. ASSUME Environment
      PROVE  view' = view
  BY <1>4 DEF Environment, IssueGrant, RevokeGrant, GrantExpires, WorkDue, Edit,
      Maintenance, UnchangedRest
<1> QED
  BY <1>1, <1>2, <1>3, <1>4 DEF Next

\* Every page shows a revision and what belonged to it.
LEMMA NextViews ==
  ASSUME IInv, Next, RowStep
  PROVE  ViewInv'
<1>1. CASE view' = view
  BY <1>1, PagesStay DEF ViewInv
<1>2. ASSUME NEW c \in Calls, ShowView(c)
      PROVE  ViewInv'
  <2> DEFINE k == call[c]
             v == [rev |-> k.rev, state |-> k.state, result |-> work[k.r].proposal.result]
  <2>1. k \in ViewCalls /\ k.r \in Requests /\ k.rev \in 0..3 /\ k.state \in States
    BY <1>2, CallKinds DEF ShowView, ViewCalls, IInv
  <2>2. Saw(k.rev, k.state, work[k.r])
    BY <1>2 DEF ShowView, IInv, CallInv, ViewOK
  <2>3. view' = [view EXCEPT ![k.r] = v] /\ work' = work
    BY <1>2 DEF ShowView
  <2>4. ASSUME NEW r \in Requests, view'[r] # NoView
        PROVE  /\ Saw(view'[r].rev, view'[r].state, work'[r])
               /\ view'[r].state \in Decided => view'[r].result = work'[r].proposal.result
    <3>1. CASE r = k.r
      BY <2>1, <2>2, <2>3, <3>1 DEF IInv, TypeOK
    <3>2. CASE r # k.r
      <4>1. view'[r] = view[r]
        BY <2>1, <2>3, <3>2 DEF IInv, TypeOK
      <4> QED
        BY <2>4, <4>1, PagesStay
    <3> QED
      BY <3>1, <3>2
  <2> QED
    BY <2>4 DEF ViewInv
<1> QED
  BY <1>1, <1>2, PagesKept

\* Grants that are gone stay gone, and work loses its grant only with it.
GrantStep ==
  /\ \A g \in Grants : grants[g].state = "pruned" => grants'[g].state = "pruned"
  /\ \A r \in Requests, g \in Grants :
       work[r].state # "none" /\ work[r].grant = g =>
         work'[r].grant = g \/ grants'[g].state = "pruned"

\* Every step moves the grants and their bindings that way.
LEMMA NextGrants ==
  ASSUME IInv, Next
  PROVE  GrantStep
<1> USE DEF IInv
<1>1. ASSUME grants' = grants, \A r \in Requests :
               work[r].state # "none" => work'[r].grant = work[r].grant
      PROVE  GrantStep
  BY <1>1 DEF GrantStep
<1>2. ASSUME UNCHANGED <<grants, work>>
      PROVE  GrantStep
  BY <1>2 DEF GrantStep
<1>3. ASSUME work' = Expire, grants' = grants
      PROVE  GrantStep
  <2>1. ASSUME NEW r \in Requests
        PROVE  work'[r].grant = work[r].grant
    <3>1. work[r] \in Works
      BY DEF TypeOK
    <3>2. work'[r] = IF work[r].due /\ work[r].state \in Pending
                     THEN [work[r] EXCEPT !.state = "expired", !.rev = @ + 1] ELSE work[r]
      BY <1>3 DEF Expire
    <3> QED
      BY <3>1, <3>2 DEF Works
  <2> QED
    BY <1>1, <1>3, <2>1
<1>4. ASSUME NEW rows \in [Grants -> GrantRows], NEW kept, Pruned(rows, kept),
             \A g \in Grants : grants[g].state = "pruned" => rows[g].state = "pruned"
      PROVE  GrantStep
  <2>1. ASSUME NEW r \in Requests, NEW g \in Grants, work[r].grant = g
        PROVE  work'[r].grant = g \/ grants'[g].state = "pruned"
    <3>1. work[r].grant \notin Inactive(rows) \ kept => work'[r] = work[r]
      BY <1>4 DEF Pruned, Unbind
    <3>2. g \in Inactive(rows) \ kept => grants'[g].state = "pruned"
      BY <1>4, PruneTyped DEF Pruned
    <3> QED
      BY <2>1, <3>1, <3>2
  <2> QED
    BY <1>4, <2>1, PruneTyped DEF GrantStep, Pruned
<1>5. ASSUME NEW c \in Calls, Commit(c)
      PROVE  GrantStep
  <2>1. CASE CommitCreate(c)
    <3>1. call[c].r \in Requests /\ work[call[c].r].state = "none"
      BY <2>1, CallKinds DEF CommitCreate, CreateCalls, CallInv, CreateOK
    <3>2. work' = [work EXCEPT ![call[c].r] = NewWork(call[c])] /\ grants' = grants
      BY <2>1 DEF CommitCreate, UnchangedRest
    <3> QED
      BY <1>1, <3>1, <3>2 DEF TypeOK
  <2>2. CASE ShowView(c) \/ Fail(c)
    BY <1>2, <2>2 DEF ShowView, Fail, UnchangedRest
  <2>3. CASE CommitDecide(c)
    <3>1. call[c].r \in Requests
      BY <2>3, CallKinds DEF CommitDecide, DecideCalls
    <3>2. \A r \in Requests : work'[r].grant = work[r].grant
      BY <2>3, <3>1 DEF CommitDecide, TypeOK, Works
    <3> QED
      BY <1>1, <2>3, <3>2 DEF CommitDecide
  <2>4. CASE CommitSubmit(c)
    <3>1. call[c].r \in Requests
      BY <2>4, CallKinds DEF CommitSubmit, SubmitCalls
    <3>2. \A r \in Requests : work'[r].grant = work[r].grant
      BY <2>4, <3>1 DEF CommitSubmit, TypeOK, Works
    <3> QED
      BY <1>1, <2>4, <3>2 DEF CommitSubmit
  <2>5. CASE CommitAccept(c)
    <3>1. call[c].r \in Requests
      BY <2>5, CallKinds DEF CommitAccept, AcceptCalls
    <3>2. \E receipt \in Versions :
            work' = [work EXCEPT ![call[c].r].state = "accepted",
                                 ![call[c].r].rev = call[c].rev + 1,
                                 ![call[c].r].receipt = receipt]
      BY <2>5 DEF CommitAccept
    <3>3. \A r \in Requests : work'[r].grant = work[r].grant
      BY <3>1, <3>2 DEF TypeOK, Works
    <3> QED
      BY <1>1, <2>5, <3>3 DEF CommitAccept
  <2> QED
    BY <1>5, <2>1, <2>2, <2>3, <2>4, <2>5 DEF Commit
<1>6. ASSUME NEW c \in Calls, Owner(c) \/ Agent(c)
      PROVE  GrantStep
  <2>1. UNCHANGED <<grants, work>> \/ (work' = Expire /\ grants' = grants)
    BY <1>6 DEF Owner, Agent, BeginCreate, BeginView, BeginAccept, BeginDecide,
                BeginSubmit, UnchangedRest
  <2> QED
    BY <1>2, <1>3, <2>1
<1>7. CASE Answers \/ List
  <2>1. UNCHANGED <<grants, work>> \/ (work' = Expire /\ grants' = grants)
    BY <1>7 DEF Answers, List, DecideLate, AcceptLate, ReplayAccept, ReadResult,
                ReplaySubmit, UnchangedRest
  <2> QED
    BY <1>2, <1>3, <2>1
<1>8. CASE Environment
  <2>1. ASSUME NEW g \in Grants, NEW writes \in BOOLEAN, IssueGrant(g, writes)
        PROVE  GrantStep
    <3> DEFINE rows == [grants EXCEPT ![g] = [state |-> "active", writes |-> writes]]
    <3>1. [state |-> "active", writes |-> writes] \in GrantRows
      BY DEF GrantRows
    <3>2. rows \in [Grants -> GrantRows]
      BY <3>1 DEF TypeOK
    <3>3. \A h \in Grants : grants[h].state = "pruned" => rows[h].state = "pruned"
      BY <2>1 DEF IssueGrant, TypeOK
    <3> QED
      BY <1>4, <2>1, <3>2, <3>3 DEF IssueGrant
  <2>2. ASSUME NEW g \in Grants, RevokeGrant(g)
        PROVE  GrantStep
    <3> DEFINE rows == [grants EXCEPT ![g].state = "revoked"]
    <3>1. rows \in [Grants -> GrantRows]
      BY DEF TypeOK, GrantRows
    <3>2. \A h \in Grants : grants[h].state = "pruned" => rows[h].state = "pruned"
      BY <2>2 DEF RevokeGrant, TypeOK
    <3> QED
      BY <1>4, <2>2, <3>1, <3>2 DEF RevokeGrant
  <2>3. ASSUME NEW g \in Grants, GrantExpires(g)
        PROVE  GrantStep
    <3>1. \A h \in Grants : grants[h].state = "pruned" => grants'[h].state = "pruned"
      BY <2>3 DEF GrantExpires, TypeOK
    <3>2. \A r \in Requests : work'[r].grant = work[r].grant
      BY <2>3 DEF GrantExpires, TypeOK, Works
    <3> QED
      BY <3>1, <3>2 DEF GrantStep
  <2>4. ASSUME NEW r \in Requests, WorkDue(r)
        PROVE  GrantStep
    <3>1. \A q \in Requests : work'[q].grant = work[q].grant
      BY <2>4 DEF WorkDue, TypeOK, Works
    <3> QED
      BY <1>1, <2>4, <3>1 DEF WorkDue, UnchangedRest
  <2>5. CASE Edit \/ Maintenance
    BY <1>2, <2>5 DEF Edit, Maintenance
  <2> QED
    BY <1>8, <2>1, <2>2, <2>3, <2>4, <2>5 DEF Environment
<1> QED
  BY <1>5, <1>6, <1>7, <1>8 DEF Next

-----------------------------------------------------------------------------
(* Calls in flight                                                         *)

\* What a call knows survives the steps of the others.
LEMMA CallStays ==
  ASSUME IInv, RowStep, GrantStep, NEW c \in Calls, call'[c] = call[c]
  PROVE  /\ ViewOK(c)'
         /\ AcceptOK(c)'
<1> DEFINE k == call[c]
<1>1. ViewOK(c)'
  <2>1. SUFFICES ASSUME k.op = "view"
                 PROVE  Saw(k.rev, k.state, work'[k.r])
    BY DEF ViewOK
  <2>2. k.r \in Requests /\ k.rev \in 0..3 /\ k.state \in States
    BY <2>1, CallKinds DEF ViewCalls, IInv
  <2>3. Saw(k.rev, k.state, work[k.r])
    BY <2>1 DEF IInv, CallInv, ViewOK
  <2> QED
    BY <2>2, <2>3, SightStays
<1>2. AcceptOK(c)'
  <2>1. SUFFICES ASSUME k.op = "accept"
                 PROVE  /\ 1 <= k.rev /\ k.rev <= work'[k.r].rev
                        /\ k.g \in Grants
                        /\ k.g = work'[k.r].grant \/ grants'[k.g].state = "pruned"
                        /\ k.rev = 2 /\ work'[k.r].proposal \in Submissions =>
                             k.reviewed = work'[k.r].proposal.result
    BY DEF AcceptOK
  <2>2. /\ 1 <= k.rev /\ k.rev <= work[k.r].rev
        /\ k.g \in Grants
        /\ k.g = work[k.r].grant \/ grants[k.g].state = "pruned"
        /\ k.rev = 2 /\ work[k.r].proposal \in Submissions =>
             k.reviewed = work[k.r].proposal.result
    BY <2>1 DEF IInv, CallInv, AcceptOK
  <2>3. k.r \in Requests /\ k.rev \in 0..3
    BY <2>1, CallKinds DEF AcceptCalls, IInv
  <2>4. /\ work[k.r] \in Works /\ GoodRow(work[k.r], effects[k.r])
        /\ work'[k.r] \in Works /\ Grows(work[k.r], work'[k.r])
    BY <2>3 DEF IInv, RowInv, TypeOK, RowStep
  <2>5. work[k.r].state # "none"
    BY <2>2, <2>3, <2>4 DEF GoodRow, NoWork
  <2>6. k.rev <= work'[k.r].rev
    BY <2>2, <2>3, <2>4, <2>5 DEF Grows, Works
  <2>7. k.g = work'[k.r].grant \/ grants'[k.g].state = "pruned"
    BY <2>2, <2>3, <2>5 DEF GrantStep
  <2>8. ASSUME k.rev = 2, work'[k.r].proposal \in Submissions
        PROVE  k.reviewed = work'[k.r].proposal.result
    <3>1. work[k.r].proposal \in Submissions
      <4>1. CASE work'[k.r].proposal = work[k.r].proposal
        BY <2>8, <4>1
      <4>2. CASE work[k.r].state = "queued"
        BY <2>2, <2>4, <2>8, <4>2 DEF GoodRow
      <4> QED
        BY <2>4, <2>5, <4>1, <4>2 DEF Grows, Pending
    <3> QED
      BY <2>2, <2>3, <2>8, <3>1, DecisionsStay
  <2> QED
    BY <2>2, <2>6, <2>7, <2>8
<1> QED
  BY <1>1, <1>2

\* Each step begins one call, ends one, or leaves them all.
LEMMA OneCall ==
  ASSUME IInv, Next
  PROVE  \/ call' = call
         \/ \E c \in Calls : Commit(c) /\ call' = [call EXCEPT ![c] = Idle]
         \/ \E c \in Calls : Owner(c) \/ Agent(c)
<1>1. ASSUME NEW c \in Calls, Commit(c)
      PROVE  call' = [call EXCEPT ![c] = Idle]
  BY <1>1 DEF Commit, CommitCreate, ShowView, CommitDecide, CommitSubmit, CommitAccept,
      Fail, End
<1>2. ASSUME Answers \/ List
      PROVE  call' = call
  BY <1>2 DEF Answers, List, DecideLate, AcceptLate, ReplayAccept, ReadResult,
      ReplaySubmit, UnchangedRest
<1>3. ASSUME Environment
      PROVE  call' = call
  BY <1>3 DEF Environment, IssueGrant, RevokeGrant, GrantExpires, WorkDue, Edit,
      Maintenance, UnchangedRest
<1> QED
  BY <1>1, <1>2, <1>3 DEF Next

\* A request comes into being only by the call that creates it.
LEMMA OnlyCreate ==
  ASSUME IInv, Next, NEW r \in Requests, work[r].state = "none", work'[r].state # "none"
  PROVE  \E c \in Calls : CommitCreate(c) /\ call[c].r = r
<1> USE DEF IInv
<1>1. work[r] \in Works /\ work[r] = NoWork
  BY DEF TypeOK, RowInv, GoodRow
<1>2. work' # work /\ (work' = Expire => work'[r] = work[r])
  BY <1>1 DEF Expire, Pending
<1>3. ASSUME NEW rows, NEW kept, Pruned(rows, kept)
      PROVE  FALSE
  BY <1>1, <1>3 DEF Pruned, Unbind, Works
<1>4. ASSUME NEW g \in Grants, GrantExpires(g)
      PROVE  FALSE
  BY <1>1, <1>4 DEF GrantExpires, Works
<1>5. ASSUME NEW q \in Requests, WorkDue(q)
      PROVE  FALSE
  BY <1>1, <1>5 DEF WorkDue, TypeOK, Works
<1>6. ASSUME NEW c \in Calls, CommitDecide(c)
      PROVE  FALSE
  <2>1. call[c].r \in Requests
    BY <1>6, CallKinds DEF CommitDecide, DecideCalls
  <2>2. work[call[c].r].state # "none"
    BY <1>6, <2>1 DEF CommitDecide, MayDecide, Pending
  <2> QED
    BY <1>1, <1>6, <2>1, <2>2 DEF CommitDecide, TypeOK
<1>7. ASSUME NEW c \in Calls, CommitSubmit(c)
      PROVE  FALSE
  <2>1. call[c].r \in Requests
    BY <1>7, CallKinds DEF CommitSubmit, SubmitCalls
  <2>2. work[call[c].r].state # "none"
    BY <1>7, <2>1 DEF CommitSubmit, MaySubmit
  <2> QED
    BY <1>1, <1>7, <2>1, <2>2 DEF CommitSubmit, TypeOK
<1>8. ASSUME NEW c \in Calls, CommitAccept(c)
      PROVE  FALSE
  <2>1. call[c].r \in Requests /\ work[call[c].r].state # "none"
    BY <1>8, AcceptFacts DEF CallInv
  <2> QED
    BY <1>1, <1>8, <2>1 DEF CommitAccept, TypeOK
<1>9. ASSUME NEW c \in Calls, CommitCreate(c)
      PROVE  call[c].r = r
  <2>1. work' = [work EXCEPT ![call[c].r] = NewWork(call[c])]
    BY <1>9 DEF CommitCreate
  <2> QED
    BY <2>1 DEF TypeOK
<1>10. ASSUME NEW c \in Calls, Commit(c)
       PROVE  CommitCreate(c) /\ call[c].r = r
  BY <1>2, <1>6, <1>7, <1>8, <1>9, <1>10 DEF Commit, ShowView, Fail, UnchangedRest
<1>11. ASSUME NEW c \in Calls, Owner(c) \/ Agent(c)
       PROVE  FALSE
  <2>1. CASE Agent(c)
    BY <1>2, <2>1 DEF Agent, BeginSubmit, UnchangedRest
  <2>2. CASE Owner(c)
    BY <1>2, <1>3, <2>2 DEF Owner, BeginCreate, BeginView, BeginAccept, BeginDecide,
        UnchangedRest
  <2> QED
    BY <1>11, <2>1, <2>2
<1>12. ASSUME Answers \/ List
       PROVE  FALSE
  BY <1>2, <1>3, <1>12 DEF Answers, List, DecideLate, AcceptLate, ReplayAccept,
      ReadResult, ReplaySubmit, UnchangedRest
<1>13. ASSUME Environment
       PROVE  FALSE
  BY <1>2, <1>3, <1>4, <1>5, <1>13 DEF Environment, IssueGrant, RevokeGrant, Edit,
      Maintenance, UnchangedRest
<1> QED
  BY <1>10, <1>11, <1>12, <1>13 DEF Next

\* A request being created stays free until its own call commits.
LEMMA CreateStays ==
  ASSUME IInv, Next, NEW c \in Calls, call[c].op = "create", call'[c] = call[c],
         \A d \in Calls : call'[d].op = "create" /\ call'[d].r = call[c].r => d = c
  PROVE  CreateOK(c)'
<1>1. call[c].r \in Requests /\ work[call[c].r].state = "none"
  BY CallKinds DEF CreateCalls, IInv, CallInv, CreateOK
<1>2. work'[call[c].r].state = "none"
  <2>1. SUFFICES ASSUME work'[call[c].r].state # "none"
                 PROVE  FALSE
    OBVIOUS
  <2>2. PICK d \in Calls : CommitCreate(d) /\ call[d].r = call[c].r
    BY <1>1, <2>1, OnlyCreate
  <2>3. d = c
    BY <2>2 DEF CommitCreate, IInv, CallInv, CreateOK
  <2>4. call'[c] = Idle
    BY <2>2, <2>3 DEF CommitCreate, End, IInv, TypeOK
  <2> QED
    BY <2>4 DEF Idle
<1> QED
  BY <1>2 DEF CreateOK

\* A view begins with the row as it then is.
LEMMA BeginViewOK ==
  ASSUME IInv, RowStep, NEW r \in Requests, NEW c \in Calls, BeginView(c, r)
  PROVE  ViewOK(c)'
<1>1. work' = Expire /\ work'[r] \in Works /\ GoodRow(work'[r], effects'[r])
      /\ Grows(work[r], work'[r]) /\ work[r].state # "none" /\ work[r] \in Works
      /\ GoodRow(work[r], effects[r])
  BY DEF BeginView, RowStep, RowInv, IInv, TypeOK
<1>2. call'[c] = [op |-> "view", r |-> r, rev |-> work'[r].rev, state |-> work'[r].state]
  BY <1>1 DEF BeginView, Begin, IInv, TypeOK
<1>3. 1 <= work'[r].rev
  BY <1>1 DEF Grows, GoodRow, Works, Pending, States
<1>4. /\ work'[r].rev = 2 /\ work'[r].proposal \in Submissions => work'[r].state = "returned"
      /\ work'[r].state \in Decided => work'[r].proposal \in Submissions
  BY <1>1 DEF GoodRow, Decided
<1>5. Saw(work'[r].rev, work'[r].state, work'[r])
  BY <1>1, <1>3, <1>4 DEF Saw, Works
<1> QED
  BY <1>2, <1>5 DEF ViewOK

\* An acceptance begins with a page and a live grant.
LEMMA BeginAcceptOK ==
  ASSUME IInv, NEW r \in Requests, NEW c \in Calls, BeginAccept(c, r)
  PROVE  AcceptOK(c)'
<1>1. call'[c] = [op |-> "accept", r |-> r, g |-> work[r].grant, rev |-> view[r].rev,
                  reviewed |-> view[r].result] /\ work' = work
  BY DEF BeginAccept, Begin, IInv, TypeOK
<1>2. /\ Saw(view[r].rev, view[r].state, work[r])
      /\ view[r].state \in Decided => view[r].result = work[r].proposal.result
  BY DEF BeginAccept, IInv, ViewInv
<1>3. work[r].grant \in Grants
  BY DEF BeginAccept, MayWrite, Live
<1>4. view[r].rev = 2 /\ work[r].proposal \in Submissions =>
        view[r].result = work[r].proposal.result
  BY <1>2 DEF Saw, Decided
<1> QED
  BY <1>1, <1>2, <1>3, <1>4 DEF AcceptOK, Saw

\* What the calls in flight know stays true.
LEMMA NextCalls ==
  ASSUME IInv, Next, RowStep, GrantStep
  PROVE  CallInv'
<1> USE DEF IInv
<1>1. CASE call' = call
  <2>1. ASSUME NEW c \in Calls
        PROVE  CreateOK(c)'
    <3>1. CASE call[c].op = "create"
      BY <1>1, <3>1, CreateStays DEF CallInv, CreateOK
    <3>2. CASE call[c].op # "create"
      BY <1>1, <3>2 DEF CreateOK
    <3> QED
      BY <3>1, <3>2
  <2> QED
    BY <1>1, <2>1, CallStays DEF CallInv
<1>2. ASSUME NEW c \in Calls, call' = [call EXCEPT ![c] = Idle]
      PROVE  CallInv'
  <2>1. ASSUME NEW d \in Calls
        PROVE  CreateOK(d)' /\ ViewOK(d)' /\ AcceptOK(d)'
    <3>1. CASE d = c
      <4>1. call'[d].op = "idle"
        BY <1>2, <3>1 DEF TypeOK, Idle
      <4> QED
        BY <4>1 DEF CreateOK, ViewOK, AcceptOK
    <3>2. CASE d # c
      <4>1. call'[d] = call[d]
        BY <1>2, <3>2 DEF TypeOK
      <4>2. \A e \in Calls : call'[e].op = "create" => call'[e] = call[e]
        BY <1>2 DEF TypeOK, Idle
      <4>3. CASE call[d].op = "create"
        <5>1. \A e \in Calls : call'[e].op = "create" /\ call'[e].r = call[d].r => e = d
          BY <4>2, <4>3 DEF CallInv, CreateOK
        <5> QED
          BY <4>1, <4>3, <5>1, CreateStays, CallStays
      <4>4. CASE call[d].op # "create"
        BY <4>1, <4>4, CallStays DEF CreateOK
      <4> QED
        BY <4>3, <4>4
    <3> QED
      BY <3>1, <3>2
  <2> QED
    BY <2>1 DEF CallInv
<1>3. ASSUME NEW c \in Calls, NEW k, Begin(c, k), CreateOK(c)', ViewOK(c)', AcceptOK(c)',
             k.op = "create" =>
               \A d \in Calls : ~(call[d].op = "create" /\ call[d].r = k.r)
      PROVE  CallInv'
  <2>1. call' = [call EXCEPT ![c] = k]
    BY <1>3 DEF Begin
  <2>2. ASSUME NEW d \in Calls, d # c
        PROVE  CreateOK(d)' /\ ViewOK(d)' /\ AcceptOK(d)'
    <3>1. call'[d] = call[d]
      BY <2>1, <2>2 DEF TypeOK
    <3>2. CASE call[d].op = "create"
      <4>1. \A e \in Calls : call'[e].op = "create" /\ call'[e].r = call[d].r => e = d
        BY <1>3, <2>1, <2>2, <3>2 DEF CallInv, CreateOK, TypeOK
      <4> QED
        BY <3>1, <3>2, <4>1, CreateStays, CallStays
    <3>3. CASE call[d].op # "create"
      BY <3>1, <3>3, CallStays DEF CreateOK
    <3> QED
      BY <3>2, <3>3
  <2> QED
    BY <1>3, <2>2 DEF CallInv
<1>4. ASSUME NEW c \in Calls, Owner(c) \/ Agent(c)
      PROVE  CallInv'
  <2>1. ASSUME NEW r \in Requests, NEW g \in Grants, NEW kind \in Kinds,
               BeginCreate(c, r, g, kind)
        PROVE  CallInv'
    <3> DEFINE k == [op |-> "create", r |-> r, g |-> g, kind |-> kind, seen |-> inputs]
    <3>1. Begin(c, k) /\ work[r].state = "none" /\ work' = work
          /\ \A d \in Calls : ~(call[d].op = "create" /\ call[d].r = r)
      BY <2>1 DEF BeginCreate
    <3>2. call' = [call EXCEPT ![c] = k] /\ call'[c] = k
      BY <3>1 DEF Begin, TypeOK
    <3>3. CreateOK(c)'
      BY <3>1, <3>2 DEF CreateOK, TypeOK
    <3>4. ViewOK(c)' /\ AcceptOK(c)'
      BY <3>2 DEF ViewOK, AcceptOK
    <3> QED
      BY <1>3, <3>1, <3>3, <3>4
  <2>2. ASSUME NEW r \in Requests, BeginView(c, r)
        PROVE  CallInv'
    <3> DEFINE k == [op |-> "view", r |-> r, rev |-> Expire[r].rev, state |-> Expire[r].state]
    <3>1. Begin(c, k) /\ ViewOK(c)'
      BY <2>2, BeginViewOK DEF BeginView
    <3>2. call'[c] = k
      BY <3>1 DEF Begin, TypeOK
    <3>3. CreateOK(c)' /\ AcceptOK(c)'
      BY <3>2 DEF CreateOK, AcceptOK
    <3> QED
      BY <1>3, <3>1, <3>3
  <2>3. ASSUME NEW r \in Requests, BeginAccept(c, r)
        PROVE  CallInv'
    <3> DEFINE k == [op |-> "accept", r |-> r, g |-> work[r].grant, rev |-> view[r].rev,
                     reviewed |-> view[r].result]
    <3>1. Begin(c, k) /\ AcceptOK(c)'
      BY <2>3, BeginAcceptOK DEF BeginAccept
    <3>2. call'[c] = k
      BY <3>1 DEF Begin, TypeOK
    <3>3. CreateOK(c)' /\ ViewOK(c)'
      BY <3>2 DEF CreateOK, ViewOK
    <3> QED
      BY <1>3, <3>1, <3>3
  <2>4. ASSUME NEW r \in Requests, NEW to \in {"rejected", "canceled"}, BeginDecide(c, r, to)
        PROVE  CallInv'
    <3> DEFINE k == [op |-> to, r |-> r, rev |-> view[r].rev]
    <3>1. Begin(c, k)
      BY <2>4 DEF BeginDecide
    <3>2. call'[c] = k /\ k.op \notin {"create", "view", "accept"}
      BY <3>1 DEF Begin, TypeOK
    <3>3. CreateOK(c)' /\ ViewOK(c)' /\ AcceptOK(c)'
      BY <3>2 DEF CreateOK, ViewOK, AcceptOK
    <3> QED
      BY <1>3, <3>1, <3>2, <3>3
  <2>5. ASSUME NEW r \in Requests, NEW g \in Grants, NEW sub \in Submissions,
               BeginSubmit(c, r, g, sub)
        PROVE  CallInv'
    <3> DEFINE k == [op |-> "submit", r |-> r, g |-> g, sub |-> sub, rev |-> work[r].rev]
    <3>1. Begin(c, k)
      BY <2>5 DEF BeginSubmit
    <3>2. call'[c] = k
      BY <3>1 DEF Begin, TypeOK
    <3>3. CreateOK(c)' /\ ViewOK(c)' /\ AcceptOK(c)'
      BY <3>2 DEF CreateOK, ViewOK, AcceptOK
    <3> QED
      BY <1>3, <3>1, <3>3
  <2> QED
    BY <1>4, <2>1, <2>2, <2>3, <2>4, <2>5 DEF Owner, Agent
<1> QED
  BY <1>1, <1>2, <1>4, OneCall

-----------------------------------------------------------------------------
(* What clients have been told                                             *)

\* What a statement to a client says of the row of its request.
TrueOf(w, says, result) ==
  /\ says = "receipt" => w.proposal \in Submissions /\ result = w.proposal.result
  /\ says = "accepted" => w.state = "accepted" /\ result = w.proposal.result
  /\ says \in {"rejected", "canceled"} => w.state = says

\* What was true of a request when it was said stays true.
LEMMA TellsStay ==
  ASSUME IInv, RowStep, NEW t \in told
  PROVE  TrueOf(work'[t.r], t.says, t.result)
<1>1. t.r \in Requests
  BY DEF IInv, TypeOK
<1>2. TrueOf(work[t.r], t.says, t.result)
  BY DEF IInv, ToldInv, TrueOf
<1>3. /\ work[t.r].proposal \in Submissions =>
           work'[t.r].proposal \in Submissions /\ work'[t.r].proposal = work[t.r].proposal
      /\ work[t.r].state \in Terminal => work'[t.r].state = work[t.r].state
  BY <1>1, DecisionsStay
<1>4. work[t.r].state = "accepted" => work[t.r].proposal \in Submissions
  BY <1>1 DEF IInv, RowInv, GoodRow
<1> QED
  BY <1>2, <1>3, <1>4 DEF TrueOf, Terminal

\* One more true statement.
LEMMA TellStep ==
  ASSUME IInv, RowStep, NEW r \in Requests, NEW says, NEW result, Tell(r, says, result),
         TrueOf(work'[r], says, result)
  PROVE  ToldInv'
<1> DEFINE s == [r |-> r, says |-> says, result |-> result]
<1>1. told' = told \cup {s}
  BY DEF Tell
<1>2. TrueOf(work'[s.r], s.says, s.result)
  OBVIOUS
<1>3. ASSUME NEW t \in told'
      PROVE  TrueOf(work'[t.r], t.says, t.result)
  <2>1. CASE t \in told
    BY <2>1, TellsStay
  <2>2. CASE t = s
    BY <1>2, <2>2
  <2> QED
    BY <1>1, <1>3, <2>1, <2>2
<1> QED
  BY <1>3 DEF ToldInv, TrueOf

\* Commits answer with what they have done.
LEMMA CommitTold ==
  ASSUME IInv, RowStep, NEW c \in Calls, Commit(c)
  PROVE  ToldInv'
<1> DEFINE k == call[c]
<1>1. ASSUME UNCHANGED told
      PROVE  ToldInv'
  BY <1>1, TellsStay DEF ToldInv, TrueOf
<1>2. CASE CommitCreate(c) \/ ShowView(c) \/ Fail(c)
  BY <1>1, <1>2 DEF CommitCreate, ShowView, Fail, UnchangedRest
<1>3. CASE CommitDecide(c)
  <2>1. k.r \in Requests /\ k.op \in {"rejected", "canceled"} /\ Tell(k.r, k.op, None)
    BY <1>3, CallKinds DEF CommitDecide, DecideCalls, IInv
  <2>2. work'[k.r].state = k.op
    BY <1>3, <2>1 DEF CommitDecide, IInv, TypeOK, Works
  <2>3. TrueOf(work'[k.r], k.op, None)
    BY <2>1, <2>2 DEF TrueOf
  <2> QED
    BY <2>1, <2>3, TellStep
<1>4. CASE CommitSubmit(c)
  <2>1. k.r \in Requests /\ k.sub \in Submissions /\ Tell(k.r, "receipt", k.sub.result)
    BY <1>4, CallKinds DEF CommitSubmit, SubmitCalls, IInv
  <2>2. work'[k.r].proposal = k.sub
    BY <1>4, <2>1 DEF CommitSubmit, IInv, TypeOK, Works
  <2>3. TrueOf(work'[k.r], "receipt", k.sub.result)
    BY <2>1, <2>2 DEF TrueOf
  <2> QED
    BY <2>1, <2>3, TellStep
<1>5. CASE CommitAccept(c)
  <2> DEFINE result == work[k.r].proposal.result
  <2>1. k.r \in Requests /\ work[k.r] \in Works /\ Tell(k.r, "accepted", result)
    BY <1>5, AcceptFacts DEF CommitAccept, IInv, CallInv
  <2>2. work' = [work EXCEPT ![k.r] = [work[k.r] EXCEPT !.state = "accepted", !.rev = 3,
                                                        !.receipt = inputs']]
    BY <1>5, AcceptEffects DEF IInv, CallInv
  <2>3. work'[k.r].state = "accepted" /\ work'[k.r].proposal = work[k.r].proposal
    BY <2>1, <2>2 DEF IInv, TypeOK, Works
  <2>4. TrueOf(work'[k.r], "accepted", result)
    BY <2>3 DEF TrueOf
  <2> QED
    BY <2>1, <2>4, TellStep
<1> QED
  BY <1>2, <1>3, <1>4, <1>5 DEF Commit

\* Every statement to a client is true and stays so.
LEMMA NextTold ==
  ASSUME IInv, Next, RowStep
  PROVE  ToldInv'
<1>1. CASE UNCHANGED told
  BY <1>1, TellsStay DEF ToldInv, TrueOf
<1>2. ASSUME NEW r \in Requests, Tell(r, "expired", None)
      PROVE  ToldInv'
  <2>1. TrueOf(work'[r], "expired", None)
    BY DEF TrueOf
  <2> QED
    BY <1>2, <2>1, TellStep
<1>3. ASSUME NEW r \in Requests, ReplayAccept(r)
      PROVE  ToldInv'
  <2>1. TrueOf(work'[r], "accepted", work[r].proposal.result)
    BY <1>3 DEF TrueOf, ReplayAccept
  <2> QED
    BY <1>3, <2>1, TellStep DEF ReplayAccept
<1>4. ASSUME NEW r \in Requests, NEW g \in Grants, ReadResult(r, g)
      PROVE  ToldInv'
  <2>1. work' = work /\ work[r].proposal \in Submissions
    BY <1>4 DEF ReadResult, IInv, TypeOK, Works
  <2>2. CASE work[r].state = "rejected"
    <3>1. TrueOf(work'[r], "rejected", None)
      BY <2>1, <2>2 DEF TrueOf
    <3> QED
      BY <1>4, <2>2, <3>1, TellStep DEF ReadResult
  <2>3. CASE work[r].state = "accepted"
    <3>1. TrueOf(work'[r], "accepted", work[r].proposal.result)
      BY <2>1, <2>3 DEF TrueOf
    <3> QED
      BY <1>4, <2>3, <3>1, TellStep DEF ReadResult
  <2>4. CASE work[r].state \notin {"accepted", "rejected"}
    <3>1. TrueOf(work'[r], "receipt", work[r].proposal.result)
      BY <2>1 DEF TrueOf
    <3> QED
      BY <1>4, <2>4, <3>1, TellStep DEF ReadResult
  <2> QED
    BY <2>2, <2>3, <2>4
<1>5. ASSUME NEW r \in Requests, NEW g \in Grants, NEW sub \in Submissions,
             ReplaySubmit(r, g, sub)
      PROVE  ToldInv'
  <2>1. TrueOf(work'[r], "receipt", sub.result)
    BY <1>5 DEF TrueOf, ReplaySubmit
  <2> QED
    BY <1>5, <2>1, TellStep DEF ReplaySubmit
<1>6. CASE Answers
  BY <1>1, <1>2, <1>3, <1>4, <1>5, <1>6 DEF Answers, DecideLate, AcceptLate, UnchangedRest
<1>7. ASSUME NEW c \in Calls, Owner(c) \/ Agent(c)
      PROVE  UNCHANGED told
  BY <1>7 DEF Owner, Agent, BeginCreate, BeginView, BeginAccept, BeginDecide, BeginSubmit,
              UnchangedRest
<1>8. CASE List \/ Environment
  BY <1>1, <1>8 DEF List, Environment, IssueGrant, RevokeGrant, GrantExpires, WorkDue,
                    Edit, Maintenance, UnchangedRest
<1> QED
  BY <1>1, <1>6, <1>7, <1>8, CommitTold DEF Next

-----------------------------------------------------------------------------
(* The invariant                                                           *)

\* The invariant holds at the start.
LEMMA InitIInv == Init => IInv
<1> SUFFICES ASSUME Init
             PROVE  IInv
  OBVIOUS
<1> USE DEF Init
<1>1. TypeOK
  <2>1. 0 \in Versions /\ "none" \in States
    BY AgentAssumption DEF Versions, States
  <2>2. work \in [Requests -> Works]
    BY NoWorkTyped
  <2>3. NoView \in Views /\ NoEffect \in [times : 0..2, result : Results \cup {None},
                                          reviewed : Results \cup {None}]
    BY <2>1 DEF NoView, Views, NoEffect
  <2>4. grants \in [Grants -> GrantRows]
    BY DEF GrantRows
  <2> QED
    BY <2>1, <2>2, <2>3, <2>4 DEF TypeOK
<1>2. RowInv
  <2>1. GoodRow(NoWork, NoEffect)
    BY ProposalFacts DEF GoodRow, NoWork, NoEffect
  <2> QED
    BY <2>1 DEF RowInv
<1>3. ViewInv /\ ToldInv
  BY DEF ViewInv, ToldInv
<1>4. CallInv
  BY DEF CallInv, CreateOK, ViewOK, AcceptOK, Idle
<1> QED
  BY <1>1, <1>2, <1>3, <1>4 DEF IInv

\* The invariant is inductive.
LEMMA NextIInv == IInv /\ [Next]_vars => IInv'
<1>1. ASSUME IInv, Next
      PROVE  IInv'
  <2>1. RowStep
    BY <1>1, NextRows
  <2>2. GrantStep
    BY <1>1, NextGrants
  <2>3. TypeOK' /\ RowInv'
    BY <1>1, <2>1, NextTyped DEF RowStep
  <2>4. ViewInv' /\ CallInv' /\ ToldInv'
    BY <1>1, <2>1, <2>2, NextViews, NextCalls, NextTold
  <2> QED
    BY <2>3, <2>4 DEF IInv
<1>2. ASSUME IInv, UNCHANGED vars
      PROVE  IInv'
  <2> USE <1>2 DEF vars
  <2>1. TypeOK' /\ RowInv'
    BY DEF IInv, TypeOK, RowInv
  <2>2. ViewInv' /\ ToldInv'
    BY DEF IInv, ViewInv, ToldInv
  <2>3. CallInv'
    BY DEF IInv, CallInv, CreateOK, ViewOK, AcceptOK
  <2> QED
    BY <2>1, <2>2, <2>3 DEF IInv
<1> QED
  BY <1>1, <1>2

\* Every reachable state satisfies the invariant.
LEMMA Invariant == Spec => []IInv
BY InitIInv, NextIInv, PTL DEF Spec

-----------------------------------------------------------------------------
(* Theorems                                                                *)

\* Every variable keeps its type (models.py:24-117).
THEOREM AgentTypeCorrect == Spec => []TypeOK
<1>1. IInv => TypeOK
  BY DEF IInv
<1> QED
  BY <1>1, Invariant, PTL

\* Accepted work has taken effect exactly once, other work not at all
\* (acceptance.py:78-146).
THEOREM AppliedExactlyOnce == Spec => []AppliedOnce
<1>1. IInv => AppliedOnce
  BY DEF IInv, RowInv, GoodRow, AppliedOnce
<1> QED
  BY <1>1, Invariant, PTL

\* What took effect is what the owner had reviewed (acceptance.py:78-87).
THEOREM AcceptedIsReviewed == Spec => []AcceptedAsReviewed
<1>1. IInv => AcceptedAsReviewed
  BY DEF IInv, RowInv, GoodRow, AcceptedAsReviewed
<1> QED
  BY <1>1, Invariant, PTL

\* Work takes effect once, and as the owner reviewed it (acceptance.py:68-146).
THEOREM WorkAppliedAsReviewed == Spec => []AppliedAsReviewed
BY AppliedExactlyOnce, AcceptedIsReviewed, PTL DEF AppliedAsReviewed

\* A page with the current revision shows the current state (service.py:272-319).
THEOREM RevisionIsExact == Spec => []ViewExact
<1>1. IInv => ViewExact
  BY DEF IInv, ViewInv, Saw, Decided, ViewExact
<1> QED
  BY <1>1, Invariant, PTL

\* No answer given to a client is taken back (proposal_service.py:50-123).
THEOREM AnswersAreKept == Spec => []AnswersHold
<1>1. ASSUME IInv
      PROVE  AnswersHold
  <2>1. ASSUME NEW t \in told
        PROVE  /\ t.says = "receipt" => t.result = work[t.r].proposal.result
               /\ t.says = "accepted" => effects[t.r].times = 1
                                         /\ effects[t.r].result = t.result
               /\ t.says \in {"rejected", "canceled"} => effects[t.r].times = 0
    <3>1. t.r \in Requests
      BY <1>1 DEF IInv, TypeOK
    <3>2. GoodRow(work[t.r], effects[t.r])
      BY <1>1, <3>1 DEF IInv, RowInv
    <3> QED
      BY <1>1, <3>2 DEF IInv, ToldInv, GoodRow
  <2> QED
    BY <2>1 DEF AnswersHold
<1> QED
  BY <1>1, Invariant, PTL

\* Pages and answers are true to the row, now and later (service.py:255-329).
THEOREM WhatIsShownIsTrue == Spec => []ShownIsTrue
BY RevisionIsExact, AnswersAreKept, PTL DEF ShownIsTrue

\* Only the commit of a submission stores a proposal, and only the commit of an
\* acceptance has effects.
LEMMA OnlyAnswers ==
  ASSUME IInv, Next, NEW r \in Requests,
         work'[r].proposal # work[r].proposal \/ effects'[r] # effects[r]
  PROVE  \E c \in Calls : (CommitSubmit(c) \/ CommitAccept(c)) /\ call[c].r = r
<1> USE DEF IInv
<1>0. work[r] \in Works
  BY DEF TypeOK
<1>1. ASSUME UNCHANGED <<work, effects>>
      PROVE  FALSE
  BY <1>1
<1>2. ASSUME work' = Expire, UNCHANGED effects
      PROVE  FALSE
  <2>1. work'[r].proposal = work[r].proposal
    BY <1>0, <1>2 DEF Expire, Works
  <2> QED
    BY <1>2, <2>1
<1>3. ASSUME NEW rows, NEW kept, Pruned(rows, kept), UNCHANGED effects
      PROVE  FALSE
  <2>1. work'[r].proposal = work[r].proposal
    BY <1>0, <1>3 DEF Pruned, Unbind, Works
  <2> QED
    BY <1>3, <2>1
<1>4. ASSUME NEW g \in Grants, GrantExpires(g)
      PROVE  FALSE
  <2>1. work'[r].proposal = work[r].proposal /\ effects' = effects
    BY <1>0, <1>4 DEF GrantExpires, Works
  <2> QED
    BY <2>1
<1>5. ASSUME NEW q \in Requests, WorkDue(q)
      PROVE  FALSE
  <2>1. work'[r].proposal = work[r].proposal /\ effects' = effects
    BY <1>0, <1>5 DEF WorkDue, UnchangedRest, TypeOK, Works
  <2> QED
    BY <2>1
<1>6. ASSUME NEW c \in Calls, CommitCreate(c)
      PROVE  FALSE
  <2>1. call[c].r \in Requests /\ work[call[c].r].state = "none"
    BY <1>6, CallKinds DEF CommitCreate, CreateCalls, CallInv, CreateOK
  <2>2. work[call[c].r].proposal = NoSubmission
    BY <2>1 DEF RowInv, GoodRow, NoWork
  <2>3. work' = [work EXCEPT ![call[c].r] = NewWork(call[c])] /\ effects' = effects
    BY <1>6 DEF CommitCreate, UnchangedRest
  <2>4. NewWork(call[c]).proposal = NoSubmission
    BY DEF NewWork
  <2>5. work'[r].proposal = work[r].proposal
    <3> HIDE DEF NewWork
    <3> QED
      BY <2>1, <2>2, <2>3, <2>4 DEF TypeOK
  <2> QED
    BY <2>3, <2>5
<1>7. ASSUME NEW c \in Calls, CommitDecide(c)
      PROVE  FALSE
  <2>1. call[c].r \in Requests
    BY <1>7, CallKinds DEF CommitDecide, DecideCalls
  <2>2. work'[r].proposal = work[r].proposal /\ effects' = effects
    BY <1>0, <1>7, <2>1 DEF CommitDecide, TypeOK, Works
  <2> QED
    BY <2>2
<1>8. ASSUME NEW c \in Calls, CommitSubmit(c)
      PROVE  call[c].r = r
  <2>1. call[c].r \in Requests /\ effects' = effects
    BY <1>8, CallKinds DEF CommitSubmit, SubmitCalls
  <2>2. call[c].r # r => work'[r] = work[r]
    BY <1>8, <2>1 DEF CommitSubmit, TypeOK
  <2> QED
    BY <2>1, <2>2
<1>9. ASSUME NEW c \in Calls, CommitAccept(c)
      PROVE  call[c].r = r
  <2>1. call[c].r \in Requests
    BY <1>9, CallKinds DEF CommitAccept, AcceptCalls
  <2>2. call[c].r # r => work'[r] = work[r] /\ effects'[r] = effects[r]
    BY <1>9, <2>1 DEF CommitAccept, TypeOK
  <2> QED
    BY <2>2
<1> QED
  BY <1>1, <1>2, <1>3, <1>4, <1>5, <1>6, <1>7, <1>8, <1>9
  DEF Next, Commit, Owner, Agent, Answers, List, Environment, ShowView, Fail, BeginCreate,
      BeginView, BeginAccept, BeginDecide, BeginSubmit, DecideLate, AcceptLate,
      ReplayAccept, ReadResult, ReplaySubmit, IssueGrant, RevokeGrant, Edit, Maintenance,
      UnchangedRest

\* Nothing is stored or applied on an authority that is gone or on inputs that have
\* changed (proposal_service.py:92-93, acceptance.py:90-91).
THEOREM EffectsAreAuthorised == Spec => AuthorisedEffects
<1> DEFINE Authorised ==
      \A r \in Requests :
        (work[r].proposal # work'[r].proposal \/ effects[r] # effects'[r]) =>
          /\ MayWrite(work[r].grant)
          /\ InputsCurrent(r)
          /\ work[r].state \in Pending
<1>1. ASSUME IInv, Next
      PROVE  Authorised
  <2> SUFFICES ASSUME NEW r \in Requests,
                      work[r].proposal # work'[r].proposal \/ effects[r] # effects'[r]
               PROVE  MayWrite(work[r].grant) /\ InputsCurrent(r) /\ work[r].state \in Pending
    OBVIOUS
  <2>1. PICK c \in Calls : (CommitSubmit(c) \/ CommitAccept(c)) /\ call[c].r = r
    BY <1>1, OnlyAnswers
  <2>2. CASE CommitSubmit(c)
    BY <2>1, <2>2 DEF CommitSubmit, MaySubmit, SubmitHolds, Pending
  <2>3. CASE CommitAccept(c)
    <3>1. MayWrite(call[c].g) /\ InputsCurrent(r) /\ work[r].state = "returned"
      BY <2>1, <2>3 DEF CommitAccept, MayAccept, AcceptHolds
    <3>2. call[c].g = work[r].grant \/ grants[call[c].g].state = "pruned"
      BY <1>1, <2>1, <2>3 DEF CommitAccept, IInv, CallInv, AcceptOK
    <3>3. call[c].g = work[r].grant
      BY <3>1, <3>2 DEF MayWrite, Live
    <3> QED
      BY <3>1, <3>3 DEF Pending
  <2> QED
    BY <2>1, <2>2, <2>3
<1>2. IInv /\ [Next]_vars => [Authorised]_vars
  BY <1>1
<1> QED
  BY <1>2, Invariant, PTL DEF Spec, AuthorisedEffects

-----------------------------------------------------------------------------
(* Refinement                                                              *)

\* What became of a request, by its state.
LEMMA Outcomes ==
  ASSUME RowInv, NEW r \in Requests
  PROVE  /\ work[r].state = "accepted" => Outcome(r) = "applied"
         /\ work[r].state \in {"rejected", "canceled", "expired"} => Outcome(r) = "dropped"
         /\ work[r].state \notin Terminal => Outcome(r) = "open"
<1>1. GoodRow(work[r], effects[r])
  BY DEF RowInv
<1> QED
  BY <1>1 DEF GoodRow, Outcome, Terminal

\* The same after a step.
LEMMA OutcomesNext ==
  ASSUME RowInv', NEW r \in Requests
  PROVE  /\ work'[r].state = "accepted" => Outcome(r)' = "applied"
         /\ work'[r].state \in {"rejected", "canceled", "expired"} => Outcome(r)' = "dropped"
         /\ work'[r].state \notin Terminal => Outcome(r)' = "open"
<1>1. GoodRow(work'[r], effects'[r])
  BY DEF RowInv
<1> QED
  BY <1>1 DEF GoodRow, Outcome, Terminal

\* A submission answers, an acceptance applies, and everything else drops some
\* requests or none.
LEMMA StepKeepsPromise ==
  ASSUME IInv, Next
  PROVE  Promise!Next
<1> DEFINE answer == [r \in Requests |-> work[r].proposal.result]
           outcome == [r \in Requests |-> Outcome(r)]
<1>0. RowStep /\ RowInv /\ RowInv' /\ TypeOK
  BY NextRows DEF RowStep, IInv
<1>1. ASSUME NEW c \in Calls, CommitSubmit(c)
      PROVE  Promise!Next
  <2> DEFINE k == call[c]
  <2>1. k.r \in Requests /\ k.sub \in Submissions /\ k.sub.result \in Results
    BY <1>1, <1>0, CallKinds, ProposalFacts DEF CommitSubmit, SubmitCalls
  <2>2. work[k.r].state = "queued" /\ work[k.r] \in Works /\ effects' = effects
        /\ GoodRow(work[k.r], effects[k.r])
    BY <1>1, <1>0, <2>1 DEF CommitSubmit, MaySubmit, TypeOK, RowInv
  <2>3. work[k.r].proposal.result = None
    BY <2>2 DEF GoodRow, Works, NoSubmission
  <2>4. /\ work'[k.r].state = "returned" /\ work'[k.r].proposal = k.sub
        /\ \A r \in Requests : r # k.r => work'[r] = work[r]
    BY <1>1, <1>0, <2>1 DEF CommitSubmit, TypeOK, Works
  <2>5. outcome[k.r] = "open" /\ \A r \in Requests : r = k.r => Outcome(r)' = "open"
    BY <1>0, <2>1, <2>2, <2>4, Outcomes, OutcomesNext DEF Terminal
  <2>6. \A r \in Requests : r # k.r => Outcome(r)' = Outcome(r)
    BY <2>2, <2>4 DEF Outcome
  <2>7. outcome' = outcome
    <3>1. \A r \in Requests : Outcome(r)' = Outcome(r)
      BY <2>1, <2>5, <2>6
    <3> QED
      BY <3>1
  <2>8. answer' = [answer EXCEPT ![k.r] = k.sub.result]
    BY <2>1, <2>4
  <2>9. PICK q \in Requests, result \in Results : q = k.r /\ result = k.sub.result
    BY <2>1
  <2>10. Promise!Answer(q, result)
    BY <2>3, <2>5, <2>7, <2>8, <2>9 DEF Promise!Answer
  <2> QED
    BY <2>10 DEF Promise!Next
<1>2. ASSUME NEW c \in Calls, CommitAccept(c)
      PROVE  Promise!Next
  <2> DEFINE k == call[c]
  <2>1. /\ k.r \in Requests /\ work[k.r] \in Works /\ work[k.r].state = "returned"
        /\ work[k.r].proposal \in Submissions
    <3>1. TypeOK /\ RowInv /\ AcceptOK(c)
      BY DEF IInv, CallInv
    <3> QED
      BY <1>2, <3>1, AcceptFacts
  <2>2. /\ work' = [work EXCEPT ![k.r] = [work[k.r] EXCEPT !.state = "accepted", !.rev = 3,
                                                           !.receipt = inputs']]
        /\ effects' = [effects EXCEPT ![k.r] = Applied(c)]
    BY <1>2, AcceptEffects DEF IInv, CallInv
  <2>3. /\ work'[k.r].state = "accepted" /\ work'[k.r].proposal = work[k.r].proposal
        /\ \A r \in Requests : r # k.r => work'[r] = work[r] /\ effects'[r] = effects[r]
    BY <1>0, <2>1, <2>2 DEF TypeOK, Works
  <2>4. outcome[k.r] = "open" /\ \A r \in Requests : r = k.r => Outcome(r)' = "applied"
    BY <1>0, <2>1, <2>3, Outcomes, OutcomesNext DEF Terminal
  <2>5. answer[k.r] # None
    BY <2>1, ProposalFacts
  <2>6. \A r \in Requests : r # k.r => Outcome(r)' = Outcome(r)
    BY <2>3 DEF Outcome
  <2>7. outcome' = [outcome EXCEPT ![k.r] = "applied"]
    BY <2>1, <2>4, <2>6
  <2>8. answer' = answer
    <3>1. \A r \in Requests : work'[r].proposal = work[r].proposal
      BY <2>3
    <3> QED
      BY <3>1
  <2>9. Promise!Apply(k.r)
    BY <2>4, <2>5, <2>7, <2>8 DEF Promise!Apply
  <2> QED
    BY <2>1, <2>9 DEF Promise!Next
<1>3. ASSUME \A c \in Calls : ~CommitSubmit(c) /\ ~CommitAccept(c)
      PROVE  Promise!Next
  <2> DEFINE dropped == {r \in Requests : Outcome(r) = "open" /\ Outcome(r)' = "dropped"}
  <2>1. ASSUME NEW r \in Requests
        PROVE  /\ work'[r].proposal = work[r].proposal
               /\ effects'[r] = effects[r]
    BY <1>3, OnlyAnswers
  <2>2. ASSUME NEW r \in Requests
        PROVE  Outcome(r)' = IF r \in dropped THEN "dropped" ELSE Outcome(r)
    <3>1. /\ GoodRow(work[r], effects[r]) /\ GoodRow(work'[r], effects'[r])
          /\ Grows(work[r], work'[r]) /\ work[r] \in Works /\ work'[r] \in Works
      BY <1>0 DEF RowStep, RowInv, TypeOK
    <3>2. work[r].state = "accepted" <=> work'[r].state = "accepted"
      BY <2>1, <3>1 DEF GoodRow
    <3>3. work[r].state \in {"rejected", "canceled", "expired"} =>
            work'[r].state = work[r].state
      BY <3>1 DEF Grows, Pending
    <3>4. Outcome(r) \in {"applied", "dropped", "open"}
          /\ Outcome(r)' \in {"applied", "dropped", "open"}
      BY <1>0, Outcomes, OutcomesNext DEF Terminal
    <3>5. /\ Outcome(r) = "applied" <=> Outcome(r)' = "applied"
          /\ Outcome(r) = "dropped" => Outcome(r)' = "dropped"
      BY <1>0, <3>2, <3>3, Outcomes, OutcomesNext DEF Terminal
    <3> QED
      BY <3>4, <3>5
  <2>3. \A r \in dropped : outcome[r] = "open"
    OBVIOUS
  <2>4. outcome' = [r \in Requests |-> IF r \in dropped THEN "dropped" ELSE outcome[r]]
    <3> HIDE DEF dropped
    <3>1. \A r \in Requests :
            Outcome(r)' = IF r \in dropped THEN "dropped" ELSE Outcome(r)
      BY <2>2
    <3> QED
      BY <3>1
  <2>5. answer' = answer
    BY <2>1
  <2>6. Promise!Drop(dropped) /\ dropped \in SUBSET Requests
    <3>1. dropped \in SUBSET Requests
      OBVIOUS
    <3> HIDE DEF dropped
    <3> QED
      BY <2>3, <2>4, <2>5, <3>1 DEF Promise!Drop
  <2> QED
    BY <2>6 DEF Promise!Next
<1> QED
  BY <1>1, <1>2, <1>3

\* The calls, failures and retries of the detailed system never show: it implements
\* AgentPromise (acceptance.py, proposal_service.py, service.py).
THEOREM ImplementsAgentPromise == Spec => KeepsPromise
<1>1. Init => Promise!Init
  <2>1. ASSUME Init, NEW r \in Requests
        PROVE  work[r].proposal.result = None /\ Outcome(r) = "open"
    BY <2>1 DEF Init, NoWork, NoSubmission, NoEffect, Outcome
  <2> QED
    BY <2>1 DEF Promise!Init
<1>2. IInv /\ [Next]_vars => [Promise!Next]_(Promise!vars)
  <2>1. UNCHANGED vars => UNCHANGED Promise!vars
    BY DEF vars, Promise!vars, Outcome
  <2> QED
    BY <2>1, StepKeepsPromise
<1> QED
  BY <1>1, <1>2, Invariant, PTL DEF Spec, KeepsPromise, Promise!Spec
=============================================================================
