------------------------ MODULE AuthSessionsProofs ------------------------
(***************************************************************************)
(* For any number of families, browsers, tabs and lost responses: a logout *)
(* is final, a refresh token is exchanged once, two answers to one token    *)
(* leave no session, and a pending operation at most one family.           *)
(***************************************************************************)
EXTENDS AuthSessions, FiniteSetTheorems, NaturalsInduction, WellFoundedInduction, TLAPS

(* The inductive invariant, one part per concern.                          *)

Places == {"idle", "register", "enrol", "issue", "password", "again", "maint_read",
           "maint_write", "maint_renew", "read", "cas", "inspect", "revoke", "logout_read",
           "logout_write"}
Row == [state : {"none", "live", "revoked", "sentinel"}, gen : Nat, expired : BOOLEAN, born : Nat]
RefreshOf(fams) == [fam : fams, gen : Nat]
BearerOf(fams) == [fam : fams, purpose : {"session", "maintenance"}]
RequestOf(fams) ==
  [at : Places, by : Browsers \cup {None}, token : RefreshOf(fams) \cup {None},
   fams : SUBSET fams, seen : Lifecycles, found : fams \cup {None}]

RowInv ==
  /\ vault \in Lifecycles /\ drawn \subseteq Families /\ IsFiniteSet(drawn)
  /\ row \in [Families -> Row]
  /\ \A f \in Families : row[f].state # "none" => f \in drawn

\* Nobody holds a family that was not drawn, so a new one is nobody's.
HeldInv ==
  /\ cookie \in [Browsers -> RefreshOf(drawn) \cup {None}]
  /\ bearer \in [Browsers -> BearerOf(drawn) \cup {None}]
  /\ answered \subseteq RefreshOf(drawn) /\ left \subseteq drawn /\ twice \subseteq drawn

RequestInv ==
  /\ req \in [Requests -> RequestOf(drawn)]
  /\ \A r \in Requests :
       /\ req[r].at # "idle" => req[r].by \in Browsers
       /\ req[r].at \in {"read", "cas", "inspect", "revoke"} => req[r].token # None

\* The family of a token is dead or has gone past it; no token is ahead of its family.
Past(t) == ~Usable(t.fam) \/ row[t.fam].gen > t.gen
Current(t) == ~Usable(t.fam) \/ row[t.fam].gen >= t.gen

\* A token that was exchanged or refused is past, and so is the one that a request
\* which lost the conditional update presents; only what is not live is renewed.
TokenInv ==
  /\ \A t \in answered : Past(t)
  /\ \A b \in Browsers : cookie[b] # None => Current(cookie[b])
  /\ \A r \in Requests :
       /\ req[r].token # None => Current(req[r].token)
       /\ req[r].at \in {"inspect", "revoke"} => Past(req[r].token)
       /\ req[r].at = "maint_renew" =>
            req[r].found \in drawn /\ row[req[r].found].state # "live"

\* A pending vault has one family that lives, at most.
OneLives ==
  vault # "ready" =>
    \A f, g \in Families : row[f].state = "live" /\ row[g].state = "live" => f = g

Sound == RowInv /\ HeldInv /\ RequestInv
IInv == Sound /\ LogoutIsFinal /\ NeitherSideKeeps /\ TokenInv /\ OneLives

\* What no step does to a family drawn before: give it life, a row, or an older token.
RowsKept ==
  \A f \in drawn :
    /\ row'[f].state = "live" => row[f].state = "live"
    /\ row'[f].state = "live" /\ ~row'[f].expired => Usable(f)
    /\ row'[f].state # "none" => row[f].state # "none" /\ row'[f].gen >= row[f].gen

\* What a step does to requests and cookies, as far as TokenInv can tell.
RequestsMoved ==
  \A r \in Requests :
    \/ req'[r] = req[r]
    \/ /\ req'[r].token \in {None, req[r].token} \cup {cookie[b] : b \in Browsers}
       /\ req'[r].at \in {"inspect", "revoke"} =>
            req'[r].token = req[r].token /\ Past(req[r].token)
       /\ req'[r].at = "maint_renew" =>
            req'[r].found \in drawn /\ row[req'[r].found].state # "live"

CookiesMoved ==
  \A b \in Browsers : cookie'[b] \in {None, cookie[b]} \/ Current(cookie[b])'

Held ==
  /\ cookie \in [Browsers -> RefreshOf(drawn) \cup {None}]
  /\ bearer \in [Browsers -> BearerOf(drawn) \cup {None}]

Proceed == RequestInv' /\ RequestsMoved
HeldOn == Held' /\ CookiesMoved

-----------------------------------------------------------------------------
(* Requests and answers                                                    *)

\* A request that starts holds what the browser presents.
LEMMA StartTyped ==
  ASSUME Sound, NEW r \in Requests, NEW b \in Browsers, NEW place \in Places,
         NEW token \in {cookie[b], None}, NEW fams \in SUBSET drawn,
         place \notin {"cas", "inspect", "revoke", "maint_renew"},
         place = "read" => token # None,
         Start(r, b, place, token, fams), UNCHANGED drawn
  PROVE  Proceed
<1>. DEFINE new == [at |-> place, by |-> b, token |-> token, fams |-> fams,
                    seen |-> "ready", found |-> None]
<1>1. token \in RefreshOf(drawn) \cup {None}
  BY DEF Sound, HeldInv
<1>2. new \in RequestOf(drawn)
  BY <1>1 DEF RequestOf, Lifecycles, Pending
<1>3. req' = [req EXCEPT ![r] = new]
  BY DEF Start
<1>4. new.at = place /\ new.by = b /\ new.token = token
  OBVIOUS
<1>. HIDE DEF new
<1>5. RequestInv'
  BY <1>2, <1>3, <1>4 DEF Sound, RequestInv
<1>6. RequestsMoved
  BY <1>3, <1>4 DEF Sound, RequestInv, RequestsMoved
<1>. QED BY <1>5, <1>6 DEF Proceed

\* A request that goes on keeps what it presented.
LEMMA GoTyped ==
  ASSUME Sound, NEW r \in Requests, NEW place \in Places, req[r].at # "idle",
         place \in {"read", "cas", "inspect", "revoke"} =>
           req[r].at \in {"read", "cas", "inspect", "revoke"},
         place \in {"inspect", "revoke"} => Past(req[r].token), place # "maint_renew",
         Go(r, place), drawn \subseteq drawn'
  PROVE  Proceed
<1>1. RequestInv'
  BY DEF Sound, RequestInv, RequestOf, RefreshOf, Go
<1>2. RequestsMoved
  BY DEF Sound, RequestInv, RequestOf, Go, RequestsMoved
<1>. QED BY <1>1, <1>2 DEF Proceed

LEMMA LearnTyped ==
  ASSUME Sound, NEW r \in Requests, NEW place \in Places, req[r].at # "idle",
         place \notin {"read", "cas", "inspect", "revoke"},
         NEW seen \in Lifecycles, NEW found \in drawn \cup {None},
         place = "maint_renew" => found # None /\ row[found].state # "live",
         Learn(r, place, seen, found), UNCHANGED drawn
  PROVE  Proceed
<1>. DEFINE new == [at |-> place, by |-> req[r].by, token |-> req[r].token,
                    fams |-> req[r].fams, seen |-> seen, found |-> found]
<1>1. new \in RequestOf(drawn)
  BY DEF Sound, RequestInv, RequestOf
<1>2. req' = [req EXCEPT ![r] = new]
  BY DEF Learn
<1>3. new.at = place /\ new.by = req[r].by /\ new.token = req[r].token /\ new.found = found
  OBVIOUS
<1>. HIDE DEF new
<1>4. RequestInv'
  BY <1>1, <1>2, <1>3 DEF Sound, RequestInv
<1>5. RequestsMoved
  BY <1>2, <1>3 DEF Sound, RequestInv, RequestsMoved
<1>. QED BY <1>4, <1>5 DEF Proceed

\* A request that ends forgets it, and the browser gets what the answer carries.
LEMMA EndTyped ==
  ASSUME Sound, NEW r \in Requests, drawn \subseteq drawn', req' = [req EXCEPT ![r] = Idle]
  PROVE  Proceed
<1>1. Idle \in RequestOf(drawn')
  BY DEF Idle, RequestOf, Places, Lifecycles, Pending
<1>2. Idle.at = "idle" /\ Idle.token = None
  BY DEF Idle
<1>3. RequestInv'
  BY <1>1, <1>2 DEF Sound, RequestInv, RequestOf, RefreshOf
<1>4. RequestsMoved
  BY <1>2 DEF Sound, RequestInv, RequestsMoved
<1>. QED BY <1>3, <1>4 DEF Proceed

LEMMA AnswerTyped ==
  ASSUME Sound, NEW r \in Requests, drawn \subseteq drawn',
         NEW c \in RefreshOf(drawn') \cup {None}, NEW s \in BearerOf(drawn') \cup {None},
         Answer(r, c, s)
  PROVE  Proceed /\ Held' /\ \A b \in Browsers : cookie'[b] \in {cookie[b], c}
<1>1. Proceed
  BY EndTyped DEF Answer
<1>2. /\ cookie \in [Browsers -> RefreshOf(drawn') \cup {None}]
      /\ bearer \in [Browsers -> BearerOf(drawn') \cup {None}]
  BY DEF Sound, HeldInv, RefreshOf, BearerOf
<1>3. Held'
  BY <1>2 DEF Answer, browser, Held
<1>4. \A b \in Browsers : cookie'[b] \in {cookie[b], c}
  BY <1>2 DEF Answer, browser
<1>. QED BY <1>1, <1>3, <1>4

\* An answer that clears the cookie.
LEMMA ClearTyped ==
  ASSUME Sound, NEW r \in Requests, drawn \subseteq drawn',
         NEW s \in BearerOf(drawn') \cup {None}, Answer(r, None, s)
  PROVE  Proceed /\ HeldOn
BY AnswerTyped DEF HeldOn, CookiesMoved

LEMMA RefuseTyped ==
  ASSUME Sound, NEW r \in Requests, Refuse(r) \/ RotateFails(r), drawn \subseteq drawn'
  PROVE  Proceed
BY EndTyped DEF Refuse, RotateFails

LEMMA RefuseRefreshTyped ==
  ASSUME Sound, NEW r \in Requests, req[r].by \in Browsers, RefuseRefresh(r),
         UNCHANGED drawn
  PROVE  Proceed /\ HeldOn
<1>1. bearer[req[r].by] \in BearerOf(drawn') \cup {None}
  BY DEF Sound, HeldInv
<1>. QED BY <1>1, ClearTyped DEF RefuseRefresh

-----------------------------------------------------------------------------
(* What is past stays past, what is dead stays dead                        *)

LEMMA TokenStep ==
  ASSUME IInv, RowInv', RowsKept, drawn \subseteq drawn', Proceed, CookiesMoved,
         \A t \in answered' \ answered : Past(t)'
  PROVE  TokenInv'
<1>1. ASSUME NEW t \in RefreshOf(drawn)
      PROVE  (Past(t) => Past(t)') /\ (Current(t) => Current(t)')
  <2>1. t.fam \in drawn /\ t.fam \in Families /\ t.gen \in Nat
    BY DEF IInv, Sound, RowInv, RefreshOf
  <2>2. row[t.fam].gen \in Nat /\ row'[t.fam].gen \in Nat
    BY <2>1 DEF IInv, Sound, RowInv, Row
  <2>. QED BY <2>1, <2>2 DEF RowsKept, Past, Current, Usable
<1>2. ASSUME NEW t \in answered' PROVE Past(t)'
  <2>1. CASE t \in answered
    BY <1>1, <2>1 DEF IInv, Sound, HeldInv, TokenInv
  <2>. QED BY <2>1
<1>3. ASSUME NEW b \in Browsers, cookie'[b] # None PROVE Current(cookie[b])'
  <2>1. CASE cookie'[b] = cookie[b]
    <3>1. cookie[b] \in RefreshOf(drawn) /\ Current(cookie[b])
      BY <1>3, <2>1 DEF IInv, Sound, HeldInv, TokenInv
    <3>. QED BY <1>1, <2>1, <3>1 DEF Current, Usable
  <2>. QED BY <1>3, <2>1 DEF CookiesMoved
<1>4. ASSUME NEW t \in RefreshOf(drawn) \cup {None}, NEW r \in Requests,
             t = req'[r].token, t = req[r].token \/ \E b \in Browsers : t = cookie[b]
      PROVE  t # None => Current(t)'
  BY <1>1, <1>4 DEF IInv, TokenInv
<1>5. ASSUME NEW r \in Requests, req'[r].token # None PROVE Current(req[r].token)'
  <2>1. /\ req'[r].token = req[r].token \/ \E b \in Browsers : req'[r].token = cookie[b]
        /\ req'[r].token \in RefreshOf(drawn) \cup {None}
    BY <1>5 DEF Proceed, RequestsMoved, IInv, Sound, RequestInv, RequestOf, HeldInv
  <2>. QED BY <1>4, <1>5, <2>1 DEF Current, Usable
<1>6. ASSUME NEW r \in Requests, req'[r].at \in {"inspect", "revoke"}
      PROVE  Past(req[r].token)'
  <2>1. req'[r].token = req[r].token /\ Past(req[r].token)
    BY <1>6 DEF Proceed, RequestsMoved, IInv, TokenInv
  <2>2. req[r].token \in RefreshOf(drawn)
    BY <1>6, <2>1 DEF Proceed, IInv, Sound, RequestInv, RequestOf
  <2>. QED BY <1>1, <2>1, <2>2 DEF Past, Usable
<1>7. ASSUME NEW r \in Requests, req'[r].at = "maint_renew"
      PROVE  req'[r].found \in drawn' /\ row'[req'[r].found].state # "live"
  <2>1. req'[r].found \in drawn /\ row[req'[r].found].state # "live"
    BY <1>7 DEF Proceed, RequestsMoved, IInv, TokenInv
  <2>. QED BY <2>1 DEF RowsKept
<1>. QED BY <1>2, <1>3, <1>5, <1>6, <1>7 DEF TokenInv

LEMMA LoudStep ==
  ASSUME IInv, RowInv', RowsKept, drawn \subseteq drawn', Proceed, HeldOn, OneLives',
         answered' \subseteq RefreshOf(drawn'), left' \subseteq drawn', twice' \subseteq drawn',
         \A t \in answered' \ answered : Past(t)',
         \A f \in left' \ left : row'[f].state # "live",
         \A f \in twice' \ twice : ~Usable(f)'
  PROVE  IInv'
<1>1. HeldInv' /\ RequestInv'
  BY DEF HeldInv, Held, HeldOn, Proceed
<1>2. LogoutIsFinal'
  BY DEF IInv, Sound, HeldInv, LogoutIsFinal, RowsKept
<1>3. NeitherSideKeeps'
  BY DEF IInv, Sound, HeldInv, NeitherSideKeeps, RowsKept, Usable
<1>4. TokenInv'
  BY TokenStep DEF HeldOn
<1>. QED BY <1>1, <1>2, <1>3, <1>4 DEF IInv, Sound

-----------------------------------------------------------------------------
(* Steps that leave the stored families alone                              *)

LEMMA RowsStay ==
  ASSUME IInv, UNCHANGED <<row, drawn, vault>>
  PROVE  RowInv' /\ RowsKept /\ OneLives'
<1>1. RowInv' /\ OneLives'
  BY DEF IInv, Sound, RowInv, OneLives
<1>2. RowsKept
  BY DEF IInv, Sound, RowInv, RowsKept, Row, Usable
<1>. QED BY <1>1, <1>2

LEMMA QuietStep ==
  ASSUME IInv, UNCHANGED <<row, drawn, vault, ghosts>>, Proceed, HeldOn
  PROVE  IInv' /\ RowsKept
<1>1. RowInv' /\ RowsKept /\ OneLives'
  BY RowsStay
<1>2. answered' \subseteq RefreshOf(drawn') /\ left' \subseteq drawn' /\ twice' \subseteq drawn'
  BY DEF IInv, Sound, HeldInv, ghosts
<1>3. answered' \ answered = {} /\ left' \ left = {} /\ twice' \ twice = {}
  BY DEF ghosts
<1>. QED BY <1>1, <1>2, <1>3, LoudStep

LEMMA HeldUnchanged ==
  ASSUME IInv, UNCHANGED <<drawn, cookie, bearer>>
  PROVE  HeldOn
BY DEF IInv, Sound, HeldInv, Held, HeldOn, CookiesMoved

\* Whoever presents a cookie or a bearer names families that were drawn.
LEMMA StartSteps ==
  ASSUME IInv, NEW r \in Requests, NEW b \in Browsers,
         Register(r, b) \/ Login(r, b) \/ Refresh(r, b) \/ Logout(r, b)
  PROVE  IInv' /\ RowsKept
<1>1. UNCHANGED <<row, drawn, vault, ghosts, cookie, bearer>>
  BY DEF Register, Login, Refresh, Logout, store, browser
<1>2. HeldOn
  BY <1>1, HeldUnchanged
<1>3. CASE Register(r, b)
  <2>1. Start(r, b, "register", None, {}) /\ "register" \in Places
    BY <1>3 DEF Register, Places
  <2>. QED BY <2>1, <1>1, <1>2, StartTyped, QuietStep DEF IInv
<1>4. CASE Login(r, b)
  <2>1. Start(r, b, "password", None, {}) /\ "password" \in Places
    BY <1>4 DEF Login, Places
  <2>. QED BY <2>1, <1>1, <1>2, StartTyped, QuietStep DEF IInv
<1>5. CASE Refresh(r, b)
  <2>1. Start(r, b, "read", cookie[b], {}) /\ "read" \in Places /\ cookie[b] # None
    BY <1>5 DEF Refresh, Places
  <2>. QED BY <2>1, <1>1, <1>2, StartTyped, QuietStep DEF IInv
<1>6. CASE Logout(r, b)
  <2>1. Start(r, b, "logout_read", None, Named(b)) /\ "logout_read" \in Places
    BY <1>6 DEF Logout, Places
  <2>2. Named(b) \in SUBSET drawn
    BY DEF IInv, Sound, HeldInv, RefreshOf, BearerOf, Named
  <2>. QED BY <2>1, <2>2, <1>1, <1>2, StartTyped, QuietStep DEF IInv
<1>. QED BY <1>3, <1>4, <1>5, <1>6

\* Reads change what the request knows, refusals what the browser holds.
LEMMA ReadSteps ==
  ASSUME IInv, NEW r \in Requests,
         CreateAccount(r) \/ ReadUser(r) \/ ReadAgain(r) \/ MaintenanceRead(r)
         \/ RotateRead(r) \/ RotateFails(r) \/ LogoutRead(r)
  PROVE  IInv' /\ RowsKept
<1>1. UNCHANGED <<row, drawn, vault, ghosts>>
  BY DEF CreateAccount, ReadUser, ReadAgain, MaintenanceRead, RotateRead,
         RotateFails, LogoutRead, store
<1>2. vault \in Lifecycles
  BY DEF IInv, Sound, RowInv
<1>3. CASE CreateAccount(r)
  <2>1. UNCHANGED <<cookie, bearer>>
    BY <1>3 DEF CreateAccount, Refuse, browser
  <2>2. Refuse(r) \/ Go(r, "enrol")
    BY <1>3 DEF CreateAccount
  <2>3. At(r, "register") /\ "enrol" \in Places
    BY <1>3 DEF CreateAccount, Places
  <2>4. Proceed
    BY <1>1, <2>2, <2>3, RefuseTyped, GoTyped DEF IInv, At
  <2>. QED BY <1>1, <2>1, <2>4, HeldUnchanged, QuietStep
<1>4. CASE ReadUser(r)
  <2>1. UNCHANGED <<cookie, bearer>>
    BY <1>4 DEF ReadUser, browser
  <2>2. Proceed
    BY <1>1, <1>2, <1>4, LearnTyped DEF ReadUser, At, IInv, Places
  <2>. QED BY <1>1, <2>1, <2>2, HeldUnchanged, QuietStep
<1>5. CASE ReadAgain(r)
  <2>1. UNCHANGED <<cookie, bearer>>
    BY <1>5 DEF ReadAgain, Refuse, browser
  <2>2. CASE Refuse(r)
    BY <1>1, <2>1, <2>2, RefuseTyped, HeldUnchanged, QuietStep DEF IInv
  <2>3. CASE Learn(r, "maint_read", vault, None)
    <3>1. Proceed
      BY <1>1, <1>2, <1>5, <2>3, LearnTyped DEF ReadAgain, At, IInv, Places
    <3>. QED BY <1>1, <2>1, <3>1, HeldUnchanged, QuietStep
  <2>. QED BY <1>5, <2>2, <2>3 DEF ReadAgain
<1>6. CASE MaintenanceRead(r)
  <2>1. UNCHANGED <<cookie, bearer>>
    BY <1>6 DEF MaintenanceRead, browser
  <2>. DEFINE to(f) == IF f # None /\ row[f].expired THEN "maint_renew" ELSE "maint_write"
  <2>2. PICK f \in Families \cup {None} :
          /\ f # None => row[f].state = "sentinel" \/ Usable(f)
          /\ Learn(r, to(f), req[r].seen, f)
    BY <1>6, SessionAssumption DEF MaintenanceRead
  <2>3. f \in drawn \cup {None} /\ to(f) \in Places \ {"read", "cas", "inspect", "revoke"}
    BY <2>2 DEF IInv, Sound, RowInv, Usable, Places
  <2>4. to(f) = "maint_renew" => f # None /\ row[f].state # "live"
    BY <2>2 DEF Usable
  <2>5. req[r].seen \in Lifecycles /\ req[r].at # "idle"
    BY <1>6 DEF MaintenanceRead, At, IInv, Sound, RequestInv, RequestOf
  <2>6. Proceed
    <3>. HIDE DEF to
    <3>. QED BY <1>1, <2>2, <2>3, <2>4, <2>5, LearnTyped DEF IInv
  <2>. QED BY <1>1, <2>1, <2>6, HeldUnchanged, QuietStep
<1>7. CASE RotateRead(r)
  <2>1. req[r].at = "read" /\ req[r].by \in Browsers /\ "cas" \in Places
    BY <1>7 DEF RotateRead, At, IInv, Sound, RequestInv, Places
  <2>2. CASE RefuseRefresh(r)
    BY <1>1, <2>1, <2>2, RefuseRefreshTyped, QuietStep DEF IInv
  <2>3. CASE Go(r, "cas") /\ UNCHANGED <<cookie, bearer>>
    <3>1. Proceed
      BY <1>1, <2>1, <2>3, GoTyped DEF IInv
    <3>. QED BY <1>1, <2>3, <3>1, HeldUnchanged, QuietStep
  <2>. QED BY <1>7, <2>2, <2>3 DEF RotateRead, browser
<1>9. CASE RotateFails(r)
  <2>1. UNCHANGED <<cookie, bearer>>
    BY <1>9 DEF RotateFails, browser
  <2>. QED BY <1>1, <1>9, <2>1, RefuseTyped, HeldUnchanged, QuietStep DEF IInv
<1>8. CASE LogoutRead(r)
  <2>1. UNCHANGED <<cookie, bearer>>
    BY <1>8 DEF LogoutRead, browser
  <2>2. PICK f \in req[r].fams :
          Learn(r, "logout_write", req[r].seen,
                IF row[f].state = "sentinel" THEN f ELSE None)
    BY <1>8 DEF LogoutRead
  <2>3. f \in drawn
    BY <2>2 DEF IInv, Sound, RequestInv, RequestOf
  <2>4. Proceed
    <3>1. req[r].seen \in Lifecycles /\ At(r, "logout_read")
      BY <1>8 DEF LogoutRead, IInv, Sound, RequestInv, RequestOf
    <3>. QED BY <1>1, <2>2, <2>3, <3>1, LearnTyped DEF At, IInv, Places
  <2>. QED BY <1>1, <2>1, <2>4, HeldUnchanged, QuietStep
<1>. QED BY <1>3, <1>4, <1>5, <1>6, <1>7, <1>8, <1>9

-----------------------------------------------------------------------------
(* Steps that write the stored families                                    *)

GhostsTyped ==
  answered \subseteq RefreshOf(drawn) /\ left \subseteq drawn /\ twice \subseteq drawn

\* A step that answers no refresh and reports no logout.
LEMMA AloneStep ==
  ASSUME IInv, RowInv', RowsKept, drawn \subseteq drawn', Proceed, HeldOn, OneLives',
         UNCHANGED ghosts, GhostsTyped'
  PROVE  IInv'
<1>1. answered' \ answered = {} /\ left' \ left = {} /\ twice' \ twice = {}
  BY DEF ghosts
<1>. QED BY <1>1, LoudStep DEF GhostsTyped

LEMMA NewRowTyped ==
  ASSUME RowInv, NEW state \in {"live", "sentinel"}
  PROVE  NewRow(state) \in Row /\ NewRow(state).state = state
<1>1. Cardinality(drawn) \in Nat
  BY FS_CardinalityType DEF RowInv
<1>. QED BY <1>1 DEF NewRow, Row

\* A new family is added only while the vault is ready.
LEMMA IssueStep ==
  ASSUME IInv, NEW r \in Requests, Issue(r)
  PROVE  IInv' /\ RowsKept
<1>1. CASE vault # "ready"
  <2>1. UNCHANGED <<row, drawn, vault, ghosts, cookie, bearer>>
    BY <1>1 DEF Issue, Refuse, browser
  <2>2. req[r].at # "idle" /\ "again" \in Places
    BY DEF Issue, Issuing, At, Places
  <2>3. Refuse(r) \/ Go(r, "again")
    BY <1>1 DEF Issue
  <2>4. Proceed
    BY <2>1, <2>2, <2>3, RefuseTyped, GoTyped DEF IInv
  <2>. QED BY <2>1, <2>4, HeldUnchanged, QuietStep
<1>2. CASE vault = "ready"
  <2>1. PICK f \in Fresh :
          /\ row' = [g \in Families |-> IF g = f THEN NewRow("live")
                                        ELSE IF g \in Evicted THEN NoRow ELSE row[g]]
          /\ drawn' = drawn \cup {f}
          /\ Answer(r, [fam |-> f, gen |-> 0], [fam |-> f, purpose |-> "session"])
    BY <1>2 DEF Issue
  <2>2. UNCHANGED <<vault, ghosts>>
    BY DEF Issue
  <2>3. f \in Families /\ f \notin drawn
    BY <2>1 DEF Fresh
  <2>4. RowInv'
    BY <2>1, <2>2, <2>3, NewRowTyped, FS_AddElement DEF IInv, Sound, RowInv, Row, NoRow
  <2>5. RowsKept
    BY <2>1, <2>3 DEF IInv, Sound, RowInv, Row, NoRow, RowsKept, Usable
  <2>6. /\ [fam |-> f, gen |-> 0] \in RefreshOf(drawn')
        /\ [fam |-> f, purpose |-> "session"] \in BearerOf(drawn')
    BY <2>1 DEF RefreshOf, BearerOf
  <2>7. /\ Proceed /\ Held'
        /\ \A b \in Browsers : cookie'[b] \in {cookie[b], [fam |-> f, gen |-> 0]}
    BY <2>1, <2>6, AnswerTyped DEF IInv
  <2>8. HeldOn
    <3>1. row'[f].gen = 0
      BY <2>1, <2>3 DEF NewRow
    <3>. QED BY <2>7, <3>1 DEF HeldOn, CookiesMoved, Current
  <2>9. OneLives'
    BY <1>2, <2>2 DEF OneLives
  <2>10. GhostsTyped'
    BY <2>1, <2>2 DEF IInv, Sound, HeldInv, RefreshOf, GhostsTyped, ghosts
  <2>. QED BY <2>1, <2>2, <2>4, <2>5, <2>7, <2>8, <2>9, <2>10, AloneStep
<1>. QED BY <1>1, <1>2

\* A maintenance login replaces every family by one, goes on with the one it found ...
LEMMA MaintenanceStep ==
  ASSUME IInv, NEW r \in Requests, MaintenanceWrite(r)
  PROVE  IInv' /\ RowsKept
<1>. DEFINE f == req[r].found
<1>1. UNCHANGED <<vault, ghosts>> /\ req[r].at # "idle"
  BY DEF MaintenanceWrite, At
<1>2. f \in drawn \cup {None}
  BY DEF IInv, Sound, RequestInv, RequestOf
<1>3. CASE f = None
  <2>1. PICK g \in Fresh :
          /\ row' = [h \in Families |-> IF h # g THEN NoRow ELSE
               NewRow(IF req[r].seen = "erasure_pending" THEN "sentinel" ELSE "live")]
          /\ drawn' = drawn \cup {g}
          /\ Answer(r, None, [fam |-> g, purpose |-> "maintenance"])
    BY <1>3 DEF MaintenanceWrite
  <2>2. g \in Families /\ g \notin drawn
    BY <2>1 DEF Fresh
  <2>3. RowInv'
    BY <1>1, <2>1, <2>2, NewRowTyped, FS_AddElement DEF IInv, Sound, RowInv, Row, NoRow
  <2>4. RowsKept
    BY <2>1, <2>2 DEF IInv, Sound, RowInv, Row, NoRow, RowsKept, Usable
  <2>5. [fam |-> g, purpose |-> "maintenance"] \in BearerOf(drawn')
    BY <2>1 DEF BearerOf
  <2>6. Proceed /\ HeldOn
    BY <2>1, <2>5, ClearTyped DEF IInv
  <2>7. OneLives'
    BY <2>1 DEF OneLives, NoRow
  <2>8. GhostsTyped'
    BY <1>1, <2>1 DEF IInv, Sound, HeldInv, RefreshOf, GhostsTyped, ghosts
  <2>. QED BY <1>1, <2>1, <2>3, <2>4, <2>6, <2>7, <2>8, AloneStep
<1>4. CASE /\ f # None /\ UNCHANGED <<row, drawn>>
           /\ Answer(r, None, [fam |-> f, purpose |-> "maintenance"])
  <2>1. [fam |-> f, purpose |-> "maintenance"] \in BearerOf(drawn')
    BY <1>2, <1>4 DEF BearerOf
  <2>2. Proceed /\ HeldOn
    BY <1>4, <2>1, ClearTyped DEF IInv
  <2>. QED BY <1>1, <1>4, <2>2, QuietStep
<1>. QED BY <1>3, <1>4 DEF MaintenanceWrite

\* ... or renews it, which gives no life to what was not live.
LEMMA RenewStep ==
  ASSUME IInv, NEW r \in Requests, MaintenanceRenew(r)
  PROVE  IInv' /\ RowsKept
<1>. DEFINE f == req[r].found
<1>1. UNCHANGED <<vault, drawn, ghosts>> /\ req[r].at = "maint_renew"
  BY DEF MaintenanceRenew, At
<1>2. f \in drawn /\ f \in Families /\ row[f].state # "live"
  BY <1>1 DEF IInv, Sound, RowInv, TokenInv
<1>3. CASE Refuse(r) /\ UNCHANGED row
  <2>1. Proceed /\ UNCHANGED <<cookie, bearer>>
    BY <1>1, <1>3, RefuseTyped DEF IInv, Refuse, browser
  <2>. QED BY <1>1, <1>3, <2>1, HeldUnchanged, QuietStep
<1>4. CASE /\ row' = [row EXCEPT ![f].expired = FALSE]
           /\ Answer(r, None, [fam |-> f, purpose |-> "maintenance"])
  <2>1. row \in [Families -> Row]
    BY DEF IInv, Sound, RowInv
  <2>2. /\ \A h \in Families : row'[h].state = row[h].state /\ row'[h].gen = row[h].gen
        /\ \A h \in Families \ {f} : row'[h] = row[h]
        /\ row' \in [Families -> Row]
    BY <1>2, <1>4, <2>1 DEF Row
  <2>3. RowInv'
    BY <1>1, <2>2 DEF IInv, Sound, RowInv
  <2>4. RowsKept
    <3>1. \A h \in Families : row[h].gen \in Nat
      BY <2>1 DEF Row
    <3>2. drawn \subseteq Families
      BY DEF IInv, Sound, RowInv
    <3>. QED BY <1>2, <2>2, <3>1, <3>2 DEF RowsKept, Usable
  <2>5. [fam |-> f, purpose |-> "maintenance"] \in BearerOf(drawn')
    BY <1>1, <1>2 DEF BearerOf
  <2>6. Proceed /\ HeldOn
    BY <1>1, <1>4, <2>5, ClearTyped DEF IInv
  <2>7. OneLives'
    BY <1>1, <2>2 DEF IInv, OneLives
  <2>8. GhostsTyped'
    BY <1>1 DEF IInv, Sound, HeldInv, GhostsTyped, ghosts
  <2>. QED BY <1>1, <2>3, <2>4, <2>6, <2>7, <2>8, AloneStep
<1>. QED BY <1>3, <1>4 DEF MaintenanceRenew

\* The exchange raises the generation past the token that it uses up; a token that was
\* answered before is past already, so it is not exchanged.
LEMMA RotateStep ==
  ASSUME IInv, NEW r \in Requests, RotateCas(r)
  PROVE  IInv' /\ RowsKept
<1>. DEFINE t == req[r].token
<1>1. UNCHANGED <<vault, drawn>> /\ req[r].at = "cas" /\ "inspect" \in Places
  BY DEF RotateCas, At, Places
<1>2. /\ t \in RefreshOf(drawn) /\ t.fam \in drawn /\ t.fam \in Families
      /\ t.gen \in Nat /\ row[t.fam].gen \in Nat /\ Current(t)
  BY <1>1 DEF IInv, Sound, RowInv, Row, RequestInv, RequestOf, RefreshOf, TokenInv
<1>3. CASE Usable(t.fam) /\ row[t.fam].gen = t.gen
  <2>. DEFINE new == [fam |-> t.fam, gen |-> row[t.fam].gen + 1]
  <2>1. /\ row' = [row EXCEPT ![t.fam].gen = @ + 1] /\ UNCHANGED left
        /\ answered' = answered \cup {t}
        /\ twice' = IF t \in answered THEN twice \cup {t.fam} ELSE twice
        /\ Answer(r, new, [fam |-> t.fam, purpose |-> "session"])
    BY <1>3 DEF RotateCas, Rotated, Answered
  <2>2. t \notin answered
    BY <1>2, <1>3 DEF IInv, TokenInv, Past
  <2>3. /\ \A h \in Families : /\ row'[h].state = row[h].state /\ row'[h].gen \in Nat
                               /\ row'[h].expired = row[h].expired
        /\ \A h \in Families : row'[h].gen = IF h = t.fam THEN row[h].gen + 1 ELSE row[h].gen
        /\ row' \in [Families -> Row]
    <3>1. row \in [Families -> Row]
      BY DEF IInv, Sound, RowInv
    <3>. QED BY <1>2, <2>1, <3>1 DEF Row
  <2>4. RowInv'
    BY <1>1, <2>3 DEF IInv, Sound, RowInv
  <2>5. RowsKept
    BY <2>3 DEF IInv, Sound, RowInv, Row, RowsKept, Usable
  <2>6. /\ new \in RefreshOf(drawn') /\ new.fam = t.fam /\ new.gen = row[t.fam].gen + 1
        /\ [fam |-> t.fam, purpose |-> "session"] \in BearerOf(drawn')
    BY <1>1, <1>2 DEF RefreshOf, BearerOf
  <2>. HIDE DEF new
  <2>7. Proceed /\ Held' /\ \A b \in Browsers : cookie'[b] \in {cookie[b], new}
    BY <1>1, <2>1, <2>6, AnswerTyped DEF IInv
  <2>8. \A b \in Browsers : cookie'[b] = new => Current(cookie[b])'
    BY <1>2, <2>3, <2>6 DEF Current
  <2>9. HeldOn
    BY <2>7, <2>8 DEF HeldOn, CookiesMoved
  <2>10. OneLives'
    BY <1>1, <2>3 DEF IInv, OneLives
  <2>11. answered' \subseteq RefreshOf(drawn') /\ left' \subseteq drawn' /\ twice' \subseteq drawn'
    BY <1>1, <1>2, <2>1, <2>2 DEF IInv, Sound, HeldInv
  <2>12. \A u \in answered' \ answered : Past(u)'
    BY <1>2, <1>3, <2>1, <2>3 DEF Past
  <2>13. left' \ left = {} /\ twice' \ twice = {}
    BY <2>1, <2>2
  <2>. QED BY <1>1, <2>4, <2>5, <2>7, <2>9, <2>10, <2>11, <2>12, <2>13, LoudStep
<1>4. CASE ~(Usable(t.fam) /\ row[t.fam].gen = t.gen)
  <2>1. Go(r, "inspect") /\ UNCHANGED <<row, browser, ghosts>>
    BY <1>4 DEF RotateCas
  <2>2. Past(t)
    BY <1>2, <1>4 DEF Past, Current
  <2>3. Proceed /\ UNCHANGED <<cookie, bearer>>
    BY <1>1, <2>1, <2>2, GoTyped DEF IInv, browser
  <2>. QED BY <1>1, <2>1, <2>3, HeldUnchanged, QuietStep
<1>. QED BY <1>3, <1>4

\* A refusal after the second look finds the family dead.
LEMMA InspectStep ==
  ASSUME IInv, NEW r \in Requests, RotateInspect(r)
  PROVE  IInv' /\ RowsKept
<1>. DEFINE t == req[r].token
<1>1. UNCHANGED <<row, drawn, vault>> /\ req[r].at = "inspect" /\ "revoke" \in Places
  BY DEF RotateInspect, At, store, Places
<1>2. /\ t \in RefreshOf(drawn) /\ t.fam \in drawn /\ t.fam \in Families /\ t.gen \in Nat
      /\ row[t.fam].gen \in Nat /\ Past(t) /\ req[r].by \in Browsers
  BY <1>1 DEF IInv, Sound, RowInv, Row, RequestInv, RequestOf, RefreshOf, TokenInv
<1>3. CASE Replayed(t)
  <2>1. Go(r, "revoke") /\ UNCHANGED <<cookie, bearer, ghosts>>
    BY <1>3 DEF RotateInspect, browser, ghosts
  <2>2. Proceed
    BY <1>1, <1>2, <2>1, GoTyped DEF IInv
  <2>. QED BY <1>1, <2>1, <2>2, HeldUnchanged, QuietStep
<1>4. CASE ~Replayed(t)
  <2>1. /\ RefuseRefresh(r) /\ answered' = answered \cup {t} /\ UNCHANGED left
        /\ twice' \subseteq twice \cup {t.fam}
    BY <1>4 DEF RotateInspect, Answered
  <2>2. ~Usable(t.fam)
    BY <1>2, <1>4 DEF Past, Replayed
  <2>3. (\A f \in {t.fam} : ~Usable(f)') /\ (\A u \in {t} : Past(u)')
    BY <1>1, <2>2 DEF Usable, Past
  <2>4. RowInv' /\ RowsKept /\ OneLives'
    BY <1>1, RowsStay
  <2>5. Proceed /\ HeldOn
    BY <1>1, <1>2, <2>1, RefuseRefreshTyped DEF IInv
  <2>6. answered' \subseteq RefreshOf(drawn') /\ left' \subseteq drawn' /\ twice' \subseteq drawn'
    BY <1>1, <1>2, <2>1 DEF IInv, Sound, HeldInv
  <2>7. /\ \A u \in answered' \ answered : Past(u)'
        /\ \A f \in twice' \ twice : ~Usable(f)'
        /\ left' \ left = {}
    BY <2>1, <2>3
  <2>. QED BY <1>1, <2>4, <2>5, <2>6, <2>7, LoudStep
<1>. QED BY <1>3, <1>4

\* Steps that draw no family and give none life, a row or an older token.
LEMMA LessStep ==
  ASSUME IInv, UNCHANGED drawn, vault' \in Lifecycles,
         row' \in [Families -> Row], Proceed, HeldOn, GhostsTyped',
         \A t \in answered' \ answered : Past(t)',
         \A f \in left' \ left : row'[f].state # "live",
         \A f \in twice' \ twice : ~Usable(f)',
         \A f \in Families : row'[f] = row[f]
           \/ (row'[f].state # "live" /\ row[f].state # "none" /\ row'[f].gen >= row[f].gen)
           \/ row'[f].state = "none"
           \/ (row'[f].state = row[f].state /\ row'[f].gen = row[f].gen
               /\ (row[f].expired => row'[f].expired)),
         vault' # "ready" =>
           vault # "ready" \/ \E b \in Families : \A f \in Families \ {b} :
             row'[f].state # "live"
  PROVE  IInv' /\ RowsKept
<1>1. \A f \in Families : row[f].gen \in Nat /\ row'[f].gen \in Nat
  BY DEF IInv, Sound, RowInv, Row
<1>2. RowsKept
  BY <1>1 DEF IInv, Sound, RowInv, RowsKept, Usable
<1>3. RowInv'
  BY <1>2 DEF IInv, Sound, RowInv, RowsKept
<1>4. OneLives'
  <2>1. CASE vault # "ready"
    BY <2>1 DEF IInv, OneLives
  <2>2. CASE vault = "ready"
    BY <2>2 DEF OneLives
  <2>. QED BY <2>1, <2>2
<1>. QED BY <1>2, <1>3, <1>4, LoudStep DEF GhostsTyped

\* ... when they answer no refresh and report no logout either.
LEMMA QuietLessStep ==
  ASSUME IInv, UNCHANGED <<drawn, cookie, bearer, req, ghosts>>, vault' \in Lifecycles,
         row' \in [Families -> Row],
         \A f \in Families : row'[f] = row[f]
           \/ (row'[f].state # "live" /\ row[f].state # "none" /\ row'[f].gen >= row[f].gen)
           \/ row'[f].state = "none"
           \/ (row'[f].state = row[f].state /\ row'[f].gen = row[f].gen
               /\ (row[f].expired => row'[f].expired)),
         vault' # "ready" =>
           vault # "ready" \/ \E b \in Families : \A f \in Families \ {b} :
             row'[f].state # "live"
  PROVE  IInv' /\ RowsKept
<1>1. answered' \ answered = {} /\ left' \ left = {} /\ twice' \ twice = {}
  BY DEF ghosts
<1>2. GhostsTyped'
  BY DEF IInv, Sound, HeldInv, GhostsTyped, ghosts
<1>3. Proceed
  BY DEF IInv, Sound, RequestInv, Proceed, RequestsMoved
<1>. QED BY <1>1, <1>2, <1>3, HeldUnchanged, LessStep

LEMMA RevokedRow ==
  ASSUME RowInv, NEW f \in Families
  PROVE  /\ RevokeRow(f) \in Row /\ RevokeRow(f).state # "live"
         /\ RevokeRow(f) = row[f]
            \/ (row[f].state # "none" /\ RevokeRow(f).gen = row[f].gen)
BY DEF RowInv, Row, RevokeRow

LEMMA RevokeStep ==
  ASSUME IInv, NEW r \in Requests, RotateRevoke(r)
  PROVE  IInv' /\ RowsKept
<1>. DEFINE t == req[r].token
            f == t.fam
<1>1. UNCHANGED <<vault, drawn, left>> /\ req[r].at = "revoke"
  BY DEF RotateRevoke, At, Answered
<1>2. /\ t \in RefreshOf(drawn) /\ f \in drawn /\ f \in Families /\ req[r].by \in Browsers
  BY <1>1 DEF IInv, Sound, RowInv, RequestInv, RequestOf, RefreshOf
<1>3. row' = [row EXCEPT ![f] = RevokeRow(f)]
  BY DEF RotateRevoke
<1>4. row' \in [Families -> Row] /\ row'[f].state # "live"
  BY <1>2, <1>3, RevokedRow DEF IInv, Sound, RowInv
<1>5. \A g \in Families : row'[g] = row[g]
        \/ (row'[g].state # "live" /\ row[g].state # "none" /\ row'[g].gen >= row[g].gen)
  BY <1>2, <1>3, RevokedRow DEF IInv, Sound, RowInv, Row
<1>6. Proceed /\ HeldOn
  BY <1>1, <1>2, RefuseRefreshTyped DEF RotateRevoke, IInv
<1>7. answered' = answered \cup {t} /\ twice' \subseteq twice \cup {f}
  BY DEF RotateRevoke, Answered
<1>8. vault' \in Lifecycles /\ GhostsTyped'
  BY <1>1, <1>2, <1>7 DEF IInv, Sound, RowInv, HeldInv, GhostsTyped
<1>9. (\A g \in {f} : ~Usable(g)') /\ (\A u \in {t} : Past(u)')
  BY <1>4 DEF Past, Usable
<1>10. /\ \A u \in answered' \ answered : Past(u)'
       /\ \A g \in twice' \ twice : ~Usable(g)'
       /\ left' \ left = {}
  BY <1>1, <1>7, <1>9
<1>. QED BY <1>1, <1>4, <1>5, <1>6, <1>8, <1>10, LessStep

\* Whatever the commit does, the families that it reports are not live after it.
LEMMA LogoutStep ==
  ASSUME IInv, NEW r \in Requests, LogoutWrite(r)
  PROVE  IInv' /\ RowsKept
<1>. DEFINE fams == req[r].fams
            gone == {f \in fams : row[f].state = "sentinel"
                                  /\ (f = req[r].found \/ Cardinality(fams) > 1)}
<1>1. UNCHANGED <<vault, drawn, answered, twice>> /\ req[r].at = "logout_write"
  BY DEF LogoutWrite, At
<1>2. fams \subseteq drawn /\ req[r].by \in Browsers
  BY <1>1 DEF IInv, Sound, RequestInv, RequestOf
<1>3. vault' \in Lifecycles /\ fams \subseteq Families
  BY <1>1, <1>2 DEF IInv, Sound, RowInv
<1>4. CASE /\ row' = [f \in Families |-> IF f \in gone THEN NoRow
                                         ELSE IF f \in fams THEN RevokeRow(f) ELSE row[f]]
           /\ left' = left \cup fams /\ Answer(r, None, None)
  <2>. HIDE DEF gone
  <2>1. row' \in [Families -> Row]
    BY <1>4, RevokedRow DEF IInv, Sound, RowInv, Row, NoRow
  <2>2. \A f \in fams : row'[f].state # "live"
    BY <1>3, <1>4, RevokedRow DEF IInv, Sound, NoRow
  <2>3. \A f \in Families : row'[f] = row[f] \/ row'[f].state = "none"
          \/ (row'[f].state # "live" /\ row[f].state # "none" /\ row'[f].gen >= row[f].gen)
    BY <1>4, RevokedRow DEF IInv, Sound, RowInv, Row, NoRow
  <2>4. Proceed /\ HeldOn
    BY <1>1, <1>4, ClearTyped DEF IInv
  <2>5. /\ GhostsTyped' /\ \A f \in left' \ left : row'[f].state # "live"
        /\ answered' \ answered = {} /\ twice' \ twice = {}
    BY <1>1, <1>2, <1>4, <2>2 DEF IInv, Sound, HeldInv, GhostsTyped
  <2>. QED BY <1>1, <1>3, <2>1, <2>3, <2>4, <2>5, LessStep
<1>5. CASE Answer(r, None, bearer[req[r].by]) /\ UNCHANGED <<row, left>>
  <2>1. bearer[req[r].by] \in BearerOf(drawn') \cup {None}
    BY <1>1, <1>2 DEF IInv, Sound, HeldInv
  <2>2. Proceed /\ HeldOn
    BY <1>1, <1>5, <2>1, ClearTyped DEF IInv
  <2>. QED BY <1>1, <1>5, <2>2, QuietStep DEF ghosts
<1>. QED BY <1>4, <1>5 DEF LogoutWrite

\* A family that expires keeps its state; its tokens keep theirs.
LEMMA ExpireStep ==
  ASSUME IInv, NEW f \in Families, Expire(f)
  PROVE  IInv' /\ RowsKept
<1>1. UNCHANGED <<vault, drawn, ghosts, cookie, bearer, req>>
  BY DEF Expire, browser
<1>2. row' = [row EXCEPT ![f].expired = TRUE]
  BY DEF Expire
<1>3. row' \in [Families -> Row]
  BY <1>2 DEF IInv, Sound, RowInv, Row
<1>4. \A g \in Families : /\ row'[g].state = row[g].state /\ row'[g].gen = row[g].gen
                          /\ row[g].expired => row'[g].expired
  BY <1>2 DEF IInv, Sound, RowInv, Row
<1>5. vault' \in Lifecycles
  BY <1>1 DEF IInv, Sound, RowInv
<1>. QED BY <1>1, <1>3, <1>4, <1>5, QuietLessStep DEF IInv, OneLives

\* The commit that makes an operation pending revokes all families but the presented one.
LEMMA BeginStep ==
  ASSUME IInv, NEW b \in Browsers, NEW to \in Pending, BeginMaintenance(b, to)
  PROVE  IInv' /\ RowsKept
<1>. DEFINE k == bearer[b].fam
<1>1. UNCHANGED <<drawn, ghosts, cookie, bearer, req>> /\ vault' \in Lifecycles
  BY DEF BeginMaintenance, browser, Lifecycles
<1>2. k \in Families /\ row[k].state \in {"live", "sentinel"}
  <2>1. k \in Families
    BY DEF BeginMaintenance, IInv, Sound, RowInv, HeldInv, BearerOf
  <2>. QED BY <2>1 DEF BeginMaintenance, MaintenanceAuthority
<1>3. row' = [f \in Families |->
               IF f # k THEN RevokeRow(f)
               ELSE [row[f] EXCEPT !.state = IF to = "erasure_pending" THEN "sentinel" ELSE @]]
  BY DEF BeginMaintenance
<1>4. /\ [row[k] EXCEPT !.state = IF to = "erasure_pending" THEN "sentinel" ELSE @] \in Row
      /\ [row[k] EXCEPT !.state = IF to = "erasure_pending" THEN "sentinel" ELSE @].gen
           = row[k].gen
      /\ [row[k] EXCEPT !.state = IF to = "erasure_pending" THEN "sentinel" ELSE @].expired
           = row[k].expired
      /\ [row[k] EXCEPT !.state = IF to = "erasure_pending" THEN "sentinel" ELSE @].state
           \in {row[k].state, "sentinel"}
  BY <1>2 DEF IInv, Sound, RowInv, Row
<1>5. row' \in [Families -> Row]
  BY <1>3, <1>4, RevokedRow DEF IInv, Sound
<1>6. \A f \in Families \ {k} : row'[f].state # "live"
        /\ (row'[f] = row[f] \/ (row[f].state # "none" /\ row'[f].gen >= row[f].gen))
  BY <1>3, RevokedRow DEF IInv, Sound, RowInv, Row
<1>7. /\ row'[k].gen = row[k].gen /\ row[k].gen \in Nat /\ row'[k].expired = row[k].expired
      /\ row'[k].state = row[k].state \/ row'[k].state = "sentinel"
  BY <1>2, <1>3, <1>4 DEF IInv, Sound, RowInv, Row
<1>. QED BY <1>1, <1>2, <1>5, <1>6, <1>7, QuietLessStep

LEMMA EndStep ==
  ASSUME IInv, EndMaintenance
  PROVE  IInv' /\ RowsKept
<1>1. UNCHANGED <<drawn, ghosts, cookie, bearer, req>> /\ vault' = "ready"
  BY DEF EndMaintenance, browser
<1>2. \/ UNCHANGED row
      \/ row' = [f \in Families |-> RevokeRow(f)]
      \/ row' = [f \in Families |-> NoRow]
  BY DEF EndMaintenance
<1>3. row' \in [Families -> Row]
  <2>1. row \in [Families -> Row] /\ NoRow \in Row
    BY DEF IInv, Sound, RowInv, Row, NoRow
  <2>2. \A f \in Families : RevokeRow(f) \in Row
    BY RevokedRow DEF IInv, Sound
  <2>. QED BY <1>2, <2>1, <2>2
<1>4. \A f \in Families : row'[f] = row[f] \/ row'[f].state = "none"
        \/ (row'[f].state # "live" /\ row[f].state # "none" /\ row'[f].gen >= row[f].gen)
  BY <1>2, RevokedRow DEF IInv, Sound, RowInv, Row, NoRow
<1>5. vault' \in Lifecycles
  BY <1>1 DEF Lifecycles
<1>. QED BY <1>1, <1>3, <1>4, <1>5, QuietLessStep

-----------------------------------------------------------------------------
(* The invariant                                                           *)

LEMMA InitInv ==
  ASSUME Init
  PROVE  IInv
<1>1. RowInv
  BY FS_EmptySet DEF Init, RowInv, Row, NoRow, Lifecycles
<1>2. HeldInv
  BY DEF Init, HeldInv
<1>3. Idle \in RequestOf({}) /\ Idle.at = "idle"
  BY DEF Idle, RequestOf, Places, Lifecycles
<1>4. RequestInv
  BY <1>3 DEF Init, RequestInv
<1>5. LogoutIsFinal /\ NeitherSideKeeps /\ TokenInv /\ OneLives
  BY DEF Init, LogoutIsFinal, NeitherSideKeeps, TokenInv, OneLives, Idle
<1>. QED BY <1>1, <1>2, <1>4, <1>5 DEF IInv, Sound

LEMMA StepInv ==
  ASSUME IInv, [Next]_vars
  PROVE  IInv' /\ RowsKept
<1>1. CASE UNCHANGED vars
  <2>1. UNCHANGED <<row, drawn, vault, ghosts, cookie, bearer, req>>
    BY <1>1 DEF vars, store, browser
  <2>2. Proceed
    BY <2>1 DEF IInv, Sound, RequestInv, Proceed, RequestsMoved
  <2>. QED BY <2>1, <2>2, HeldUnchanged, QuietStep
<1>2. ASSUME NEW r \in Requests, RequestStep(r) PROVE IInv' /\ RowsKept
  BY <1>2, ReadSteps, IssueStep, MaintenanceStep, RenewStep, RotateStep, InspectStep,
     RevokeStep, LogoutStep
     DEF RequestStep
<1>. QED BY <1>1, <1>2, StartSteps, ExpireStep, BeginStep, EndStep DEF Next

THEOREM SpecInv == Spec => []IInv
<1>1. Init => IInv
  BY InitInv
<1>2. IInv /\ [Next]_vars => IInv'
  BY StepInv
<1>. QED BY <1>1, <1>2, PTL DEF Spec

-----------------------------------------------------------------------------
(* The cap of the stored families, and the other bounds of the types       *)

RowBound ==
  /\ Cardinality(Stored) <= MaxSlots
  /\ \A f \in Families : row[f].gen <= MaxGen /\ row[f].born <= Cardinality(drawn)

\* Only tokens below MaxGen are presented, so an exchange stays within it.
TokenBound ==
  /\ \A b \in Browsers : cookie[b] # None => cookie[b].gen <= MaxGen
  /\ \A r \in Requests : req[r].token # None => req[r].token.gen < MaxGen

Bounded ==
  /\ RowBound /\ TokenBound /\ \A t \in answered : t.gen < MaxGen
  /\ account \in BOOLEAN /\ faults \in 0..MaxFaults

LEMMA StoredFinite ==
  ASSUME RowInv
  PROVE  /\ IsFiniteSet(Stored) /\ Stored \subseteq drawn
         /\ Cardinality(Stored) \in Nat /\ Cardinality(drawn) \in Nat
<1>1. Stored \in SUBSET drawn
  BY DEF RowInv, Stored
<1>2. IsFiniteSet(Stored)
  BY <1>1, FS_Subset DEF RowInv
<1>. QED BY <1>1, <1>2, FS_CardinalityType DEF RowInv

LEMMA LeastNumber ==
  ASSUME NEW S \in SUBSET Nat, S # {}
  PROVE  \E n \in S : \A m \in S : n <= m
<1>. DEFINE less == {ss \in Nat \X Nat : ss[1] < ss[2]}
<1>1. IsWellFoundedOn(less, Nat)
  BY NatLessThanWellFounded DEF OpToRel
<1>2. PICK n \in S : \A m \in S : <<m, n>> \notin less
  BY <1>1, WFMin
<1>3. \A m \in S : ~(m < n)
  BY <1>2
<1>. QED BY <1>3

LEMMA OldestKept ==
  ASSUME RowInv, NEW fams \in SUBSET Families, fams # {}
  PROVE  Oldest(fams) \in fams
<1>. DEFINE births == {row[f].born : f \in fams}
<1>1. births \in SUBSET Nat /\ births # {}
  BY DEF RowInv, Row
<1>2. PICK n \in births : \A m \in births : n <= m
  <2>. HIDE DEF births
  <2>. QED BY <1>1, LeastNumber
<1>3. PICK f \in fams : \A g \in fams : row[f].born <= row[g].born
  BY <1>2
<1>. QED BY <1>3 DEF Oldest

\* issue_auth_session makes room before it adds the family.
LEMMA SlotsSuffice ==
  ASSUME RowInv, Cardinality(Stored) <= MaxSlots, NEW f \in Families
  PROVE  /\ IsFiniteSet((Stored \ Evicted) \cup {f})
         /\ Cardinality((Stored \ Evicted) \cup {f}) <= MaxSlots
<1>. DEFINE kept == Stored \ Dead
            stay == Stored \ Evicted
<1>1. IsFiniteSet(kept) /\ Cardinality(kept) <= Cardinality(Stored)
  BY StoredFinite, FS_Subset
<1>2. Cardinality(kept) \in Nat /\ Cardinality(Stored) \in Nat /\ MaxSlots \in Nat \ {0}
  BY <1>1, StoredFinite, FS_CardinalityType, SessionAssumption
<1>3. IsFiniteSet(stay) /\ Cardinality(stay) \in Nat /\ Cardinality(stay) < MaxSlots
  <2>1. CASE Cardinality(kept) >= MaxSlots
    <3>1. kept # {}
      <4>1. Cardinality({}) = 0
        BY FS_EmptySet
      <4>. QED BY <1>2, <2>1, <4>1
    <3>2. Oldest(kept) \in kept
      BY <3>1, OldestKept DEF Stored
    <3>3. stay = kept \ {Oldest(kept)}
      BY <2>1 DEF Evicted
    <3>4. IsFiniteSet(kept \ {Oldest(kept)})
          /\ Cardinality(kept \ {Oldest(kept)}) = Cardinality(kept) - 1
      <4>. HIDE DEF kept
      <4>. QED BY <1>1, <3>2, FS_RemoveElement
    <3>. HIDE DEF kept, stay
    <3>. QED BY <1>1, <1>2, <2>1, <3>3, <3>4
  <2>2. CASE ~(Cardinality(kept) >= MaxSlots)
    <3>1. stay = kept
      BY <2>2 DEF Evicted
    <3>. HIDE DEF kept, stay
    <3>. QED BY <1>1, <1>2, <2>2, <3>1
  <2>. QED BY <2>1, <2>2
<1>. HIDE DEF stay
<1>4. /\ IsFiniteSet(stay \cup {f})
      /\ Cardinality(stay \cup {f}) \in {Cardinality(stay), Cardinality(stay) + 1}
  BY <1>3, FS_AddElement
<1>5. Cardinality(stay \cup {f}) \in Nat
  BY <1>4, FS_CardinalityType
<1>. QED BY <1>2, <1>3, <1>4, <1>5 DEF stay

\* Every step but an issue stores no family that was not stored.
LEMMA RowsBounded ==
  ASSUME RowInv, RowBound, RowInv', drawn \subseteq drawn',
         \A f \in Families :
           /\ row'[f].gen = row[f].gen \/ row'[f].gen = 0
           /\ row'[f].born = row[f].born \/ row'[f].born = 0,
         \A f \in Families : row'[f].state # "none" => row[f].state # "none"
  PROVE  RowBound'
<1>1. Stored' \in SUBSET Stored
  BY DEF Stored
<1>2. Cardinality(Stored') <= Cardinality(Stored)
  BY <1>1, StoredFinite, FS_Subset
<1>3. /\ Cardinality(drawn) <= Cardinality(drawn')
      /\ Cardinality(drawn) \in Nat /\ Cardinality(drawn') \in Nat
  BY FS_Subset, FS_CardinalityType DEF RowInv
<1>4. Cardinality(Stored) \in Nat /\ Cardinality(Stored') \in Nat
  BY <1>1, StoredFinite, FS_Subset, FS_CardinalityType
<1>5. MaxSlots \in Nat /\ MaxGen \in Nat
  BY SessionAssumption
<1>6. Cardinality(Stored') <= MaxSlots
  BY <1>2, <1>4, <1>5 DEF RowBound
<1>7. ASSUME NEW f \in Families
      PROVE  row'[f].gen <= MaxGen /\ row'[f].born <= Cardinality(drawn')
  <2>1. row[f].gen \in Nat /\ row[f].born \in Nat
    BY DEF RowInv, Row
  <2>. QED BY <1>3, <1>5, <2>1 DEF RowBound
<1>. QED BY <1>6, <1>7 DEF RowBound

\* Steps that move requests and answers within the bounds of the tokens.
LEMMA StartBound ==
  ASSUME IInv, TokenBound, NEW r \in Requests, NEW b \in Browsers, NEW place, NEW token,
         NEW fams, token # None => token.gen < MaxGen,
         Start(r, b, place, token, fams), UNCHANGED browser
  PROVE  TokenBound'
<1>. DEFINE new == [at |-> place, by |-> b, token |-> token, fams |-> fams,
                    seen |-> "ready", found |-> None]
<1>1. req' = [req EXCEPT ![r] = new] /\ new.token = token
  BY DEF Start
<1>. HIDE DEF new
<1>. QED BY <1>1 DEF IInv, Sound, RequestInv, TokenBound, browser

LEMMA StayBound ==
  ASSUME IInv, TokenBound, UNCHANGED browser,
         \A r \in Requests : req'[r].token \in {req[r].token, None}
  PROVE  TokenBound'
BY DEF TokenBound, browser

LEMMA Presented ==
  ASSUME IInv, NEW r \in Requests
  PROVE  /\ \A place : Go(r, place) =>
              \A q \in Requests : req'[q].token \in {req[q].token, None}
         /\ \A place, seen, found : Learn(r, place, seen, found) =>
              \A q \in Requests : req'[q].token \in {req[q].token, None}
         /\ Refuse(r) => \A q \in Requests : req'[q].token \in {req[q].token, None}
         /\ \A c, s : Answer(r, c, s) =>
              \A q \in Requests : req'[q].token \in {req[q].token, None}
<1>1. req \in [Requests -> RequestOf(drawn)]
  BY DEF IInv, Sound, RequestInv
<1>2. ASSUME NEW place, Go(r, place), NEW q \in Requests
      PROVE  req'[q].token \in {req[q].token, None}
  BY <1>1, <1>2 DEF Go, RequestOf
<1>3. ASSUME NEW place, NEW seen, NEW found, Learn(r, place, seen, found), NEW q \in Requests
      PROVE  req'[q].token \in {req[q].token, None}
  BY <1>1, <1>3 DEF Learn
<1>4. ASSUME req' = [req EXCEPT ![r] = Idle], NEW q \in Requests
      PROVE  req'[q].token \in {req[q].token, None}
  BY <1>1, <1>4 DEF Idle
<1>. QED BY <1>2, <1>3, <1>4 DEF Refuse, Answer

LEMMA AnswerBound ==
  ASSUME IInv, TokenBound, NEW r \in Requests, NEW c, NEW s, Answer(r, c, s),
         c # None => c.gen <= MaxGen, faults \in 0..MaxFaults
  PROVE  TokenBound' /\ faults' \in 0..MaxFaults
<1>1. \A q \in Requests : req'[q].token \in {req[q].token, None}
  BY Presented
<1>2. cookie \in [Browsers -> RefreshOf(drawn) \cup {None}]
  BY DEF IInv, Sound, HeldInv
<1>3. \A b \in Browsers : cookie'[b] \in {cookie[b], c}
  BY <1>2 DEF Answer, browser
<1>4. TokenBound'
  BY <1>1, <1>3 DEF TokenBound
<1>. QED BY <1>4, SessionAssumption DEF Answer

\* A step that draws stores the new family and drops the evicted ones.
LEMMA IssueBound ==
  ASSUME IInv, IInv', Bounded, NEW r \in Requests, Issue(r)
  PROVE  Bounded'
<1>1. UNCHANGED <<account, answered>>
  BY DEF Issue, ghosts
<1>2. CASE vault # "ready"
  <2>1. UNCHANGED <<row, drawn, cookie, bearer, faults>> /\ UNCHANGED browser
    BY <1>2 DEF Issue, Refuse, browser
  <2>2. RowBound'
    BY <2>1 DEF Bounded, RowBound, Stored
  <2>3. TokenBound'
    BY <1>2, <2>1, Presented, StayBound DEF Issue, Bounded
  <2>. QED BY <1>1, <2>1, <2>2, <2>3 DEF Bounded
<1>3. CASE vault = "ready"
  <2>1. PICK f \in Fresh :
          /\ row' = [g \in Families |-> IF g = f THEN NewRow("live")
                                        ELSE IF g \in Evicted THEN NoRow ELSE row[g]]
          /\ drawn' = drawn \cup {f}
          /\ Answer(r, [fam |-> f, gen |-> 0], [fam |-> f, purpose |-> "session"])
    BY <1>3 DEF Issue
  <2>2. f \in Families
    BY DEF Fresh
  <2>3. TokenBound' /\ faults' \in 0..MaxFaults
    BY <2>1, AnswerBound, SessionAssumption DEF Bounded
  <2>4. Stored' \in SUBSET ((Stored \ Evicted) \cup {f})
    BY <2>1 DEF Stored, NoRow
  <2>5. Cardinality(Stored') <= MaxSlots
    <3>1. /\ IsFiniteSet((Stored \ Evicted) \cup {f})
          /\ Cardinality((Stored \ Evicted) \cup {f}) <= MaxSlots
      BY <2>2, SlotsSuffice DEF IInv, Sound, Bounded, RowBound
    <3>. DEFINE most == (Stored \ Evicted) \cup {f}
    <3>2. Cardinality(most) \in Nat /\ Cardinality(Stored') \in Nat
          /\ Cardinality(Stored') <= Cardinality(most)
      <4>. HIDE DEF most
      <4>. QED BY <2>4, <3>1, FS_Subset, FS_CardinalityType DEF most
    <3>. HIDE DEF most
    <3>. QED BY <3>1, <3>2, SessionAssumption DEF most
  <2>6. \A g \in Families : row'[g].gen <= MaxGen /\ row'[g].born <= Cardinality(drawn')
    <3>1. /\ Cardinality(drawn) <= Cardinality(drawn')
          /\ Cardinality(drawn) \in Nat /\ Cardinality(drawn') \in Nat
      BY <2>1, FS_Subset, FS_CardinalityType DEF IInv, Sound, RowInv
    <3>2. MaxGen \in Nat
      BY SessionAssumption
    <3>3. \A g \in Families : row[g].born \in Nat
      BY DEF IInv, Sound, RowInv, Row
    <3>. QED BY <2>1, <3>1, <3>2, <3>3 DEF Bounded, RowBound, NewRow, NoRow
  <2>. QED BY <1>1, <2>3, <2>5, <2>6 DEF Bounded, RowBound
<1>. QED BY <1>2, <1>3

LEMMA MaintenanceBound ==
  ASSUME IInv, IInv', Bounded, NEW r \in Requests, MaintenanceWrite(r)
  PROVE  Bounded'
<1>. DEFINE f == req[r].found
<1>1. UNCHANGED <<account, answered>>
  BY DEF MaintenanceWrite, ghosts
<1>2. f \in Families \cup {None}
  BY DEF IInv, Sound, RowInv, RequestInv, RequestOf
<1>3. CASE f = None
  <2>1. PICK g \in Fresh :
          /\ row' = [h \in Families |-> IF h # g THEN NoRow ELSE
               NewRow(IF req[r].seen = "erasure_pending" THEN "sentinel" ELSE "live")]
          /\ drawn' = drawn \cup {g}
          /\ Answer(r, None, [fam |-> g, purpose |-> "maintenance"])
    BY <1>3 DEF MaintenanceWrite
  <2>2. TokenBound' /\ faults' \in 0..MaxFaults
    BY <2>1, AnswerBound DEF Bounded
  <2>3. Stored' \in SUBSET {g}
    BY <2>1 DEF Stored, NoRow
  <2>4. Cardinality(Stored') <= MaxSlots
    <3>1. IsFiniteSet({g}) /\ Cardinality({g}) = 1
      BY FS_Singleton
    <3>2. Cardinality(Stored') <= 1 /\ Cardinality(Stored') \in Nat
      BY <2>3, <3>1, FS_Subset, FS_CardinalityType
    <3>. QED BY <3>2, SessionAssumption
  <2>5. \A h \in Families : row'[h].gen <= MaxGen /\ row'[h].born <= Cardinality(drawn')
    <3>1. /\ Cardinality(drawn) <= Cardinality(drawn')
          /\ Cardinality(drawn) \in Nat /\ Cardinality(drawn') \in Nat
      BY <2>1, FS_Subset, FS_CardinalityType DEF IInv, Sound, RowInv
    <3>. QED BY <2>1, <3>1, SessionAssumption DEF NewRow, NoRow
  <2>. QED BY <1>1, <2>2, <2>4, <2>5 DEF Bounded, RowBound
<1>4. CASE /\ f # None /\ UNCHANGED <<row, drawn>>
           /\ Answer(r, None, [fam |-> f, purpose |-> "maintenance"])
  <2>1. RowBound'
    BY <1>4 DEF Bounded, RowBound, Stored
  <2>2. TokenBound' /\ faults' \in 0..MaxFaults
    BY <1>4, AnswerBound DEF Bounded
  <2>. QED BY <1>1, <2>1, <2>2 DEF Bounded
<1>. QED BY <1>3, <1>4 DEF MaintenanceWrite

LEMMA RenewBound ==
  ASSUME IInv, IInv', Bounded, NEW r \in Requests, MaintenanceRenew(r)
  PROVE  Bounded'
<1>. DEFINE f == req[r].found
<1>1. UNCHANGED <<account, drawn, answered>> /\ req[r].at = "maint_renew"
  BY DEF MaintenanceRenew, ghosts, At
<1>2. f \in Families
  BY <1>1 DEF IInv, Sound, RowInv, TokenInv
<1>3. CASE Refuse(r) /\ UNCHANGED row
  <2>1. RowBound' /\ UNCHANGED faults
    BY <1>1, <1>3 DEF Bounded, RowBound, Stored, Refuse
  <2>2. TokenBound'
    BY <1>3, Presented, StayBound DEF Refuse, Bounded, browser
  <2>. QED BY <1>1, <2>1, <2>2 DEF Bounded
<1>4. CASE /\ row' = [row EXCEPT ![f].expired = FALSE]
           /\ Answer(r, None, [fam |-> f, purpose |-> "maintenance"])
  <2>1. \A h \in Families : /\ row'[h].state = row[h].state
                            /\ row'[h].gen = row[h].gen /\ row'[h].born = row[h].born
    BY <1>2, <1>4 DEF IInv, Sound, RowInv, Row
  <2>2. RowBound'
    BY <1>1, <2>1, RowsBounded DEF IInv, Sound, Bounded
  <2>3. TokenBound' /\ faults' \in 0..MaxFaults
    BY <1>4, AnswerBound DEF Bounded
  <2>. QED BY <1>1, <2>2, <2>3 DEF Bounded
<1>. QED BY <1>3, <1>4 DEF MaintenanceRenew

LEMMA RotateBound ==
  ASSUME IInv, IInv', Bounded, NEW r \in Requests, RotateCas(r)
  PROVE  Bounded'
<1>. DEFINE t == req[r].token
<1>1. UNCHANGED <<account, drawn>> /\ req[r].at = "cas"
  BY DEF RotateCas, At
<1>2. t # None /\ t.fam \in Families /\ t.gen \in Nat /\ t.gen < MaxGen
  BY <1>1 DEF IInv, Sound, RowInv, RequestInv, RequestOf, RefreshOf, Bounded, TokenBound
<1>3. CASE Usable(t.fam) /\ row[t.fam].gen = t.gen
  <2>1. Rotated(r)
    BY <1>3 DEF RotateCas
  <2>2. row' = [row EXCEPT ![t.fam].gen = @ + 1] /\ answered' = answered \cup {t}
    BY <2>1 DEF Rotated, Answered
  <2>3. /\ \A h \in Families : row'[h].state = row[h].state /\ row'[h].born = row[h].born
        /\ \A h \in Families : row'[h].gen = IF h = t.fam THEN row[h].gen + 1 ELSE row[h].gen
    BY <1>2, <2>2 DEF IInv, Sound, RowInv, Row
  <2>4. row[t.fam].gen + 1 <= MaxGen
    BY <1>2, <1>3, SessionAssumption
  <2>5. Stored' = Stored
    BY <2>3 DEF Stored
  <2>6. RowBound'
    BY <1>1, <2>3, <2>4, <2>5 DEF Bounded, RowBound
  <2>7. Answer(r, [fam |-> t.fam, gen |-> row[t.fam].gen + 1],
               [fam |-> t.fam, purpose |-> "session"])
    BY <2>1 DEF Rotated
  <2>8. TokenBound' /\ faults' \in 0..MaxFaults
    BY <2>4, <2>7, AnswerBound DEF Bounded
  <2>9. \A u \in answered' : u.gen < MaxGen
    BY <1>2, <2>2 DEF Bounded
  <2>. QED BY <1>1, <2>6, <2>8, <2>9 DEF Bounded
<1>4. CASE Go(r, "inspect") /\ UNCHANGED <<row, browser, ghosts, faults>>
  <2>1. RowBound' /\ UNCHANGED answered
    BY <1>1, <1>4 DEF Bounded, RowBound, Stored, ghosts
  <2>2. TokenBound'
    BY <1>4, Presented, StayBound DEF Bounded
  <2>. QED BY <1>1, <1>4, <2>1, <2>2 DEF Bounded
<1>. QED BY <1>3, <1>4 DEF RotateCas

\* Reads, starts and refusals leave the rows alone.
LEMMA QuietBound ==
  ASSUME Bounded, UNCHANGED <<row, drawn>>, \A t \in answered' : t.gen < MaxGen, TokenBound',
         account' \in BOOLEAN, faults' \in 0..MaxFaults
  PROVE  Bounded'
BY DEF Bounded, RowBound, Stored

LEMMA ReadBound ==
  ASSUME IInv, Bounded, NEW r \in Requests,
         CreateAccount(r) \/ ReadUser(r) \/ ReadAgain(r) \/ MaintenanceRead(r)
         \/ RotateRead(r) \/ RotateFails(r) \/ RotateInspect(r) \/ LogoutRead(r)
  PROVE  Bounded'
<1>1. UNCHANGED <<row, drawn>> /\ account' \in BOOLEAN
  BY DEF Bounded, CreateAccount, ReadUser, ReadAgain, MaintenanceRead, RotateRead,
         RotateFails, RotateInspect, LogoutRead, store
<1>2. \A t \in answered' : t.gen < MaxGen
  <2>1. CASE UNCHANGED ghosts
    BY <2>1 DEF Bounded, ghosts
  <2>2. CASE RotateInspect(r)
    <3>1. answered' \in {answered, answered \cup {req[r].token}}
      BY <2>2 DEF RotateInspect, Answered
    <3>2. req[r].token # None
      BY <2>2 DEF RotateInspect, At, IInv, Sound, RequestInv
    <3>. QED BY <3>1, <3>2 DEF Bounded, TokenBound
  <2>. QED BY <2>1, <2>2 DEF CreateAccount, ReadUser, ReadAgain, MaintenanceRead, RotateRead,
         RotateFails, LogoutRead
<1>3. CASE UNCHANGED <<browser, faults>>
           /\ \/ Refuse(r) \/ \E place : Go(r, place)
              \/ \E place, seen, found : Learn(r, place, seen, found)
  BY <1>1, <1>2, <1>3, Presented, StayBound, QuietBound DEF Bounded
<1>4. CASE RefuseRefresh(r)
  BY <1>1, <1>2, <1>4, AnswerBound, QuietBound DEF Bounded, RefuseRefresh
<1>5. CASE RotateFails(r)
  <2>1. \A q \in Requests : req'[q].token \in {req[q].token, None}
    BY <1>5 DEF RotateFails, Idle, IInv, Sound, RequestInv
  <2>2. UNCHANGED browser /\ faults' \in 0..MaxFaults
    BY <1>5, SessionAssumption DEF RotateFails, Bounded
  <2>. QED BY <1>1, <1>2, <2>1, <2>2, StayBound, QuietBound DEF Bounded
<1>6. ASSUME CreateAccount(r) \/ ReadAgain(r)
      PROVE  UNCHANGED <<browser, faults>>
             /\ \/ Refuse(r) \/ \E place : Go(r, place)
                \/ \E place, seen, found : Learn(r, place, seen, found)
  <2>1. UNCHANGED <<browser, faults>>
    BY <1>6 DEF CreateAccount, ReadAgain, Refuse
  <2>2. \/ Refuse(r) \/ \E place : Go(r, place)
        \/ \E place, seen, found : Learn(r, place, seen, found)
    <3>1. Refuse(r) \/ Go(r, "enrol") \/ Learn(r, "maint_read", vault, None)
      BY <1>6 DEF CreateAccount, ReadAgain
    <3>. QED BY <3>1
  <2>. QED BY <2>1, <2>2
<1>7. ASSUME ReadUser(r) \/ MaintenanceRead(r) \/ LogoutRead(r)
      PROVE  UNCHANGED <<browser, faults>>
             /\ \E place, seen, found : Learn(r, place, seen, found)
  BY <1>7 DEF ReadUser, MaintenanceRead, LogoutRead
<1>8. ASSUME RotateRead(r) \/ RotateInspect(r), ~RefuseRefresh(r)
      PROVE  UNCHANGED <<browser, faults>> /\ \E place : Go(r, place)
  BY <1>8 DEF RotateRead, RotateInspect
<1>. QED BY <1>3, <1>4, <1>5, <1>6, <1>7, <1>8

LEMMA StartsBound ==
  ASSUME IInv, Bounded, NEW r \in Requests, NEW b \in Browsers,
         Register(r, b) \/ Login(r, b) \/ Refresh(r, b) \/ Logout(r, b)
  PROVE  Bounded'
<1>1. UNCHANGED <<row, drawn, answered, account, faults, browser>>
  BY DEF Register, Login, Refresh, Logout, store, ghosts
<1>2. PICK place, token, fams :
        /\ Start(r, b, place, token, fams)
        /\ token # None => token.gen < MaxGen
  BY DEF Register, Login, Refresh, Logout
<1>3. TokenBound'
  BY <1>1, <1>2, StartBound DEF Bounded
<1>. QED BY <1>1, <1>3, QuietBound DEF Bounded

\* Revocation, logout, expiry and maintenance store nothing new.
LEMMA LessBound ==
  ASSUME IInv, IInv', Bounded, UNCHANGED <<account, drawn>>,
         \A t \in answered' : t.gen < MaxGen, TokenBound', faults' \in 0..MaxFaults,
         \A f \in Families :
           \/ row'[f] = NoRow \/ row'[f] = row[f]
           \/ /\ row[f].state # "none"
              /\ row'[f].gen = row[f].gen /\ row'[f].born = row[f].born
  PROVE  Bounded'
<1>1. \A f \in Families :
        /\ row'[f].gen = row[f].gen \/ row'[f].gen = 0
        /\ row'[f].born = row[f].born \/ row'[f].born = 0
  BY DEF NoRow
<1>2. \A f \in Families : row'[f].state # "none" => row[f].state # "none"
  BY DEF NoRow
<1>3. RowBound'
  BY <1>1, <1>2, RowsBounded DEF IInv, Sound, Bounded
<1>. QED BY <1>3 DEF Bounded

LEMMA RevokedBound ==
  ASSUME RowInv, NEW f \in Families
  PROVE  \/ RevokeRow(f) = row[f]
         \/ /\ row[f].state # "none"
            /\ RevokeRow(f).gen = row[f].gen /\ RevokeRow(f).born = row[f].born
BY DEF RowInv, Row, RevokeRow

LEMMA WriteBound ==
  ASSUME IInv, IInv', Bounded, NEW r \in Requests, RotateRevoke(r) \/ LogoutWrite(r)
  PROVE  Bounded'
<1>1. UNCHANGED <<account, drawn>>
  BY DEF RotateRevoke, LogoutWrite
<1>2. PICK c, s : Answer(r, c, s) /\ c = None
  BY DEF RotateRevoke, RefuseRefresh, LogoutWrite
<1>3. TokenBound' /\ faults' \in 0..MaxFaults
  BY <1>2, AnswerBound DEF Bounded
<1>4. row \in [Families -> Row] /\ RowInv
  BY DEF IInv, Sound, RowInv
<1>5. \A f \in Families : row'[f] \in {NoRow, row[f], RevokeRow(f)}
  BY <1>4 DEF RotateRevoke, LogoutWrite
<1>6. \A t \in answered' : t.gen < MaxGen
  <2>1. CASE RotateRevoke(r)
    <3>1. answered' = answered \cup {req[r].token} /\ req[r].token # None
      BY <2>1 DEF RotateRevoke, Answered, At, IInv, Sound, RequestInv
    <3>. QED BY <3>1 DEF Bounded, TokenBound
  <2>2. CASE LogoutWrite(r)
    BY <2>2 DEF LogoutWrite, Bounded
  <2>. QED BY <2>1, <2>2
<1>. QED BY <1>1, <1>3, <1>4, <1>5, <1>6, RevokedBound, LessBound

LEMMA OutsideBound ==
  ASSUME IInv, IInv', Bounded,
         \/ \E f \in Families : Expire(f)
         \/ \E b \in Browsers, to \in Pending : BeginMaintenance(b, to)
         \/ EndMaintenance
  PROVE  Bounded'
<1>1. UNCHANGED <<account, drawn, answered, browser, req>> /\ faults' \in 0..MaxFaults
  BY SessionAssumption DEF Expire, BeginMaintenance, EndMaintenance, ghosts, Bounded
<1>2. TokenBound'
  BY <1>1 DEF Bounded, TokenBound, browser
<1>3. row \in [Families -> Row] /\ RowInv
  BY DEF IInv, Sound, RowInv
<1>4. ASSUME NEW f \in Families, Expire(f), NEW g \in Families
      PROVE  row'[g] = row[g] \/ (/\ row[g].state # "none"
               /\ row'[g].gen = row[g].gen /\ row'[g].born = row[g].born)
  BY <1>3, <1>4 DEF Expire, Row
<1>5. ASSUME NEW b \in Browsers, NEW to \in Pending, BeginMaintenance(b, to), NEW g \in Families
      PROVE  row'[g] = row[g] \/ (/\ row[g].state # "none"
               /\ row'[g].gen = row[g].gen /\ row'[g].born = row[g].born)
  <2>1. CASE g # bearer[b].fam
    <3>1. row'[g] = RevokeRow(g)
      BY <1>5, <2>1 DEF BeginMaintenance
    <3>. QED BY <1>3, <3>1, RevokedBound
  <2>2. CASE g = bearer[b].fam
    <3>1. row[g].state # "none"
      BY <1>5, <2>2 DEF BeginMaintenance, MaintenanceAuthority
    <3>2. row'[g] = [row[g] EXCEPT !.state = IF to = "erasure_pending" THEN "sentinel" ELSE @]
      BY <1>5, <2>2 DEF BeginMaintenance
    <3>. QED BY <1>3, <3>1, <3>2 DEF Row
  <2>. QED BY <2>1, <2>2
<1>6. ASSUME EndMaintenance, NEW g \in Families
      PROVE  row'[g] \in {NoRow, row[g], RevokeRow(g)}
  BY <1>6 DEF EndMaintenance
<1>7. \A t \in answered' : t.gen < MaxGen
  BY <1>1 DEF Bounded
<1>. QED BY <1>1, <1>2, <1>3, <1>4, <1>5, <1>6, <1>7, RevokedBound, LessBound

LEMMA InitBound ==
  ASSUME Init
  PROVE  Bounded
<1>1. Stored = {} /\ drawn = {}
  BY DEF Init, Stored, NoRow
<1>2. Cardinality(Stored) = 0 /\ Cardinality(drawn) = 0
  BY <1>1, FS_EmptySet
<1>. QED BY <1>2, SessionAssumption DEF Init, Bounded, RowBound, TokenBound, NoRow, Idle

LEMMA StepBound ==
  ASSUME IInv, IInv', Bounded, [Next]_vars
  PROVE  Bounded'
<1>1. CASE UNCHANGED vars
  BY <1>1 DEF vars, store, browser, ghosts, Bounded, RowBound, TokenBound, Stored
<1>2. ASSUME NEW r \in Requests, RequestStep(r) PROVE Bounded'
  BY <1>2, ReadBound, IssueBound, MaintenanceBound, RenewBound, RotateBound, WriteBound
     DEF RequestStep
<1>. QED BY <1>1, <1>2, StartsBound, OutsideBound DEF Next

-----------------------------------------------------------------------------
(* The properties                                                          *)

\* Every variable keeps its type, and auth_sessions never holds more rows than
\* MAX_ACTIVE_REFRESH_SESSIONS: _available_session_slot makes room in the same transaction.
THEOREM SessionsTypeCorrect == Spec => []TypeOK
<1>1. Init => IInv /\ Bounded
  BY InitInv, InitBound
<1>2. IInv /\ Bounded /\ [Next]_vars => (IInv /\ Bounded)'
  BY StepInv, StepBound
<1>3. ASSUME IInv, Bounded PROVE TypeOK
  <2>1. Cardinality(drawn) \in Nat /\ Stored \subseteq drawn
    BY <1>3, StoredFinite DEF IInv, Sound
  <2>2. row \in [Families -> [state : {"none", "live", "revoked", "sentinel"},
                             gen : 0..MaxGen, expired : BOOLEAN, born : 0..Cardinality(drawn)]]
    BY <1>3, <2>1, SessionAssumption DEF IInv, Sound, RowInv, Row, Bounded, RowBound
  <2>3. cookie \in [Browsers -> Token \cup {None}] /\ bearer \in [Browsers -> Bearer \cup {None}]
    BY <1>3, SessionAssumption
       DEF IInv, Sound, RowInv, HeldInv, RefreshOf, BearerOf, Token, Bearer, Bounded, TokenBound
  <2>4. \A r \in Requests : req[r].token \in Token \cup {None}
    BY <1>3, SessionAssumption
       DEF IInv, Sound, RowInv, RequestInv, RequestOf, RefreshOf, Token, Bounded, TokenBound
  <2>5. req \in [Requests -> [at : Places, by : Browsers \cup {None}, token : Token \cup {None},
          fams : SUBSET Families, seen : Lifecycles, found : Families \cup {None}]]
    BY <1>3, <2>4 DEF IInv, Sound, RowInv, RequestInv, RequestOf
  <2>6. answered \subseteq Token /\ left \subseteq Families /\ twice \subseteq Families
    BY <1>3, SessionAssumption DEF IInv, Sound, RowInv, HeldInv, RefreshOf, Token, Bounded
  <2>. QED BY <1>3, <2>1, <2>2, <2>3, <2>5, <2>6
           DEF TypeOK, Places, IInv, Sound, RowInv, Bounded, RowBound
<1>. QED BY <1>1, <1>2, <1>3, PTL DEF Spec

\* A logout that reported a family revoked is final (revoke_presented_sessions),
\* whatever refreshes, logins, maintenance or expiries were in flight.
THEOREM LogoutFinal == Spec => []LogoutIsFinal
<1>1. IInv => LogoutIsFinal
  BY DEF IInv
<1>. QED BY <1>1, SpecInv, PTL

\* No step gives a family drawn before life, a row or an older token again, nor time to
\* one that lives (issue_auth_session draws a new identifier, nothing clears revoked_at).
THEOREM FamiliesOnlyFade == Spec => [][RowsKept]_vars
<1>1. IInv /\ [Next]_vars => [RowsKept]_vars
  BY StepInv
<1>. QED BY <1>1, SpecInv, PTL DEF Spec

\* While an operation is pending at most one family lives (issue_auth_session and
\* begin_vault_maintenance decide under BEGIN IMMEDIATE).
THEOREM OnePending == Spec => []OnePendingFamily
<1>1. ASSUME IInv PROVE OnePendingFamily
  <2>. DEFINE lives == {f \in Families : row[f].state = "live"}
  <2>1. ASSUME vault # "ready" PROVE Cardinality(lives) <= 1
    <3>1. CASE lives = {}
      BY <3>1, FS_EmptySet
    <3>2. CASE lives # {}
      <4>1. PICK f \in lives : TRUE
        BY <3>2
      <4>2. lives = {f}
        BY <1>1, <2>1, <4>1 DEF IInv, OneLives
      <4>3. Cardinality({f}) = 1
        BY FS_Singleton
      <4>. HIDE DEF lives
      <4>. QED BY <4>2, <4>3
    <3>. QED BY <3>1, <3>2
  <2>. QED BY <2>1 DEF OnePendingFamily
<1>. QED BY <1>1, SpecInv, PTL

\* Only a rotation writes the rows and ends a request that is at its update.
LEMMA OwnStep ==
  ASSUME IInv, [Next]_vars, NEW r \in Requests, At(r, "cas"), req'[r].at = "idle", row' # row
  PROVE  RotateCas(r)
<1>1. CASE UNCHANGED vars
  BY <1>1 DEF vars, store
<1>2. ASSUME NEW q \in Requests, RequestStep(q), q # r PROVE FALSE
  <2>1. req'[r] = req[r]
    BY <1>2 DEF RequestStep, CreateAccount, ReadUser, ReadAgain, Issue, MaintenanceRead,
       MaintenanceWrite, MaintenanceRenew, RotateRead, RotateCas, Rotated, RotateInspect,
       RotateRevoke, RotateFails, LogoutRead, LogoutWrite, Refuse, RefuseRefresh, Answer,
       Go, Learn, IInv, Sound, RequestInv
  <2>. QED BY <2>1 DEF At
<1>3. ASSUME NEW q \in Requests, NEW b \in Browsers,
             Register(q, b) \/ Login(q, b) \/ Refresh(q, b) \/ Logout(q, b)
      PROVE  FALSE
  BY <1>3 DEF Register, Login, Refresh, Logout, store
<1>4. ASSUME (\E f \in Families : Expire(f)) \/ EndMaintenance
             \/ \E b \in Browsers, to \in Pending : BeginMaintenance(b, to)
      PROVE  FALSE
  BY <1>4 DEF Expire, EndMaintenance, BeginMaintenance, At
<1>5. ASSUME RequestStep(r) PROVE RotateCas(r)
  BY <1>5 DEF RequestStep, CreateAccount, ReadUser, ReadAgain, Issue, Issuing,
     MaintenanceRead, MaintenanceWrite, MaintenanceRenew, RotateRead, RotateInspect,
     RotateRevoke, RotateFails, LogoutRead, LogoutWrite, At, store
<1>. QED BY <1>1, <1>2, <1>3, <1>4, <1>5 DEF Next

\* Two tabs that present one token: the conditional update of rotate_refresh_session
\* lets one of them exchange it, and no later request.
THEOREM TokenExchangedOnce == Spec => ExchangedOnce
<1>1. ASSUME IInv, [Next]_vars, NEW r \in Requests, At(r, "cas"), req'[r].at = "idle", row' # row
      PROVE  req[r].token \notin answered
  <2>1. RotateCas(r)
    BY <1>1, OwnStep
  <2>. DEFINE t == req[r].token
  <2>2. Usable(t.fam) /\ row[t.fam].gen = t.gen
    BY <1>1, <2>1 DEF RotateCas
  <2>3. t.gen \in Nat
    BY <1>1 DEF IInv, Sound, RequestInv, RequestOf, RefreshOf, At
  <2>. QED BY <1>1, <2>2, <2>3 DEF IInv, TokenInv, Past
<1>2. IInv /\ [Next]_vars =>
        [\A r \in Requests :
           At(r, "cas") /\ req'[r].at = "idle" /\ row' # row => req[r].token \notin answered]_vars
  BY <1>1
<1>. QED BY <1>2, SpecInv, PTL DEF Spec, ExchangedOnce

\* Of two answers to presentations of one token neither leaves a session: the loser of
\* the conditional update looks at the row once more and revokes what lives, and what is
\* dead stays dead, whatever else was in flight or comes later.
THEOREM TheftRaceEnds == Spec => []NeitherSideKeeps
<1>1. IInv => NeitherSideKeeps
  BY DEF IInv
<1>. QED BY <1>1, SpecInv, PTL

===========================================================================
