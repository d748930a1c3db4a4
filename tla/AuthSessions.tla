---------------------------- MODULE AuthSessions ----------------------------
(***************************************************************************)
(* Browser sessions: families of one refresh token each, rotated by a      *)
(* conditional update, revoked by a logout, a replay or maintenance        *)
(* (backend/services/auth_sessions.py, api/routes/auth.py, api/deps.py).   *)
(* SQLite runs every write transaction alone; a read outside one is a step *)
(* of its own, and so may be stale when it is used.  Responses may be lost.*)
(***************************************************************************)
EXTENDS Naturals, FiniteSets

CONSTANTS Families,   \* session identifiers that can be drawn
          Browsers,   \* each holds a cookie, shared by its tabs, and a bearer
          Requests,   \* requests in progress at a time
          MaxSlots,   \* MAX_ACTIVE_REFRESH_SESSIONS
          MaxGen,     \* rotations of one family that are presented
          MaxFaults,  \* responses that never arrive, families that expire
          None

ASSUME SessionAssumption ==
  /\ None \notin Families /\ MaxSlots \in Nat \ {0} /\ MaxGen \in Nat /\ MaxFaults \in Nat

VARIABLES
  account,    \* the account is registered
  vault,      \* User.vault_lifecycle_state
  row,        \* the auth_sessions row of each family
  drawn,      \* identifiers already drawn
  cookie, bearer,   \* what each browser holds
  req,        \* what each request is doing
  left,       \* families a logout reported as revoked
  answered,   \* refresh tokens the database exchanged or refused
  twice,      \* families of which one token was answered a second time
  faults

browser == <<cookie, bearer>>
store == <<account, row, drawn>>
ghosts == <<left, answered, twice>>
vars == <<store, vault, browser, req, ghosts, faults>>

Pending == {"reset_pending", "restore_pending", "erasure_pending"}
Lifecycles == {"ready"} \cup Pending
Token == [fam : Families, gen : 0..MaxGen]
Bearer == [fam : Families, purpose : {"session", "maintenance"}]

\* state: "live", "revoked", or "sentinel", revoked with the erasure-pending digest;
\* born: the rank of created_at, since a family is drawn when its row is made.
NoRow == [state |-> "none", gen |-> 0, expired |-> FALSE, born |-> 0]
NewRow(state) == [state |-> state, gen |-> 0, expired |-> FALSE, born |-> Cardinality(drawn)]
Stored == {f \in Families : row[f].state # "none"}
Idle == [at |-> "idle", by |-> None, token |-> None, fams |-> {}, seen |-> "ready",
         found |-> None]

TypeOK ==
  /\ account \in BOOLEAN /\ vault \in Lifecycles
  /\ row \in [Families -> [state : {"none", "live", "revoked", "sentinel"},
                           gen : 0..MaxGen, expired : BOOLEAN, born : 0..Cardinality(drawn)]]
  /\ Cardinality(Stored) <= MaxSlots /\ Stored \subseteq drawn /\ drawn \subseteq Families
  /\ cookie \in [Browsers -> Token \cup {None}] /\ bearer \in [Browsers -> Bearer \cup {None}]
  /\ req \in [Requests -> [at : {"idle", "register", "enrol", "issue", "password", "again", "maint_read",
       "maint_write", "maint_renew", "read", "cas", "inspect", "revoke", "logout_read", "logout_write"},
       by : Browsers \cup {None}, token : Token \cup {None}, fams : SUBSET Families,
       seen : Lifecycles, found : Families \cup {None}]]
  /\ answered \subseteq Token /\ left \subseteq Families /\ twice \subseteq Families /\ faults \in 0..MaxFaults

Init ==
  /\ account \in BOOLEAN /\ vault = "ready"
  /\ row = [f \in Families |-> NoRow] /\ drawn = {}
  /\ cookie = [b \in Browsers |-> None] /\ bearer = [b \in Browsers |-> None]
  /\ req = [r \in Requests |-> Idle]
  /\ left = {} /\ answered = {} /\ twice = {} /\ faults = 0

-----------------------------------------------------------------------------
(* Requests and their answers                                              *)

At(r, place) == req[r].at = place
Go(r, place) == req' = [req EXCEPT ![r].at = place]
Start(r, b, place, token, fams) ==
  /\ At(r, "idle")
  /\ req' = [req EXCEPT ![r] = [at |-> place, by |-> b, token |-> token, fams |-> fams,
                                seen |-> "ready", found |-> None]]

\* What a request read, the lifecycle or a family, is kept until it is used.
Learn(r, place, seen, found) ==
  req' = [req EXCEPT ![r] = [at |-> place, by |-> req[r].by, token |-> req[r].token,
                             fams |-> req[r].fams, seen |-> seen, found |-> found]]

\* The answer sets the cookie and the bearer, clears them, or never arrives.
Answer(r, newCookie, newBearer) ==
  /\ req' = [req EXCEPT ![r] = Idle]
  /\ \/ /\ cookie' = [cookie EXCEPT ![req[r].by] = newCookie]
        /\ bearer' = [bearer EXCEPT ![req[r].by] = newBearer]
        /\ UNCHANGED faults
     \/ faults < MaxFaults /\ faults' = faults + 1 /\ UNCHANGED browser

\* A refusal leaves the browser what it holds; a failed refresh clears its cookie.
Refuse(r) == req' = [req EXCEPT ![r] = Idle] /\ UNCHANGED <<browser, faults>>
RefuseRefresh(r) == Answer(r, None, bearer[req[r].by])

Usable(f) == row[f].state = "live" /\ ~row[f].expired
Fresh == Families \ drawn

-----------------------------------------------------------------------------
(* register and login                                                      *)

Register(r, b) ==
  /\ Start(r, b, "register", None, {}) /\ ~account
  /\ UNCHANGED <<store, vault, browser, ghosts, faults>>

\* The first look at the name is advisory, the unique key decides.
CreateAccount(r) ==
  /\ At(r, "register")
  /\ IF account THEN Refuse(r) ELSE Go(r, "enrol") /\ UNCHANGED <<browser, faults>>
  /\ account' = TRUE
  /\ UNCHANGED <<row, drawn, vault, ghosts>>

Login(r, b) ==
  /\ Start(r, b, "password", None, {}) /\ account
  /\ UNCHANGED <<store, vault, browser, ghosts, faults>>

\* The user row is read once, then the password is verified.
ReadUser(r) ==
  /\ At(r, "password")
  /\ Learn(r, IF vault = "ready" THEN "issue" ELSE "maint_read", vault, None)
  /\ UNCHANGED <<store, vault, browser, ghosts, faults>>

\* A login that met a pending vault after all reads the row once more; a vault that is
\* ready again by then ends it with an error.
ReadAgain(r) ==
  /\ At(r, "again")
  /\ IF vault = "ready"
     THEN Refuse(r)
     ELSE Learn(r, "maint_read", vault, None) /\ UNCHANGED <<browser, faults>>
  /\ UNCHANGED <<store, vault, ghosts>>

Dead == {f \in Stored : ~Usable(f)}

\* Revoked and expired rows go; when every slot is taken, so does the oldest family.
Oldest(fams) == CHOOSE f \in fams : \A g \in fams : row[f].born <= row[g].born

Evicted ==
  LET kept == Stored \ Dead IN
  Dead \cup (IF Cardinality(kept) >= MaxSlots THEN {Oldest(kept)} ELSE {})

Issuing(r) == At(r, "issue") \/ At(r, "enrol")

\* Fault: the lifecycle read before the password check is trusted.
Issue_Stale(r) ==
  /\ Issuing(r)
  /\ \E f \in Fresh :
       /\ row' = [g \in Families |-> IF g = f THEN NewRow("live")
                                     ELSE IF g \in Evicted THEN NoRow ELSE row[g]]
       /\ drawn' = drawn \cup {f}
       /\ Answer(r, [fam |-> f, gen |-> 0], [fam |-> f, purpose |-> "session"])
  /\ UNCHANGED <<account, vault, ghosts>>

\* issue_auth_session reads the lifecycle again under BEGIN IMMEDIATE; when the vault is
\* pending by then, a login goes on to a maintenance bearer and a registration fails.
Issue(r) ==
  /\ Issuing(r)
  /\ IF vault = "ready"
     THEN \E f \in Fresh :
            /\ row' = [g \in Families |-> IF g = f THEN NewRow("live")
                                          ELSE IF g \in Evicted THEN NoRow ELSE row[g]]
            /\ drawn' = drawn \cup {f}
            /\ Answer(r, [fam |-> f, gen |-> 0], [fam |-> f, purpose |-> "session"])
     ELSE /\ IF At(r, "issue") THEN Go(r, "again") /\ UNCHANGED <<browser, faults>>
                              ELSE Refuse(r)
          /\ UNCHANGED <<row, drawn>>
  /\ UNCHANGED <<account, vault, ghosts>>

\* _issue_maintenance_access_locked: one at a time, on the lifecycle seen before.
MaintenanceRead(r) ==
  /\ At(r, "maint_read")
  /\ \A q \in Requests : ~At(q, "maint_write") /\ ~At(q, "maint_renew")
  /\ LET good == {f \in Families : IF req[r].seen = "erasure_pending"
                                   THEN row[f].state = "sentinel" ELSE Usable(f)} IN
     \E f \in good \cup {None} :
       /\ f = None <=> good = {}
       /\ Learn(r, IF f # None /\ row[f].expired THEN "maint_renew" ELSE "maint_write",
                req[r].seen, f)
  /\ UNCHANGED <<store, vault, browser, ghosts, faults>>

\* Without a family to go on with, every row is replaced by one; with one that has
\* not expired nothing is written.
MaintenanceWrite(r) ==
  /\ At(r, "maint_write")
  /\ IF req[r].found = None
     THEN \E g \in Fresh :
            /\ row' = [h \in Families |-> IF h # g THEN NoRow ELSE
                         NewRow(IF req[r].seen = "erasure_pending" THEN "sentinel" ELSE "live")]
            /\ drawn' = drawn \cup {g}
            /\ Answer(r, None, [fam |-> g, purpose |-> "maintenance"])
     ELSE /\ Answer(r, None, [fam |-> req[r].found, purpose |-> "maintenance"])
          /\ UNCHANGED <<row, drawn>>
  /\ UNCHANGED <<account, vault, ghosts>>

\* A sentinel that had expired when it was read is renewed, which fails when its row
\* has gone meanwhile.
MaintenanceRenew(r) ==
  /\ At(r, "maint_renew")
  /\ LET f == req[r].found IN
     IF row[f].state = "none"
     THEN Refuse(r) /\ UNCHANGED row
     ELSE /\ row' = [row EXCEPT ![f].expired = FALSE]
          /\ Answer(r, None, [fam |-> f, purpose |-> "maintenance"])
  /\ UNCHANGED <<account, drawn, vault, ghosts>>

-----------------------------------------------------------------------------
(* refresh                                                                 *)

\* Every tab of a browser presents the cookie it has at that moment.
Refresh(r, b) ==
  /\ cookie[b] # None /\ cookie[b].gen < MaxGen
  /\ Start(r, b, "read", cookie[b], {})
  /\ UNCHANGED <<store, vault, browser, ghosts, faults>>

RotateRead(r) ==
  /\ At(r, "read")
  /\ IF vault = "ready" THEN Go(r, "cas") /\ UNCHANGED <<browser, faults>> ELSE RefuseRefresh(r)
  /\ UNCHANGED <<store, vault, ghosts>>

\* The database has answered the presentation of this token, with a new one or none.
Answered(t) ==
  /\ answered' = answered \cup {t}
  /\ twice' = IF t \in answered THEN twice \cup {t.fam} ELSE twice
  /\ UNCHANGED left

Rotated(r) ==
  LET f == req[r].token.fam IN
  /\ row' = [row EXCEPT ![f].gen = @ + 1]
  /\ Answer(r, [fam |-> f, gen |-> row[f].gen + 1], [fam |-> f, purpose |-> "session"])
  /\ Answered(req[r].token)

\* Fault: the update asks for a live family, not for the digest of this token.
RotateCas_AnyDigest(r) ==
  /\ At(r, "cas")
  /\ IF Usable(req[r].token.fam)
     THEN Rotated(r)
     ELSE Go(r, "inspect") /\ UNCHANGED <<row, browser, ghosts, faults>>
  /\ UNCHANGED <<account, drawn, vault>>

\* Fault: a revoked family is rotated all the same.
RotateCas_Revoked(r) ==
  /\ At(r, "cas")
  /\ LET t == req[r].token IN
     IF row[t.fam].state # "none" /\ row[t.fam].gen = t.gen
     THEN /\ row' = [row EXCEPT ![t.fam].gen = @ + 1, ![t.fam].state = "live"]
          /\ Answered(t)
          /\ Answer(r, [fam |-> t.fam, gen |-> t.gen + 1], [fam |-> t.fam, purpose |-> "session"])
     ELSE Go(r, "inspect") /\ UNCHANGED <<row, browser, ghosts, faults>>
  /\ UNCHANGED <<account, drawn, vault>>

\* One conditional update decides among the requests that present a token.
RotateCas(r) ==
  /\ At(r, "cas")
  /\ LET t == req[r].token IN
     IF Usable(t.fam) /\ row[t.fam].gen = t.gen
     THEN Rotated(r)
     ELSE Go(r, "inspect") /\ UNCHANGED <<row, browser, ghosts, faults>>
  /\ UNCHANGED <<account, drawn, vault>>

\* Fault: a token that lost the race is only refused.
RotateInspect_NoReplay(r) ==
  /\ At(r, "inspect")
  /\ RefuseRefresh(r) /\ Answered(req[r].token)
  /\ UNCHANGED <<store, vault>>

\* In a new transaction: an old token of a family that lives is a replay.
Replayed(t) == Usable(t.fam) /\ row[t.fam].gen # t.gen

RotateInspect(r) ==
  /\ At(r, "inspect")
  /\ IF Replayed(req[r].token)
     THEN Go(r, "revoke") /\ UNCHANGED <<browser, faults, answered, twice, left>>
     ELSE RefuseRefresh(r) /\ Answered(req[r].token)
  /\ UNCHANGED <<store, vault>>

RevokeRow(f) == IF row[f].state = "live" THEN [row[f] EXCEPT !.state = "revoked"] ELSE row[f]

RotateRevoke(r) ==
  /\ At(r, "revoke")
  /\ row' = [row EXCEPT ![req[r].token.fam] = RevokeRow(req[r].token.fam)]
  /\ RefuseRefresh(r) /\ Answered(req[r].token)
  /\ UNCHANGED <<account, drawn, vault>>

\* A statement or a commit fails: the transaction is rolled back and the request ends
\* with an error, so that the token was neither exchanged nor refused.
RotateFails(r) ==
  /\ At(r, "cas") \/ At(r, "inspect") \/ At(r, "revoke")
  /\ faults < MaxFaults /\ faults' = faults + 1
  /\ req' = [req EXCEPT ![r] = Idle]
  /\ UNCHANGED <<store, vault, browser, ghosts>>

-----------------------------------------------------------------------------
(* logout                                                                  *)

\* The families named by the cookie and by the bearer.
Named(b) == (IF cookie[b] = None THEN {} ELSE {cookie[b].fam})
            \cup (IF bearer[b] = None THEN {} ELSE {bearer[b].fam})

Logout(r, b) ==
  /\ Named(b) # {} /\ Start(r, b, "logout_read", None, Named(b))
  /\ UNCHANGED <<store, vault, browser, ghosts, faults>>

\* The first family is read before the transaction begins.
LogoutRead(r) ==
  /\ At(r, "logout_read")
  /\ \E f \in req[r].fams :
       Learn(r, "logout_write", req[r].seen, IF row[f].state = "sentinel" THEN f ELSE None)
  /\ UNCHANGED <<store, vault, browser, ghosts, faults>>

\* A sentinel is deleted, a live family revoked; a failed commit keeps both, but the
\* browser loses its cookie either way.
LogoutWrite(r) ==
  /\ At(r, "logout_write")
  /\ LET fams == req[r].fams
         gone == {f \in fams : row[f].state = "sentinel"
                               /\ (f = req[r].found \/ Cardinality(fams) > 1)} IN
     \/ /\ row' = [f \in Families |-> IF f \in gone THEN NoRow
                                      ELSE IF f \in fams THEN RevokeRow(f) ELSE row[f]]
        /\ left' = left \cup fams
        /\ Answer(r, None, None)
     \/ /\ Answer(r, None, bearer[req[r].by]) /\ UNCHANGED <<row, left>>
  /\ UNCHANGED <<account, drawn, vault, answered, twice>>

-----------------------------------------------------------------------------
(* Time and maintenance (career/deletion.py, modelled in VaultMaintenance) *)

Expire(f) ==
  /\ row[f].state # "none" /\ ~row[f].expired
  /\ row' = [row EXCEPT ![f].expired = TRUE]
  /\ faults < MaxFaults /\ faults' = faults + 1
  /\ UNCHANGED <<account, drawn, vault, browser, req, ghosts>>

\* Whose bearer get_vault_maintenance_authority accepts.
MaintenanceAuthority(t) ==
  /\ ~row[t.fam].expired
  /\ \/ vault = "ready" /\ t.purpose = "session" /\ row[t.fam].state = "live"
     \/ vault \in {"reset_pending", "restore_pending"} /\ t.purpose = "maintenance"
        /\ row[t.fam].state = "live"
     \/ vault = "erasure_pending" /\ t.purpose = "maintenance" /\ row[t.fam].state = "sentinel"

\* begin_vault_maintenance revokes every other family in the same commit.
BeginMaintenance(b, to) ==
  /\ bearer[b] # None /\ MaintenanceAuthority(bearer[b])
  /\ vault \in {"ready", to} \/ (to = "erasure_pending" /\ vault # "ready")
  /\ vault' = to
  /\ row' = [f \in Families |->
               IF f # bearer[b].fam THEN RevokeRow(f)
               ELSE [row[f] EXCEPT !.state = IF to = "erasure_pending" THEN "sentinel" ELSE @]]
  /\ UNCHANGED <<account, drawn, browser, req, ghosts, faults>>

\* A reset or an abandoned restore returns to ready; a finished restore revokes every
\* family, a finished erasure deletes them.
EndMaintenance ==
  /\ vault # "ready" /\ vault' = "ready"
  /\ \/ vault # "erasure_pending" /\ UNCHANGED row
     \/ vault = "restore_pending" /\ row' = [f \in Families |-> RevokeRow(f)]
     \/ vault = "erasure_pending" /\ row' = [f \in Families |-> NoRow]
  /\ UNCHANGED <<account, drawn, browser, req, ghosts, faults>>

RequestStep(r) ==
  \/ CreateAccount(r) \/ ReadUser(r) \/ ReadAgain(r) \/ Issue(r) \/ MaintenanceRead(r) \/ MaintenanceWrite(r)
  \/ MaintenanceRenew(r)
  \/ RotateRead(r) \/ RotateCas(r) \/ RotateInspect(r) \/ RotateRevoke(r) \/ RotateFails(r)
  \/ LogoutRead(r) \/ LogoutWrite(r)

Next ==
  \/ \E r \in Requests : RequestStep(r)
  \/ \E r \in Requests, b \in Browsers :
       Register(r, b) \/ Login(r, b) \/ Refresh(r, b) \/ Logout(r, b)
  \/ \E f \in Families : Expire(f)
  \/ \E b \in Browsers, to \in Pending : BeginMaintenance(b, to)
  \/ EndMaintenance

Spec == Init /\ [][Next]_vars

-----------------------------------------------------------------------------
(* Properties                                                              *)

\* A family that a logout reported as revoked never opens the vault or rotates again,
\* whatever refreshes, logins and maintenance were in flight (revoke_presented_sessions).
LogoutIsFinal == \A f \in left : row[f].state # "live"

\* A refresh token is exchanged at most once, and never after it was refused, also by
\* two tabs that present it at the same time (the conditional update of
\* rotate_refresh_session).
ExchangedOnce ==
  [][\A r \in Requests :
       At(r, "cas") /\ req'[r].at = "idle" /\ row' # row => req[r].token \notin answered]_vars

\* Of two presentations of one refresh token that the database has both answered, to
\* two tabs or to the browser and a copy of its cookie, neither leaves a session: the
\* family is dead, also the new token that one of them received, and stays dead whatever
\* was in flight or comes later (rotate_refresh_session, "so neither side of a theft
\* race keeps access").
NeitherSideKeeps == \A f \in twice : ~Usable(f)

\* While an operation is pending every family that was live before it began is gone but
\* the presented one, and a login cannot add an ordinary one: at most one family lives
\* (BEGIN IMMEDIATE in issue_auth_session and begin_vault_maintenance).
OnePendingFamily ==
  vault # "ready" => Cardinality({f \in Families : row[f].state = "live"}) <= 1

=============================================================================
