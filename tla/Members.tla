------------------------------- MODULE Members -------------------------------
(***************************************************************************)
(* Members, their passwords and their web sessions (api/v1/members,        *)
(* api/v1/web_auth, services/members, the second half of                   *)
(* services/agent_access, the console commands of admin) and the count of  *)
(* failed logins (services/rate_limit).                                    *)
(*                                                                         *)
(* A request is a handler thread.  It reads first, each statement by       *)
(* itself, and then commits once or several times: every commit is a step  *)
(* of its own, and what it does not read again is what it read before.     *)
(* SQLAlchemy writes a column only when it differs from the reading.  A    *)
(* password is the number of times that it was set; whoever guesses it,    *)
(* guesses the one that is in force when the guess is read.  One address   *)
(* from which all logins come; sessions run out at any moment.  Requests   *)
(* that are refused at their beginning leave no trace and are left out.    *)
(***************************************************************************)
EXTENDS Naturals, FiniteSets

CONSTANTS
    Member,         \* ids of members, numbers in the order of their creation
    Request,        \* handler threads
    Session,        \* ids of web sessions
    Scenes,         \* bound: what there is at the start and what is asked for
    MaxPassword,    \* bound on the passwords of a member
    MaxAttempts,    \* MAX_LOGIN_ATTEMPTS
    LoginLimit,     \* auth_login_rate_limit_per_minute
    None

ASSUME MembersAssumption ==
    /\ Member \subseteq Nat /\ IsFiniteSet(Request) /\ None \notin Member \cup Session
    /\ \A sc \in Scenes :
          /\ sc.roles \in [Member -> {"owner", "member", "none"}]
          /\ sc.signed # None => sc.signed \in Member /\ sc.roles[sc.signed] # "none"
    /\ MaxPassword \in Nat \ {0} /\ MaxAttempts \in Nat \ {0} /\ LoginLimit \in Nat \ {0}

VARIABLES
    scene,      \* roles at the start, "none" for a member to come; signed, who is signed
                \* in then; asks, what is asked for
    role,       \* members.role, "none" where there is no row
    disabled,   \* members.disabled_at is set
    cred,       \* member_credentials: password, failed_attempts, locked_until
    session,    \* web_sessions: member, live; the role and password it was opened with
    window,     \* the bucket of failed logins: count, and how many there really were
    wrong,      \* history: wrong passwords since the member was locked out last by a
                \* verification that no other overlapped
    broken,     \* history: members whose password was replaced and whose sessions stayed
    req         \* what each request is doing

mvars == <<scene, role, disabled, cred, session, window, wrong, broken, req>>

Idle == [pc |-> "idle", kind |-> "none", cookie |-> None, member |-> None, by |-> None,
         right |-> FALSE, seen |-> None, role |-> None, disable |-> None]

NoCredential == [pw |-> 0, failed |-> 0, lock |-> "no"]

NoSession == [member |-> None, live |-> FALSE, as |-> "none", pw |-> 0, late |-> FALSE]

\* Members there are at the start have a password, and one may be signed in.
Init ==
    /\ scene \in Scenes
    /\ role = scene.roles
    /\ disabled = [m \in Member |-> FALSE]
    /\ cred = [m \in Member |-> IF scene.roles[m] = "none" THEN NoCredential
                                ELSE [NoCredential EXCEPT !.pw = 1]]
    /\ \E first \in Session :
          session = [s \in Session |-> IF s = first /\ scene.signed # None
                                       THEN [NoSession EXCEPT !.member = scene.signed,
                                             !.live = TRUE, !.as = role[scene.signed], !.pw = 1]
                                       ELSE NoSession]
    /\ window = [count |-> 0, failures |-> 0]
    /\ wrong = [m \in Member |-> 0]
    /\ broken = {}
    /\ req = [r \in Request |-> Idle]

-----------------------------------------------------------------------------
(* What a request looks at.                                                 *)

At(r, label)   == req[r].pc = label
Goto(r, label) == req' = [req EXCEPT ![r] = IF label = "idle" THEN Idle
                                            ELSE [@ EXCEPT !.pc = label]]
Begin(r, rec)  == At(r, "idle") /\ req' = [req EXCEPT ![r] = rec]

\* Requests of this kind are part of the scene.
Asked(kind) == kind \in scene.asks

Exists(m) == role[m] # "none"

\* verify_web_session: the session is in force and its member is not disabled.
Valid(s)  == session[s].live /\ ~disabled[session[s].member]
Holder(s) == session[s].member

\* require_owner
OwnerSession(s) == Valid(s) /\ role[Holder(s)] = "owner"

\* get_owner_member
OwnerMember ==
    CHOOSE m \in Member : role[m] = "owner" /\ \A n \in Member : role[n] = "owner" => m <= n

\* _guard_last_active_owner
OtherActiveOwner(m) == \E n \in Member \ {m} : role[n] = "owner" /\ ~disabled[n]

\* A column is written when its new value is not the one that was read.
Column(new, seen, stored) == IF new = seen THEN stored ELSE new

Dead(s)  == [session[s] EXCEPT !.live = FALSE]
\* Mutant: the condition on the session to keep is the wrong way round.
RevokedKept(m, keep) ==
    [s \in Session |-> IF session[s].member = m /\ s = keep THEN Dead(s) ELSE session[s]]

\* revoke_member_sessions: one UPDATE of the sessions in force.
Revoked(m, keep) ==
    [s \in Session |-> IF session[s].member = m /\ s # keep THEN Dead(s) ELSE session[s]]

-----------------------------------------------------------------------------
(* Passwords.                                                               *)

Guesses == IF Asked("guess") THEN BOOLEAN ELSE {TRUE}

\* Mutant: a login is let in at the limit.
MayTryAtLimit == window.count <= LoginLimit

\* rate_limit.is_exceeded
MayTry == window.count < LoginLimit

\* login up to the verification: the address is not over its limit, the member is not
\* disabled, has a password and is not locked out.
BeginLogin(r) ==
    /\ Asked("login")
    /\ MayTry
    /\ \E m \in Member, right \in Guesses :
          /\ Exists(m) /\ ~disabled[m] /\ cred[m].pw > 0 /\ cred[m].lock # "now"
          /\ Begin(r, [Idle EXCEPT !.pc = "check", !.kind = "login", !.member = m,
                                   !.right = right, !.seen = cred[m]])
    /\ UNCHANGED <<role, disabled, cred, session, window, wrong, broken>>

\* Passwords still to be set are within the bound.
MayChange(m) ==
    cred[m].pw + Cardinality({r \in Request : req[r].member = m /\ ~At(r, "idle")}) < MaxPassword

\* change_password up to the verification of the old one.
BeginChange(r) ==
    /\ Asked("change")
    /\ \E s \in Session, right \in Guesses :
       LET m == Holder(s) IN
          /\ Valid(s) /\ MayChange(m) /\ cred[m].lock # "now"
          /\ Begin(r, [Idle EXCEPT !.pc = "check", !.kind = "change", !.cookie = s,
                                   !.member = m, !.right = right, !.seen = cred[m]])
    /\ UNCHANGED <<role, disabled, cred, session, window, wrong, broken>>

\* The credential after a wrong password: counted, and locked at the last attempt.
Failed(seen, now) ==
    IF seen.failed + 1 >= MaxAttempts
    THEN [now EXCEPT !.failed = Column(0, seen.failed, @), !.lock = "now"]
    ELSE [now EXCEPT !.failed = seen.failed + 1]

Cleared(seen, now) ==
    [now EXCEPT !.failed = Column(0, seen.failed, @), !.lock = Column("no", seen.lock, @)]

\* The credential with the next password.
Replaced(seen, now) == [Cleared(seen, now) EXCEPT !.pw = now.pw + 1]

\* Another verification for the same member is under way.
Overlapped(r) == \E q \in Request \ {r} : At(q, "check") /\ req[q].member = req[r].member

\* verify_member_password: the password is hashed, then the outcome committed.
CheckPassword(r) ==
    LET m     == req[r].member
        seen  == req[r].seen
        login == req[r].kind = "login"
    IN
    /\ At(r, "check")
    /\ IF req[r].right
       THEN /\ cred' = [cred EXCEPT ![m] = Cleared(seen, @)]
            /\ UNCHANGED wrong
            /\ Goto(r, IF login THEN "open" ELSE "fetch")
       ELSE /\ cred' = [cred EXCEPT ![m] = Failed(seen, @)]
            /\ wrong' = [wrong EXCEPT ![m] =
                  IF cred'[m].lock = "now" /\ cred[m].lock # "now" /\ ~Overlapped(r) THEN 0
                  ELSE IF @ < MaxAttempts THEN @ + 1 ELSE @]
            /\ Goto(r, IF login THEN "count" ELSE "idle")
    /\ UNCHANGED <<role, disabled, session, window, broken>>

\* rate_limit.check: a failure is counted up to the limit.
CountFailure(r) ==
    /\ At(r, "count")
    /\ window' = [count |-> IF MayTry THEN window.count + 1 ELSE window.count,
                  failures |-> window.failures + 1]
    /\ Goto(r, "idle")
    /\ UNCHANGED <<role, disabled, cred, session, wrong, broken>>

\* create_web_session.  A number is free when no session in force has it.
OpenSession(r) ==
    LET m == req[r].member IN
    /\ At(r, "open")
    /\ \E s \in Session :
          /\ ~session[s].live /\ \A q \in Request : req[q].cookie # s
          /\ session' = [session EXCEPT ![s] =
                [member |-> m, live |-> TRUE, as |-> role[m],
                 pw |-> req[r].seen.pw, late |-> req[r].seen.pw # cred[m].pw]]
    /\ Goto(r, "idle")
    /\ UNCHANGED <<role, disabled, cred, window, wrong, broken>>

\* reset_member_password up to the setting.
BeginReset(r) ==
    /\ Asked("reset")
    /\ \E s \in Session, m \in Member :
          /\ OwnerSession(s) /\ Exists(m) /\ ~disabled[m] /\ MayChange(m)
          /\ Begin(r, [Idle EXCEPT !.pc = "fetch", !.kind = "reset", !.member = m,
                                   !.by = Holder(s)])
    /\ UNCHANGED <<role, disabled, cred, session, window, wrong, broken>>

\* init_password: the owner has none yet.
BeginInitial(r) ==
    /\ Asked("init")
    /\ \E m \in Member : role[m] = "owner"
    /\ cred[OwnerMember].pw = 0 /\ MayChange(OwnerMember)
    /\ Begin(r, [Idle EXCEPT !.pc = "fetch", !.kind = "init", !.member = OwnerMember])
    /\ UNCHANGED <<role, disabled, cred, session, window, wrong, broken>>

\* cmd_owner_init_password, cmd_owner_reset_password of admin: on the console, without a
\* session.
BeginAdmin(r) ==
    /\ Asked("admin")
    /\ \E m \in Member : role[m] = "owner"
    /\ MayChange(OwnerMember)
    /\ Begin(r, [Idle EXCEPT !.pc = "fetch", !.member = OwnerMember,
                    !.kind = IF cred[OwnerMember].pw = 0 THEN "adminInit" ELSE "adminReset"])
    /\ UNCHANGED <<role, disabled, cred, session, window, wrong, broken>>

\* set_member_password: the credential is read when the new password has been hashed ...
FetchCredential(r) ==
    /\ At(r, "fetch")
    /\ req' = [req EXCEPT ![r].pc = "store", ![r].seen = cred[req[r].member]]
    /\ UNCHANGED <<role, disabled, cred, session, window, wrong, broken>>

\* The password is replaced, the sessions are not yet ended.
Ending(r) == At(r, "owner") \/ At(r, "revoke")

\* What sets the first password ends no sessions.
First(r) == req[r].kind \in {"init", "adminInit"}

\* ... and written; the insertion of a second row breaks the unique index.  The session
\* that changed the password knows the new one.
StorePassword(r) ==
    LET m == req[r].member
        seen == req[r].seen
    IN
    /\ At(r, "store")
    /\ IF seen.pw = 0 /\ cred[m].pw > 0
       THEN Goto(r, "idle") /\ UNCHANGED cred
       ELSE /\ cred' = [cred EXCEPT ![m] = Replaced(seen, @)]
            /\ IF req[r].kind = "adminInit" THEN Goto(r, "idle")
               ELSE req' = [req EXCEPT ![r].seen = cred'[m],
                                       ![r].pc = CASE req[r].kind = "init"       -> "open"
                                                   [] req[r].kind = "adminReset" -> "owner"
                                                   [] OTHER                      -> "revoke"]
    /\ session' = [s \in Session |-> IF s = req[r].cookie
                                      THEN [session[s] EXCEPT !.pw = cred'[m].pw]
                                      ELSE session[s]]
    /\ broken' = IF First(r) /\ seen.pw > 0 THEN broken \cup {m} ELSE broken
    /\ UNCHANGED <<role, disabled, window, wrong>>

\* The console asks for the owner once more, who may be another one by now.
FetchOwner(r) ==
    /\ At(r, "owner")
    /\ IF \E m \in Member : role[m] = "owner"
       THEN req' = [req EXCEPT ![r].pc = "revoke", ![r].member = OwnerMember]
       ELSE Goto(r, "idle")
    /\ broken' = IF role[req[r].member] = "owner" /\ req[r].member = OwnerMember THEN broken
                 ELSE broken \cup {req[r].member}
    /\ UNCHANGED <<role, disabled, cred, session, window, wrong>>

\* The sessions of the member end: all of them, or all but the one that changed the
\* password.
RevokeSessions(r) ==
    /\ At(r, "revoke")
    /\ session' = Revoked(req[r].member, req[r].cookie)
    /\ Goto(r, IF req[r].kind = "change" THEN "idle" ELSE "tokens")
    /\ UNCHANGED <<role, disabled, cred, window, wrong, broken>>

-----------------------------------------------------------------------------
(* Members.                                                                 *)

\* update_member up to its first commit.
BeginUpdate(r) ==
    /\ \E s \in Session, m \in Member, new \in {"owner", "member", None},
          off \in BOOLEAN \cup {None} :
       LET change == new # None /\ new # role[m]
           turn   == ~change /\ off # None
       IN /\ new # None => Asked("role")
          /\ off # None => Asked("disable")
          /\ OwnerSession(s) /\ Exists(m) /\ (change \/ turn)
          /\ change /\ role[m] = "owner" => OtherActiveOwner(m)
          /\ turn /\ off = TRUE => m # Holder(s) /\ (role[m] = "owner" => OtherActiveOwner(m))
          /\ Begin(r, [Idle EXCEPT !.pc = IF change THEN "role" ELSE "disable",
                                   !.kind = "update", !.member = m, !.by = Holder(s),
                                   !.role = new, !.disable = off, !.seen = disabled[m]])
    /\ UNCHANGED <<role, disabled, cred, session, window, wrong, broken>>

\* The new role and the end of the sessions are one commit.
ApplyRole(r) ==
    LET m == req[r].member IN
    /\ At(r, "role")
    /\ role' = [role EXCEPT ![m] = req[r].role]
    /\ session' = Revoked(m, None)
    /\ Goto(r, "tokens")
    /\ UNCHANGED <<disabled, cred, window, wrong, broken>>

\* revoke_member_agent_tokens, whose effect is in AgentAccess.
AfterTokens(r) ==
    /\ At(r, "tokens")
    /\ Goto(r, IF req[r].disable = None THEN "idle" ELSE "guard")
    /\ UNCHANGED <<role, disabled, cred, session, window, wrong, broken>>

\* The second half of update_member looks at the member again.
GuardDisable(r) ==
    LET m == req[r].member IN
    /\ At(r, "guard")
    /\ IF /\ req[r].disable = TRUE
          /\ m = req[r].by \/ (role[m] = "owner" /\ ~OtherActiveOwner(m))
       THEN Goto(r, "idle")
       ELSE req' = [req EXCEPT ![r].pc = "disable", ![r].seen = disabled[m]]
    /\ UNCHANGED <<role, disabled, cred, session, window, wrong, broken>>

SetDisabled(r) ==
    LET m == req[r].member IN
    /\ At(r, "disable")
    /\ disabled' = [disabled EXCEPT ![m] = Column(req[r].disable, req[r].seen, @)]
    /\ session' = IF req[r].disable THEN Revoked(m, None) ELSE session
    /\ Goto(r, "idle")
    /\ UNCHANGED <<role, cred, window, wrong, broken>>

\* add_member: owners add members; anybody adds the first, and any member an owner
\* where there is none.
BeginAdd(r) ==
    /\ Asked("add")
    /\ \E new \in {"owner", "member"}, s \in Session \cup {None} :
       LET noOwner == \A m \in Member : role[m] # "owner"
           caller  == IF s = None THEN "none" ELSE role[Holder(s)]
       IN /\ s # None => Valid(s) /\ (caller = "owner" \/ (noOwner /\ new = "owner"))
          /\ s = None => \A m \in Member : ~Exists(m)
          /\ new = "owner" /\ caller # "owner" => noOwner
          /\ Begin(r, [Idle EXCEPT !.pc = "insert", !.kind = "add", !.role = new])
    /\ UNCHANGED <<role, disabled, cred, session, window, wrong, broken>>

InsertMember(r) ==
    /\ At(r, "insert")
    /\ \E m \in Member :
          /\ ~Exists(m) /\ \A n \in Member : ~Exists(n) => m <= n
          /\ role' = [role EXCEPT ![m] = req[r].role]
    /\ Goto(r, "idle")
    /\ UNCHANGED <<disabled, cred, session, window, wrong, broken>>

-----------------------------------------------------------------------------
(* Time, logging out, and the end of a process.                             *)

\* revoke_web_session, the expiry of a session and its clean-up.
EndSession ==
    /\ \E s \in Session : session[s].live /\ session' = [session EXCEPT ![s] = Dead(s)]
    /\ UNCHANGED <<role, disabled, cred, window, wrong, broken, req>>

\* Fifteen minutes have passed; no verification takes that long.
LockEnds ==
    /\ \E m \in Member :
          /\ cred[m].lock = "now"
          /\ \A r \in Request : At(r, "check") => req[r].member # m
          /\ cred' = [cred EXCEPT ![m].lock = "past"]
    /\ UNCHANGED <<role, disabled, session, window, wrong, broken, req>>

WindowEnds ==
    /\ window.failures > 0
    /\ window' = [count |-> 0, failures |-> 0]
    /\ UNCHANGED <<role, disabled, cred, session, wrong, broken, req>>

Die(r) ==
    /\ ~At(r, "idle")
    /\ broken' = IF Ending(r) THEN broken \cup {req[r].member} ELSE broken
    /\ Goto(r, "idle")
    /\ UNCHANGED <<role, disabled, cred, session, window, wrong>>

SignIn(r) ==
    \/ BeginLogin(r) \/ CheckPassword(r) \/ CountFailure(r) \/ OpenSession(r)
    \/ BeginChange(r) \/ BeginReset(r) \/ BeginInitial(r)
    \/ BeginAdmin(r) \/ FetchCredential(r) \/ StorePassword(r) \/ FetchOwner(r)
    \/ RevokeSessions(r)

Manage(r) ==
    \/ BeginUpdate(r) \/ ApplyRole(r) \/ GuardDisable(r) \/ SetDisabled(r)
    \/ BeginAdd(r) \/ InsertMember(r) \/ Die(r)

Next ==
    /\ \/ \E r \in Request : SignIn(r) \/ Manage(r) \/ AfterTokens(r)
       \/ EndSession \/ LockEnds \/ WindowEnds
    /\ UNCHANGED scene

Spec == Init /\ [][Next]_mvars

-----------------------------------------------------------------------------
(* Properties.                                                              *)

Credential == [pw : 0 .. MaxPassword, failed : 0 .. MaxAttempts, lock : {"no", "past", "now"}]

TypeOK ==
    /\ role \in [Member -> {"owner", "member", "none"}]
    /\ disabled \in [Member -> BOOLEAN]
    /\ cred \in [Member -> Credential]
    /\ session \in [Session -> [member : Member \cup {None}, live : BOOLEAN,
                                as : {"owner", "member", "none"}, pw : 0 .. MaxPassword,
                                late : BOOLEAN]]
    /\ window.count \in 0 .. LoginLimit /\ window.failures \in Nat
    /\ wrong \in [Member -> 0 .. MaxAttempts]
    /\ broken \subseteq Member
    /\ \A r \in Request :
          /\ req[r].cookie \in Session \cup {None}
          /\ req[r].member \in Member \cup {None} /\ req[r].by \in Member \cup {None}
          /\ req[r].pc \in {"check", "count", "open", "fetch", "store", "owner", "revoke"}
                => req[r].member # None

\* A session in force was opened with the role its member has now: whoever is promoted or
\* demoted signs in again, also when the login and the change overlap or the server dies
\* within the change (update_member, revoke_member_sessions).
SessionsFollowRole ==
    \A s \in Session : session[s].live => session[s].as = role[Holder(s)]

\* A session in force was opened with the password its member has now.  The exceptions:
\* the change is under way or died before it ended the sessions, the first password was set
\* twice at once, the owner changed while the console set his, or the login had verified the old password and opened its session after
\* the change.
OldPasswordIsOut ==
    \A s \in Session :
       session[s].live /\ session[s].pw # cred[Holder(s)].pw =>
          \/ session[s].late
          \/ Holder(s) \in broken
          \/ \E r \in Request : Ending(r) /\ req[r].member = Holder(s)

\* The same without the login that overlaps the change.
OldPasswordIsOutAtOnce ==
    \A s \in Session :
       session[s].live /\ session[s].pw # cred[Holder(s)].pw =>
          \/ Holder(s) \in broken
          \/ \E r \in Request : Ending(r) /\ req[r].member = Holder(s)

\* However many logins run at once, an address fails no more often in one window than the
\* limit and those that were let in before it was reached.
FailuresBounded == window.failures <= LoginLimit + Cardinality(Request) - 1

\* Guessing passwords is bounded, and a member is locked out only after as many wrong
\* passwords as the constant says, whatever overlaps: after a lock-out the count starts
\* anew, unless a verification under way still has the count from before.
GuessingBounded ==
    [][/\ FailuresBounded'
       /\ \A m \in Member :
            cred[m].lock # "now" /\ cred'[m].lock = "now" => wrong[m] + 1 >= MaxAttempts]_mvars

\* There is always an owner who is not disabled, once there is one.
ActiveOwner ==
    (\E m \in Member : Exists(m)) => \E m \in Member : role[m] = "owner" /\ ~disabled[m]
=============================================================================
