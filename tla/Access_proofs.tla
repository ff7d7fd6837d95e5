---------------------------- MODULE Access_proofs ----------------------------
(***************************************************************************)
(* Sign-in and agent access, for any number of members, sessions, grants,  *)
(* tokens and requests.                                                    *)
(*                                                                         *)
(* The inductive invariant is in three layers, as the modules are.  What   *)
(* members do rests on the rows of requests alone: MemberInv.  Agents and  *)
(* their owners rest on that, and change nothing of it: AgentInv.  The end *)
(* point rests on both: ServerInv.                                         *)
(*                                                                         *)
(* At the end, the other side of a token: the client's files (CliInv).     *)
(***************************************************************************)
EXTENDS CliLogin, FiniteSetTheorems, WellFoundedInduction, TLAPS

Roles == {"owner", "member", "none"}

Requesting ==
    [pc : {"idle", "check", "count", "open", "fetch", "store", "owner", "revoke", "role",
           "tokens", "guard", "disable", "insert"},
     kind : {"none", "login", "change", "reset", "init", "adminInit", "adminReset", "update",
             "add"},
     cookie : Session \cup {None}, member : Member \cup {None}, by : Member \cup {None},
     right : BOOLEAN, seen : Credential \cup BOOLEAN \cup {None},
     role : {"owner", "member", None}, disable : BOOLEAN \cup {None}]

SessionRow ==
    [member : Member \cup {None}, live : BOOLEAN, as : Roles, pw : 0 .. MaxPassword,
     late : BOOLEAN]

MemberTypes ==
    /\ scene \in Scenes
    /\ role \in [Member -> Roles]
    /\ disabled \in [Member -> BOOLEAN]
    /\ cred \in [Member -> Credential]
    /\ session \in [Session -> SessionRow]
    /\ window \in [count : Nat, failures : Nat]
    /\ wrong \in [Member -> 0 .. MaxAttempts]
    /\ broken \subseteq Member
    /\ req \in [Request -> Requesting]

\* What a request knows at each of its steps.
RequestRow(r) ==
    /\ req[r].pc \notin {"idle", "insert"} => req[r].member \in Member /\ Exists(req[r].member)
    /\ req[r].pc \in {"check", "open", "store"} => req[r].seen \in Credential
    /\ req[r].pc \in {"check", "open"} => cred[req[r].member].pw > 0
    /\ At(r, "check") => req[r].seen.failed <= wrong[req[r].member]
    /\ req[r].pc \in {"role", "insert"} => req[r].role \in {"owner", "member"}
    /\ req[r].pc \in {"disable", "guard"} => req[r].disable \in BOOLEAN
    /\ At(r, "disable") => req[r].seen \in BOOLEAN
    /\ At(r, "owner") => req[r].kind = "adminReset"
    /\ req[r].pc \in {"fetch", "store"} => req[r].kind # "login"
    /\ req[r].cookie # None => /\ req[r].kind = "change"
                               /\ Holder(req[r].cookie) = req[r].member

\* A session in force is one of a member with a password, in the role he has.
SessionOK(s) ==
    session[s].live =>
        /\ Holder(s) \in Member /\ Exists(Holder(s)) /\ cred[Holder(s)].pw > 0
        /\ session[s].as = role[Holder(s)]

\* Who ends the sessions of a changed password spares the one that changed it, which knew
\* the password: another request than that will end it when it is not up to date.
SessionKnows(s) ==
    session[s].live /\ session[s].pw # cred[Holder(s)].pw =>
        \/ session[s].late
        \/ Holder(s) \in broken
        \/ \E r \in Request : Ending(r) /\ req[r].member = Holder(s) /\ req[r].cookie # s

\* Requests that will set a password of the member.
Setting(m) ==
    {r \in Request : req[r].member = m /\ (At(r, "check") \/ At(r, "fetch") \/ At(r, "store"))
                     /\ req[r].kind # "login"}

CredentialOK(m) ==
    /\ cred[m].failed <= wrong[m] /\ cred[m].failed < MaxAttempts
    /\ cred[m].pw + Cardinality(Setting(m)) <= MaxPassword

\* Logins that were let in and may still fail.
Guessing == {r \in Request : At(r, "count") \/ (At(r, "check") /\ req[r].kind = "login")}

WindowOK ==
    /\ window.count = IF window.failures < LoginLimit THEN window.failures ELSE LoginLimit
    /\ window.failures + Cardinality(Guessing) <= LoginLimit + Cardinality(Request) - 1

MemberInv ==
    /\ MemberTypes
    /\ \A r \in Request : RequestRow(r)
    /\ \A s \in Session : SessionOK(s) /\ SessionKnows(s)
    /\ \A m \in Member : CredentialOK(m)
    /\ WindowOK

-----------------------------------------------------------------------------
GrantRow ==
    [status : {"none", "active", "revoked"}, version : Nat, scopes : ScopeSets \cup {None},
     client : Client \cup {None}, member : Member \cup {None}, over : BOOLEAN, mixed : BOOLEAN]

TokenRow ==
    [grant : Grant \cup {None}, version : Nat, revoked : BOOLEAN,
     scopes : ScopeSets \cup {None}, as : Roles]

JobRow ==
    [pc : {"idle", "insertGrant", "writeScopes", "insertToken"}, client : Client \cup {None},
     grant : Grant \cup {None}, member : Member \cup {None}, scopes : ScopeSets \cup {None},
     version : Nat, tokens : SUBSET Token]

CallRow ==
    [pc : {"idle", "grant", "client", "member", "scopes", "granted"},
     token : Token \cup {None}, scopes : ScopeSets \cup {None}, void : BOOLEAN, edited : BOOLEAN]

AgentTypes ==
    /\ client \in [Client -> {"none", "active", "revoked"}]
    /\ grant \in [Grant -> GrantRow]
    /\ token \in [Token -> TokenRow]
    /\ unswept \subseteq Member
    /\ job \in [Job -> JobRow]
    /\ call \in [Call -> CallRow]

Granted(g) == grant[g].status # "none"

GrantOK(g) ==
    /\ grant[g].version <= scene.versions
    /\ Granted(g) => /\ grant[g].version > 0
                     /\ grant[g].client \in Client /\ client[grant[g].client] # "none"
                     /\ grant[g].member \in Member /\ Exists(grant[g].member)

\* Scopes read under a version: that version is not a later one than that of the grant, and
\* with the same version the scopes are the same.
UpTo(g, version, scopes) ==
    ~grant[g].mixed =>
        version <= grant[g].version /\ (version = grant[g].version => scopes = grant[g].scopes)

Sweeping(m) == m \in unswept \/ \E r \in Request : At(r, "tokens") /\ req[r].member = m

TokenOK(t) ==
    /\ Issued(t) => /\ Granted(token[t].grant) /\ token[t].version > 0
                    /\ UpTo(token[t].grant, token[t].version, token[t].scopes)
    /\ ~Issued(t) => ~token[t].revoked

\* Whatever else may be wrong with a token: it was issued for the role of its member.
TokenKnows(t) ==
    /\ Issued(t) /\ ~token[t].revoked /\ GrantOf(t).status = "active"
    /\ token[t].as # role[GrantOf(t).member]
    => Sweeping(GrantOf(t).member)

Writes(d, g) == job[d].pc = "writeScopes" /\ job[d].grant = g

JobOK(d) ==
    /\ job[d].pc = "insertGrant" =>
          /\ job[d].client \in Client /\ client[job[d].client] # "none"
          /\ job[d].member \in Member /\ Exists(job[d].member)
    /\ job[d].pc \in {"writeScopes", "insertToken"} =>
          job[d].grant \in Grant /\ Granted(job[d].grant) /\ job[d].version > 0
    /\ job[d].pc = "writeScopes" =>
          /\ \A t \in job[d].tokens : Issued(t)
          /\ job[d].version <= scene.versions
          /\ ~grant[job[d].grant].mixed =>
                /\ job[d].version = grant[job[d].grant].version + 1
                /\ \A e \in Job \ {d} : ~Writes(e, job[d].grant)
    /\ job[d].pc = "insertToken" => UpTo(job[d].grant, job[d].version, job[d].scopes)

\* Why a void token is still to be refused, by how far its request has come.
Outdated(t)  == GrantOf(t).status # "active" \/ token[t].version < GrantOf(t).version
StillVoid(k) ==
    LET t == call[k].token IN
    \/ GrantOf(t).mixed
    \/ call[k].pc \in {"grant", "client", "member"} /\ ~MemberGood(t)
    \/ call[k].pc \in {"grant", "client"} /\ ~ClientGood(t)
    \/ call[k].pc = "grant" /\ Outdated(t)

CallOK(k) ==
    LET t == call[k].token IN
    call[k].pc # "idle" =>
        /\ t \in Token /\ Issued(t)
        /\ call[k].void => StillVoid(k)
        /\ call[k].pc \in {"client", "member", "scopes"} /\ ~call[k].edited =>
              GrantOf(t).mixed \/ token[t].scopes = GrantOf(t).scopes
        /\ call[k].pc = "granted" /\ ~call[k].edited =>
              GrantOf(t).mixed \/ call[k].scopes = token[t].scopes

AgentInv ==
    /\ AgentTypes
    /\ \A g \in Grant : GrantOK(g)
    /\ \A t \in Token : TokenOK(t) /\ TokenKnows(t)
    /\ \A d \in Job : JobOK(d)
    /\ \A k \in Call : CallOK(k)

-----------------------------------------------------------------------------
ServeRow ==
    [pc : {"none", "verify", "admit", "gate", "limit", "work", "size", "audit", "answer"},
     method : Methods \cup {"none"}, row : {"none", "own", "earlier"}]

ServerTypes ==
    /\ serve \in [Call -> ServeRow]
    /\ requests \in [Grant -> 0 .. McpLimit] /\ uses \in [Grant \X Bounded -> 0 .. McpLimit]
    /\ lately \subseteq Key /\ failing \subseteq Key
    /\ fresh = lately

Tool(k)  == serve[k].method = "tools/call"
\* The row in the log that the answer needs.
Logged(k) == serve[k].row \in IF Tool(k) THEN {"own"} ELSE {"own", "earlier"}

ServeOK(k) ==
    /\ Stage(k) # "none" => call[k].pc # "idle" /\ serve[k].method \in Methods
    /\ Stage(k) \in {"admit", "gate", "limit", "work", "size", "audit", "answer"}
          => call[k].pc = "granted"
    /\ Stage(k) = "gate" => serve[k].method \in Bounded \cup {"tools/list"}
    /\ Stage(k) \in {"limit", "work", "size"} => serve[k].method \in Bounded
    /\ \/ Stage(k) \in {"limit", "work", "size"}
       \/ Stage(k) \in {"audit", "answer"} /\ serve[k].method # "server/discover"
       => call[k].scopes = Pilot
    /\ Stage(k) = "answer" => Logged(k)
    /\ Stage(k) = "size" /\ Tool(k) => Logged(k)

ServerInv == ServerTypes /\ \A k \in Call : ServeOK(k)

AccessInv == MemberInv /\ AgentInv /\ ServerInv

-----------------------------------------------------------------------------
(* Members: what a step leaves as it is.                                    *)

LEMMA CredentialNumbers ==
    ASSUME NEW c \in Credential
    PROVE  c.pw \in Nat /\ c.failed \in Nat
BY MembersAssumption DEF Credential

\* A request's step: the others stay where they are.
OneMoves(r) == \A q \in Request \ {r} : req'[q] = req[q]

LEMMA GotoMoves ==
    ASSUME MemberTypes, NEW r \in Request,
           NEW label \in {"count", "open", "fetch", "revoke", "tokens", "guard"}, Goto(r, label)
    PROVE  /\ OneMoves(r) /\ req' \in [Request -> Requesting]
           /\ req'[r] = [req[r] EXCEPT !.pc = label]
           /\ req'[r].pc = label /\ req'[r].kind = req[r].kind /\ req'[r].cookie = req[r].cookie
           /\ req'[r].member = req[r].member /\ req'[r].by = req[r].by
           /\ req'[r].seen = req[r].seen /\ req'[r].role = req[r].role
           /\ req'[r].disable = req[r].disable
<1>1. req[r] \in Requesting
  BY DEF MemberTypes
<1>2. req' = [req EXCEPT ![r] = [req[r] EXCEPT !.pc = label]]
  BY DEF Goto
<1>3. [req[r] EXCEPT !.pc = label] \in Requesting
  BY <1>1 DEF Requesting
<1>4. req'[r] = [req[r] EXCEPT !.pc = label]
  BY <1>2 DEF MemberTypes
<1> QED
  BY <1>1, <1>2, <1>3, <1>4 DEF MemberTypes, OneMoves, Requesting

LEMMA GotoIdle ==
    ASSUME MemberTypes, NEW r \in Request, Goto(r, "idle")
    PROVE  /\ OneMoves(r) /\ req' \in [Request -> Requesting]
           /\ req'[r].pc = "idle" /\ req'[r].cookie = None /\ req'[r].member = None
           /\ req'[r].kind = "none"
<1>1. req' = [req EXCEPT ![r] = Idle]
  BY DEF Goto
<1>2. Idle \in Requesting
  BY DEF Idle, Requesting
<1> QED
  BY <1>1, <1>2 DEF MemberTypes, OneMoves, Idle

LEMMA RowFrame ==
    ASSUME MemberInv, MemberTypes', NEW q \in Request, req'[q] = req[q],
           \A m \in Member : Exists(m) => Exists(m)',
           \A m \in Member : cred'[m].pw >= cred[m].pw,
           At(q, "check") => wrong'[req[q].member] >= wrong[req[q].member],
           \A s \in Session : req[q].cookie = s => session'[s].member = session[s].member
    PROVE  RequestRow(q)'
<1>1. RequestRow(q) /\ req[q] \in Requesting
  BY DEF MemberInv, MemberTypes
<1>0. \A m \in Member : /\ wrong[m] \in Nat /\ wrong'[m] \in Nat
                          /\ cred[m].pw \in Nat /\ cred'[m].pw \in Nat
  BY MembersAssumption DEF MemberInv, MemberTypes, Credential
<1>2. At(q, "check") => req[q].seen.failed <= wrong'[req[q].member]
  <2>1. ASSUME At(q, "check") PROVE req[q].seen.failed <= wrong'[req[q].member]
    <3>1. req[q].member \in Member /\ req[q].seen \in Credential
      BY <1>1, <2>1 DEF RequestRow, At
    <3>2. wrong[req[q].member] \in Nat /\ wrong'[req[q].member] \in Nat /\ req[q].seen.failed \in Nat
      BY <1>0, <3>1, CredentialNumbers
    <3> QED
      BY <1>1, <2>1, <3>2 DEF RequestRow
  <2> QED BY <2>1
<1>3. req[q].pc \in {"check", "open"} => cred'[req[q].member].pw > 0
  <2>1. ASSUME req[q].pc \in {"check", "open"} PROVE cred'[req[q].member].pw > 0
    <3>1. req[q].member \in Member /\ cred[req[q].member].pw > 0
      BY <1>1, <2>1 DEF RequestRow
    <3>2. cred[req[q].member].pw \in Nat /\ cred'[req[q].member].pw \in Nat
      BY <1>0, <3>1
    <3> QED
      BY <3>1, <3>2
  <2> QED BY <2>1
<1>4. req[q].cookie # None => session'[req[q].cookie].member = req[q].member
  BY <1>1 DEF RequestRow, Requesting, Holder
<1> QED
  BY <1>1, <1>2, <1>3, <1>4 DEF RequestRow, At, Holder

LEMMA SettingFrame ==
    ASSUME NEW r \in Request, NEW m \in Member, OneMoves(r), r \in Setting(m)' => r \in Setting(m)
    PROVE  Setting(m)' \subseteq Setting(m)
BY DEF Setting, OneMoves, At

LEMMA SettingsFinite ==
    ASSUME NEW S \in SUBSET Request
    PROVE  IsFiniteSet(S) /\ Cardinality(S) \in Nat /\ Cardinality(S) <= Cardinality(Request)
           /\ Cardinality(Request) \in Nat
BY MembersAssumption, FS_Subset, FS_CardinalityType

LEMMA CredentialFrame ==
    ASSUME MemberInv, NEW m \in Member, cred'[m].pw = cred[m].pw,
           cred'[m].failed <= wrong'[m],
           cred'[m].failed < MaxAttempts, Setting(m)' \subseteq Setting(m)
    PROVE  CredentialOK(m)'
<1>1. CredentialOK(m) /\ cred[m].pw \in Nat /\ MaxPassword \in Nat
  BY MembersAssumption DEF MemberInv, MemberTypes, Credential
<1>2. Setting(m) \in SUBSET Request /\ Setting(m)' \in SUBSET Request
  BY DEF Setting
<1>3. Cardinality(Setting(m)) \in Nat /\ Cardinality(Setting(m)') \in Nat
  BY <1>2, SettingsFinite
<1>4. Cardinality(Setting(m)') <= Cardinality(Setting(m))
  BY <1>2, SettingsFinite, FS_Subset
<1>5. Cardinality(Setting(m))' = Cardinality(Setting(m)')
  OBVIOUS
<1> QED
  BY <1>1, <1>3, <1>4, <1>5 DEF CredentialOK

LEMMA GuessingFrame ==
    ASSUME NEW r \in Request, OneMoves(r), r \in Guessing' => r \in Guessing
    PROVE  Guessing' \subseteq Guessing
BY DEF Guessing, OneMoves, At

LEMMA WindowFrame ==
    ASSUME MemberInv, window' = window, Guessing' \subseteq Guessing
    PROVE  WindowOK'
<1>1. WindowOK /\ window.failures \in Nat /\ LoginLimit \in Nat
  BY MembersAssumption DEF MemberInv, MemberTypes
<1>2. Guessing \in SUBSET Request /\ Guessing' \in SUBSET Request
  BY DEF Guessing
<1>3. Cardinality(Guessing) \in Nat /\ Cardinality(Guessing') \in Nat /\ Cardinality(Request) \in Nat
  BY <1>2, SettingsFinite
<1>4. Cardinality(Guessing') <= Cardinality(Guessing)
  BY <1>2, SettingsFinite, FS_Subset
<1>5. Cardinality(Guessing)' = Cardinality(Guessing')
  OBVIOUS
<1> QED
  BY <1>1, <1>3, <1>4, <1>5 DEF WindowOK

\* A session that ends, or stays in its role.
LEMMA SessionFrame ==
    ASSUME MemberInv, MemberTypes', NEW s \in Session,
           ~session'[s].live \/ (session'[s].live = session[s].live /\ session'[s].as = session[s].as
                 /\ session'[s].member = session[s].member /\ role'[Holder(s)] = role[Holder(s)]),
           \A m \in Member : cred'[m].pw >= cred[m].pw
    PROVE  SessionOK(s)'
<1>1. SessionOK(s)
  BY DEF MemberInv
<1>2. \A m \in Member : cred[m].pw \in Nat /\ cred'[m].pw \in Nat
  BY MembersAssumption DEF MemberInv, MemberTypes, Credential
<1>3. \A m \in Member : cred[m].pw > 0 => cred'[m].pw > 0
  BY <1>2
<1> QED
  BY <1>1, <1>3 DEF SessionOK, Holder, Exists

\* A session's password stays what it was, and so does who is to end it.
LEMMA KnowsStays ==
    ASSUME MemberInv, NEW s \in Session,
           ~session'[s].live \/ session'[s] = session[s],
           session[s].live => cred'[Holder(s)].pw = cred[Holder(s)].pw,
           broken \subseteq broken',
           \A q \in Request :
              session'[s].live /\ Ending(q) /\ req[q].member = Holder(s) /\ req[q].cookie # s
              => \/ Ending(q)' /\ req'[q].member = req[q].member /\ req'[q].cookie = req[q].cookie
                 \/ req[q].member \in broken'
    PROVE  SessionKnows(s)'
<1> SUFFICES ASSUME session'[s] = session[s], session[s].live, session[s].pw # cred'[Holder(s)].pw,
                    ~session[s].late, Holder(s) \notin broken'
             PROVE  \E q \in Request : Ending(q)' /\ req'[q].member = Holder(s) /\ req'[q].cookie # s
  BY DEF SessionKnows, Holder
<1>1. SessionKnows(s) /\ session[s].pw # cred[Holder(s)].pw
  BY DEF MemberInv
<1>2. PICK q \in Request : Ending(q) /\ req[q].member = Holder(s) /\ req[q].cookie # s
  BY <1>1 DEF SessionKnows
<1> QED
  BY <1>2

LEMMA KnowsFrame ==
    ASSUME MemberInv, NEW s \in Session, NEW r \in Request, OneMoves(r),
           ~session'[s].live \/ session'[s] = session[s],
           session[s].live => cred'[Holder(s)].pw = cred[Holder(s)].pw,
           broken \subseteq broken',
           session'[s].live /\ Ending(r) /\ req[r].member = Holder(s) /\ req[r].cookie # s
              => \/ Ending(r)' /\ req'[r].member = req[r].member /\ req'[r].cookie = req[r].cookie
                 \/ req[r].member \in broken'
    PROVE  SessionKnows(s)'
<1>1. \A q \in Request \ {r} : Ending(q) => Ending(q)' /\ req'[q] = req[q]
  BY DEF OneMoves, Ending, At
<1> QED
  BY <1>1, KnowsStays

LEMMA HolderKnown ==
    ASSUME MemberInv, NEW s \in Session, session[s].live
    PROVE  Holder(s) \in Member
BY DEF MemberInv, SessionOK

-----------------------------------------------------------------------------
(* Members: the requests begin.                                             *)

LEMMA Begins ==
    ASSUME MemberInv, NEW r \in Request, NEW rec \in Requesting, Begin(r, rec),
           UNCHANGED <<scene, role, disabled, cred, session, window, wrong, broken>>,
           RequestRow(r)',
           rec.pc # "count", rec.pc = "check" /\ rec.kind = "login" => MayTry,
           rec.pc \in {"check", "fetch", "store"} /\ rec.kind # "login" => MayChange(rec.member)
    PROVE  MemberInv'
<1>1. At(r, "idle") /\ req' = [req EXCEPT ![r] = rec]
  BY DEF Begin
<1>2. req'[r] = rec /\ OneMoves(r) /\ ~Ending(r)
  BY <1>1 DEF MemberInv, MemberTypes, OneMoves, Ending, At
<1>3. MemberTypes'
  BY <1>1 DEF MemberInv, MemberTypes
<1>4. \A m \in Member : cred[m].pw \in Nat /\ cred[m].failed \in Nat
  BY CredentialNumbers DEF MemberInv, MemberTypes
<1>5. \A m \in Member : wrong[m] \in Nat
  BY MembersAssumption DEF MemberInv, MemberTypes
<1>6. ASSUME NEW q \in Request PROVE RequestRow(q)'
  <2>1. CASE q = r
    BY <2>1
  <2>2. CASE q # r
    <3>1. req'[q] = req[q]
      BY <1>2, <2>2 DEF OneMoves
    <3>2. At(q, "check") => wrong'[req[q].member] >= wrong[req[q].member]
      BY <1>5 DEF MemberInv, RequestRow, At
    <3> QED
      BY <1>3, <1>4, <3>1, <3>2, RowFrame DEF Exists
  <2> QED BY <2>1, <2>2
<1>7. ASSUME NEW s \in Session PROVE SessionOK(s)' /\ SessionKnows(s)'
  <2>1. SessionOK(s)'
    BY <1>3, <1>4, SessionFrame
  <2>2. SessionKnows(s)'
    BY <1>2, HolderKnown, KnowsFrame
  <2> QED BY <2>1, <2>2
<1>8. ASSUME NEW m \in Member PROVE CredentialOK(m)'
  <2>1. CASE r \notin Setting(m)'
    BY <1>2, <2>1, SettingFrame, CredentialFrame DEF MemberInv, CredentialOK
  <2>2. CASE r \in Setting(m)'
    <3> DEFINE Under == {q \in Request : req[q].member = m /\ ~At(q, "idle")}
    <3>1. rec.member = m /\ MayChange(m)
      BY <1>2, <2>2 DEF Setting, At
    <3>2. Setting(m) \subseteq Under /\ Setting(m)' \subseteq Setting(m) \cup {r}
      BY <1>2 DEF Setting, OneMoves, At
    <3>3. cred[m].pw + Cardinality(Under) < MaxPassword
      BY <3>1 DEF MayChange
    <3>4. Under \in SUBSET Request /\ Setting(m) \in SUBSET Request /\ Setting(m)' \in SUBSET Request
      BY DEF Setting
    <3> HIDE DEF Under
    <3>5. /\ IsFiniteSet(Under) /\ Cardinality(Under) \in Nat
          /\ IsFiniteSet(Setting(m)) /\ Cardinality(Setting(m)) \in Nat
          /\ IsFiniteSet(Setting(m)') /\ Cardinality(Setting(m)') \in Nat
      BY <3>4, SettingsFinite
    <3>6. Cardinality(Setting(m)) <= Cardinality(Under)
      BY <3>2, <3>5, FS_Subset
    <3>7. /\ IsFiniteSet(Setting(m) \cup {r}) /\ Cardinality(Setting(m) \cup {r}) \in Nat
          /\ Cardinality(Setting(m) \cup {r}) <= Cardinality(Setting(m)) + 1
      <4>1. /\ IsFiniteSet(Setting(m) \cup {r})
            /\ Cardinality(Setting(m) \cup {r})
                 = IF r \in Setting(m) THEN Cardinality(Setting(m)) ELSE Cardinality(Setting(m)) + 1
        BY <3>5, FS_AddElement
      <4> QED
        BY <3>5, <4>1
    <3>8. Cardinality(Setting(m)') <= Cardinality(Setting(m) \cup {r})
      BY <3>2, <3>7, FS_Subset
    <3>9. cred[m].pw + Cardinality(Setting(m)') <= MaxPassword
      BY <1>4, <3>3, <3>5, <3>6, <3>7, <3>8, MembersAssumption
    <3>10. Cardinality(Setting(m))' = Cardinality(Setting(m)')
      OBVIOUS
    <3> QED
      BY <3>9, <3>10 DEF CredentialOK, MemberInv
  <2> QED BY <2>1, <2>2
<1>9. WindowOK'
  <2>1. CASE r \notin Guessing'
    BY <1>2, <2>1, GuessingFrame, WindowFrame
  <2>2. CASE r \in Guessing'
    <3>1. MayTry
      BY <1>2, <2>2 DEF Guessing, At
    <3>2. Guessing' \in SUBSET Request
      BY DEF Guessing
    <3>3. /\ Cardinality(Guessing') \in Nat /\ Cardinality(Request) \in Nat
          /\ Cardinality(Guessing') <= Cardinality(Request)
      BY <3>2, SettingsFinite
    <3>4. WindowOK /\ window.failures \in Nat /\ LoginLimit \in Nat
      BY MembersAssumption DEF MemberInv, MemberTypes
    <3>5. window.failures < LoginLimit
      BY <3>1, <3>4 DEF WindowOK, MayTry
    <3>6. window.failures + Cardinality(Guessing') <= LoginLimit + Cardinality(Request) - 1
      BY <3>3, <3>4, <3>5
    <3>7. Cardinality(Guessing)' = Cardinality(Guessing')
      OBVIOUS
    <3> QED
      BY <3>4, <3>6, <3>7 DEF WindowOK
  <2> QED BY <2>1, <2>2
<1> QED
  BY <1>3, <1>6, <1>7, <1>8, <1>9 DEF MemberInv

\* Of the owners the one with the lowest number.
LEMMA OwnerThere ==
    ASSUME MemberTypes, \E m \in Member : role[m] = "owner"
    PROVE  OwnerMember \in Member /\ role[OwnerMember] = "owner"
<1> DEFINE Owners == {m \in Member : role[m] = "owner"}
<1>1. Owners \subseteq Nat /\ Owners # {}
  BY MembersAssumption
<1> DEFINE Less == OpToRel(<, Nat)
<1>0. \A m, n \in Nat : <<m, n>> \in Less <=> m < n
  BY DEF OpToRel
<1>2. PICK x \in Owners : \A y \in Owners : ~(<<y, x>> \in Less)
  <2> HIDE DEF Owners
  <2> QED
    BY <1>1, NatLessThanWellFounded, WFMin
<1>3. \A y \in Owners : x <= y
  <2> HIDE DEF Owners, Less
  <2> TAKE y \in Owners
  <2>1. x \in Nat /\ y \in Nat
    BY <1>1, <1>2
  <2>2. ~(<<y, x>> \in Less)
    BY <1>2
  <2>3. ~(y < x)
    BY <1>0, <2>1, <2>2
  <2> QED
    BY <2>1, <2>3
<1>4. \E m \in Member : role[m] = "owner" /\ \A n \in Member : role[n] = "owner" => m <= n
  BY <1>2, <1>3
<1> QED
  BY <1>4 DEF OwnerMember

LEMMA BeginLoginKeeps ==
    ASSUME MemberInv, NEW r \in Request, BeginLogin(r), scene' = scene
    PROVE  MemberInv'
<1>1. PICK m \in Member, right \in Guesses :
        /\ Exists(m) /\ ~disabled[m] /\ cred[m].pw > 0 /\ cred[m].lock # "now"
        /\ Begin(r, [Idle EXCEPT !.pc = "check", !.kind = "login", !.member = m,
                                 !.right = right, !.seen = cred[m]])
  BY DEF BeginLogin
<1> DEFINE rec == [Idle EXCEPT !.pc = "check", !.kind = "login", !.member = m,
                               !.right = right, !.seen = cred[m]]
<1>2. cred[m] \in Credential /\ right \in BOOLEAN
  BY DEF MemberInv, MemberTypes, Guesses
<1>3. rec \in Requesting
  BY <1>2 DEF Idle, Requesting
<1>4. UNCHANGED <<scene, role, disabled, cred, session, window, wrong, broken>> /\ MayTry
  BY DEF BeginLogin
<1>5. req'[r] = rec
  BY <1>1 DEF Begin, MemberInv, MemberTypes
<1>6. cred[m].failed <= wrong[m]
  BY DEF MemberInv, CredentialOK
<1>7. RequestRow(r)'
  BY <1>1, <1>2, <1>4, <1>5, <1>6 DEF RequestRow, Idle, At, Exists
<1>8. rec.pc = "check" /\ rec.kind = "login"
  BY DEF Idle
<1> HIDE DEF rec
<1> QED
  BY <1>1, <1>3, <1>4, <1>7, <1>8, Begins DEF rec

LEMMA BeginChangeKeeps ==
    ASSUME MemberInv, NEW r \in Request, BeginChange(r), scene' = scene
    PROVE  MemberInv'
<1>1. PICK s \in Session, right \in Guesses :
        /\ Valid(s) /\ MayChange(Holder(s)) /\ cred[Holder(s)].lock # "now"
        /\ Begin(r, [Idle EXCEPT !.pc = "check", !.kind = "change", !.cookie = s,
                                 !.member = Holder(s), !.right = right, !.seen = cred[Holder(s)]])
  BY DEF BeginChange
<1> DEFINE m == Holder(s)
           rec == [Idle EXCEPT !.pc = "check", !.kind = "change", !.cookie = s,
                               !.member = m, !.right = right, !.seen = cred[m]]
<1>2. m \in Member /\ Exists(m) /\ cred[m].pw > 0
  BY <1>1 DEF MemberInv, SessionOK, Valid
<1> HIDE DEF m
<1>3. cred[m] \in Credential /\ right \in BOOLEAN
  BY <1>2 DEF MemberInv, MemberTypes, Guesses
<1>4. rec \in Requesting
  BY <1>2, <1>3 DEF Idle, Requesting
<1>5. UNCHANGED <<scene, role, disabled, cred, session, window, wrong, broken>>
  BY DEF BeginChange
<1>6. req'[r] = rec
  BY <1>1 DEF Begin, MemberInv, MemberTypes, m
<1>7. cred[m].failed <= wrong[m]
  BY <1>2 DEF MemberInv, CredentialOK
<1>8. Holder(s)' = m
  BY <1>5 DEF m, Holder
<1>9. RequestRow(r)'
  BY <1>1, <1>2, <1>3, <1>5, <1>6, <1>7, <1>8 DEF RequestRow, Idle, At, Exists, Holder
<1>10. rec.pc = "check" /\ rec.kind = "change" /\ rec.member = m
  BY DEF Idle
<1>11. Begin(r, rec) /\ MayChange(m)
  BY <1>1 DEF m
<1> HIDE DEF rec
<1> QED
  BY <1>4, <1>5, <1>9, <1>10, <1>11, Begins

\* What sets a password without looking at the old one.
LEMMA BeginFetchKeeps ==
    ASSUME MemberInv, NEW r \in Request, scene' = scene, NEW rec \in Requesting, Begin(r, rec),
           rec.pc = "fetch", rec.kind # "login", rec.cookie = None,
           rec.member \in Member, Exists(rec.member), MayChange(rec.member),
           UNCHANGED <<role, disabled, cred, session, window, wrong, broken>>
    PROVE  MemberInv'
<1>1. req'[r] = rec
  BY DEF Begin, MemberInv, MemberTypes
<1>2. RequestRow(r)'
  BY <1>1 DEF RequestRow, At, Exists
<1> QED
  BY <1>2, Begins

LEMMA BeginSettingKeeps ==
    ASSUME MemberInv, NEW r \in Request, BeginReset(r) \/ BeginInitial(r) \/ BeginAdmin(r),
           scene' = scene
    PROVE  MemberInv'
<1>1. UNCHANGED <<role, disabled, cred, session, window, wrong, broken>>
  BY DEF BeginReset, BeginInitial, BeginAdmin
<1>2. CASE BeginReset(r)
  <2>1. PICK s \in Session, m \in Member :
          /\ OwnerSession(s) /\ Exists(m) /\ ~disabled[m] /\ MayChange(m)
          /\ Begin(r, [Idle EXCEPT !.pc = "fetch", !.kind = "reset", !.member = m,
                                   !.by = Holder(s)])
    BY <1>2 DEF BeginReset
  <2> DEFINE by  == Holder(s)
             rec == [Idle EXCEPT !.pc = "fetch", !.kind = "reset", !.member = m, !.by = by]
  <2>2. by \in Member
    BY <2>1 DEF MemberInv, SessionOK, OwnerSession, Valid
  <2>3. Begin(r, rec)
    BY <2>1
  <2> HIDE DEF by
  <2>4. /\ rec \in Requesting /\ rec.pc = "fetch" /\ rec.kind = "reset" /\ rec.cookie = None
        /\ rec.member = m
    BY <2>2 DEF Idle, Requesting
  <2> HIDE DEF rec
  <2> QED
    BY <1>1, <2>1, <2>3, <2>4, BeginFetchKeeps
<1>3. CASE BeginInitial(r) \/ BeginAdmin(r)
  <2> DEFINE m == OwnerMember
             initial == [Idle EXCEPT !.pc = "fetch", !.kind = "init", !.member = m]
             admin == [Idle EXCEPT !.pc = "fetch", !.member = m,
                          !.kind = IF cred[m].pw = 0 THEN "adminInit" ELSE "adminReset"]
  <2>1. \E n \in Member : role[n] = "owner"
    BY <1>3 DEF BeginInitial, BeginAdmin
  <2>2. m \in Member /\ Exists(m)
    BY <2>1, OwnerThere DEF MemberInv, Exists
  <2>3. MayChange(m) /\ (Begin(r, initial) \/ Begin(r, admin))
    BY <1>3 DEF BeginInitial, BeginAdmin
  <2> HIDE DEF m
  <2>4. /\ initial \in Requesting /\ initial.pc = "fetch" /\ initial.kind = "init"
        /\ initial.cookie = None /\ initial.member = m
    BY <2>2 DEF Idle, Requesting
  <2>5. /\ admin \in Requesting /\ admin.pc = "fetch" /\ admin.kind \in {"adminInit", "adminReset"}
        /\ admin.cookie = None /\ admin.member = m
    BY <2>2 DEF Idle, Requesting
  <2> HIDE DEF initial, admin
  <2>6. ASSUME Begin(r, initial) PROVE MemberInv'
    BY <1>1, <2>2, <2>3, <2>4, <2>6, BeginFetchKeeps
  <2>7. ASSUME Begin(r, admin) PROVE MemberInv'
    <3>1. admin.kind # "login"
      BY <2>5
    <3> QED
      BY <1>1, <2>2, <2>3, <2>5, <2>7, <3>1, BeginFetchKeeps
  <2> QED
    BY <2>3, <2>6, <2>7
<1> QED BY <1>2, <1>3

LEMMA BeginUpdateKeeps ==
    ASSUME MemberInv, NEW r \in Request, BeginUpdate(r), scene' = scene
    PROVE  MemberInv'
<1>1. PICK s \in Session, m \in Member, new \in {"owner", "member", None},
           off \in BOOLEAN \cup {None} :
        LET change == new # None /\ new # role[m]
            turn   == ~change /\ off # None
        IN /\ new # None => Asked("role")
           /\ off # None => Asked("disable")
           /\ OwnerSession(s) /\ Exists(m) /\ (change \/ turn)
           /\ change /\ role[m] = "owner" => OtherActiveOwner(m)
           /\ turn /\ off = TRUE => m # Holder(s) /\ (role[m] = "owner" => OtherActiveOwner(m))
           /\ Begin(r, [Idle EXCEPT !.pc = IF change THEN "role" ELSE "disable",
                                    !.kind = "update", !.member = m, !.by = Holder(s),
                                    !.role = new, !.disable = off, !.seen = disabled[m]])
  BY Zenon DEF BeginUpdate
<1> DEFINE by == Holder(s)
           label == IF new # None /\ new # role[m] THEN "role" ELSE "disable"
           rec == [Idle EXCEPT !.pc = label, !.kind = "update", !.member = m, !.by = by,
                               !.role = new, !.disable = off, !.seen = disabled[m]]
<1>2. by \in Member
  BY <1>1 DEF MemberInv, SessionOK, OwnerSession, Valid
<1>3. disabled[m] \in BOOLEAN
  BY DEF MemberInv, MemberTypes
<1>4. UNCHANGED <<scene, role, disabled, cred, session, window, wrong, broken>>
  BY DEF BeginUpdate
<1>5. Begin(r, rec)
  BY <1>1
<1> HIDE DEF by
<1>6. rec \in Requesting
  BY <1>2, <1>3 DEF Idle, Requesting
<1>7. req'[r] = rec
  BY <1>5 DEF Begin, MemberInv, MemberTypes
<1>8. /\ rec.pc = label /\ rec.member = m /\ rec.cookie = None /\ rec.role = new
      /\ rec.disable = off /\ rec.seen = disabled[m] /\ rec.kind = "update"
  BY DEF Idle
<1>9. (label = "role" /\ new # None) \/ (label = "disable" /\ off # None)
  BY <1>1
<1> HIDE DEF rec, label
<1>10. RequestRow(r)'
  BY <1>1, <1>3, <1>4, <1>7, <1>8, <1>9 DEF RequestRow, At, Exists
<1> QED
  BY <1>4, <1>5, <1>6, <1>8, <1>9, <1>10, Begins

LEMMA BeginAddKeeps ==
    ASSUME MemberInv, NEW r \in Request, BeginAdd(r), scene' = scene
    PROVE  MemberInv'
<1>1. PICK new \in {"owner", "member"} :
        Begin(r, [Idle EXCEPT !.pc = "insert", !.kind = "add", !.role = new])
  BY DEF BeginAdd
<1> DEFINE rec == [Idle EXCEPT !.pc = "insert", !.kind = "add", !.role = new]
<1>2. UNCHANGED <<scene, role, disabled, cred, session, window, wrong, broken>>
  BY DEF BeginAdd
<1>3. rec \in Requesting /\ rec.pc = "insert" /\ Begin(r, rec)
  BY <1>1 DEF Idle, Requesting
<1>4. req'[r] = rec
  BY <1>1 DEF Begin, MemberInv, MemberTypes
<1>5. RequestRow(r)'
  BY <1>4 DEF RequestRow, Idle, At
<1> HIDE DEF rec
<1> QED
  BY <1>2, <1>3, <1>5, Begins

-----------------------------------------------------------------------------
(* Members: passwords.                                                      *)

LEMMA ClearedRow ==
    ASSUME NEW seen \in Credential, NEW now \in Credential
    PROVE  /\ Cleared(seen, now) \in Credential /\ Cleared(seen, now).pw = now.pw
           /\ Cleared(seen, now).failed <= now.failed /\ Cleared(seen, now).lock \in {"no", now.lock}
<1>1. Cleared(seen, now).pw = now.pw
  BY DEF Cleared, Credential
<1>2. Cleared(seen, now).failed \in {0, now.failed} /\ Cleared(seen, now).lock \in {"no", now.lock}
  BY DEF Cleared, Column, Credential
<1>3. 0 \in 0 .. MaxAttempts
  BY MembersAssumption
<1>4. Cleared(seen, now) \in Credential
  BY <1>3 DEF Cleared, Column, Credential
<1>5. Cleared(seen, now).failed <= now.failed
  BY <1>2, CredentialNumbers
<1> QED
  BY <1>1, <1>2, <1>4, <1>5

LEMMA FailedRow ==
    ASSUME NEW seen \in Credential, NEW now \in Credential
    PROVE  /\ Failed(seen, now) \in Credential /\ Failed(seen, now).pw = now.pw
           /\ seen.failed + 1 >= MaxAttempts =>
                /\ Failed(seen, now).lock = "now"
                /\ Failed(seen, now).failed = IF seen.failed = 0 THEN now.failed ELSE 0
           /\ ~(seen.failed + 1 >= MaxAttempts) =>
                Failed(seen, now).failed = seen.failed + 1 /\ Failed(seen, now).lock = now.lock
<1>1. seen.failed \in Nat /\ now.failed \in 0 .. MaxAttempts /\ MaxAttempts \in Nat
  BY CredentialNumbers, MembersAssumption DEF Credential
<1>2. CASE seen.failed + 1 >= MaxAttempts
  <2>1. Failed(seen, now) = [now EXCEPT !.failed = Column(0, seen.failed, @), !.lock = "now"]
    BY <1>2 DEF Failed
  <2>2. Column(0, seen.failed, now.failed) = IF seen.failed = 0 THEN now.failed ELSE 0
    BY DEF Column
  <2>3. (IF seen.failed = 0 THEN now.failed ELSE 0) \in 0 .. MaxAttempts
    BY <1>1
  <2> QED
    BY <1>2, <2>1, <2>2, <2>3 DEF Credential
<1>3. CASE ~(seen.failed + 1 >= MaxAttempts)
  <2>1. Failed(seen, now) = [now EXCEPT !.failed = seen.failed + 1]
    BY <1>3 DEF Failed
  <2>2. seen.failed + 1 \in 0 .. MaxAttempts
    BY <1>1, <1>3
  <2> QED
    BY <1>3, <2>1, <2>2 DEF Credential
<1> QED BY <1>2, <1>3

\* The count of wrong passwords is at least what the credential and the verifications that
\* are under way have counted.
LEMMA CheckCounts ==
    ASSUME MemberInv, NEW r \in Request, CheckPassword(r)
    PROVE  LET m == req[r].member IN
           /\ m \in Member /\ cred' = [cred EXCEPT ![m] = cred'[m]] /\ cred'[m] \in Credential
           /\ cred'[m].pw = cred[m].pw
           /\ wrong' = [wrong EXCEPT ![m] = wrong'[m]] /\ wrong'[m] \in 0 .. MaxAttempts
           /\ cred'[m].failed <= wrong'[m] /\ cred'[m].failed < MaxAttempts
           /\ Overlapped(r) => wrong'[m] >= wrong[m]
           /\ cred[m].lock # "now" /\ cred'[m].lock = "now" => wrong[m] + 1 >= MaxAttempts
<1> DEFINE m == req[r].member
           seen == req[r].seen
<1>1. /\ At(r, "check") /\ m \in Member /\ seen \in Credential /\ cred[m] \in Credential
      /\ seen.failed <= wrong[m] /\ cred[m].failed <= wrong[m] /\ cred[m].failed < MaxAttempts
  <2>1. At(r, "check")
    BY DEF CheckPassword
  <2>2. m \in Member /\ seen \in Credential /\ seen.failed <= wrong[m]
    BY <2>1 DEF MemberInv, RequestRow, At
  <2> QED
    BY <2>1, <2>2 DEF MemberInv, MemberTypes, CredentialOK
<1>2. /\ wrong[m] \in 0 .. MaxAttempts /\ MaxAttempts \in Nat \ {0}
      /\ seen.failed \in Nat /\ cred[m].failed \in Nat
  BY <1>1, MembersAssumption, CredentialNumbers DEF MemberInv, MemberTypes
<1> HIDE DEF m, seen
<1>3. CASE req[r].right
  <2>1. cred' = [cred EXCEPT ![m] = Cleared(seen, cred[m])] /\ wrong' = wrong
    BY <1>3 DEF CheckPassword, m, seen
  <2>2. cred'[m] = Cleared(seen, cred[m])
    BY <1>1, <2>1 DEF MemberInv, MemberTypes
  <2>3. /\ cred'[m] \in Credential /\ cred'[m].pw = cred[m].pw
        /\ cred'[m].failed <= cred[m].failed /\ cred'[m].lock \in {"no", cred[m].lock}
    BY <1>1, <2>2, ClearedRow
  <2>4. cred'[m].failed \in Nat
    BY <2>3, CredentialNumbers
  <2>5. wrong' = [wrong EXCEPT ![m] = wrong'[m]]
    BY <1>1, <2>1 DEF MemberInv, MemberTypes
  <2>6. /\ cred'[m].failed <= wrong'[m] /\ cred'[m].failed < MaxAttempts /\ wrong'[m] >= wrong[m]
        /\ wrong'[m] \in 0 .. MaxAttempts
    BY <1>1, <1>2, <2>1, <2>3, <2>4
  <2>7. cred' = [cred EXCEPT ![m] = cred'[m]]
    BY <2>1, <2>2
  <2>8. ~(cred[m].lock # "now" /\ cred'[m].lock = "now")
    BY <2>3
  <2> QED
    BY <1>1, <2>3, <2>5, <2>6, <2>7, <2>8 DEF m
<1>4. CASE ~req[r].right
  <2> DEFINE w == IF cred'[m].lock = "now" /\ cred[m].lock # "now" /\ ~Overlapped(r) THEN 0
                  ELSE IF wrong[m] < MaxAttempts THEN wrong[m] + 1 ELSE wrong[m]
  <2>1. cred' = [cred EXCEPT ![m] = Failed(seen, cred[m])] /\ wrong' = [wrong EXCEPT ![m] = w]
    BY <1>4 DEF CheckPassword, m, seen
  <2>2. cred'[m] = Failed(seen, cred[m])
    BY <1>1, <2>1 DEF MemberInv, MemberTypes
  <2>3. wrong'[m] = w
    BY <1>1, <2>1 DEF MemberInv, MemberTypes
  <2>4. w \in 0 .. MaxAttempts /\ (Overlapped(r) => w >= wrong[m])
    BY <1>2
  <2>5. cred'[m] \in Credential /\ cred'[m].pw = cred[m].pw
    BY <1>1, <2>2, FailedRow
  <2>6. cred'[m].failed \in Nat
    BY <2>5, CredentialNumbers
  <2>7. CASE seen.failed + 1 >= MaxAttempts
    <3>1. cred'[m].failed = IF seen.failed = 0 THEN cred[m].failed ELSE 0
      BY <1>1, <2>2, <2>7, FailedRow
    <3>2. seen.failed = 0 => cred[m].failed = 0
      BY <1>1, <1>2, <2>7
    <3>3. cred'[m].failed = 0
      BY <3>1, <3>2
    <3>4. cred'[m].failed <= wrong'[m] /\ cred'[m].failed < MaxAttempts
      BY <1>2, <2>3, <2>4, <3>3
    <3>5. wrong[m] + 1 >= MaxAttempts
      BY <1>1, <1>2, <2>7
    <3>6. cred' = [cred EXCEPT ![m] = cred'[m]] /\ wrong' = [wrong EXCEPT ![m] = wrong'[m]]
      BY <2>1, <2>2, <2>3
    <3> QED
      BY <1>1, <2>3, <2>4, <2>5, <3>4, <3>5, <3>6 DEF m
  <2>8. CASE ~(seen.failed + 1 >= MaxAttempts)
    <3>1. cred'[m].failed = seen.failed + 1 /\ cred'[m].lock = cred[m].lock
      BY <1>1, <2>2, <2>8, FailedRow
    <3>2. w = IF wrong[m] < MaxAttempts THEN wrong[m] + 1 ELSE wrong[m]
      BY <3>1
    <3>3. seen.failed + 1 <= w /\ seen.failed + 1 < MaxAttempts
      BY <1>1, <1>2, <2>8, <3>2
    <3> QED
      BY <1>1, <1>2, <2>1, <2>2, <2>3, <2>4, <2>5, <3>1, <3>3 DEF m
  <2> QED BY <2>7, <2>8
<1> QED
  BY <1>3, <1>4 DEF MemberInv, MemberTypes, Requesting

LEMMA CheckPasswordKeeps ==
    ASSUME MemberInv, NEW r \in Request, CheckPassword(r), scene' = scene
    PROVE  MemberInv'
<1> DEFINE m == req[r].member
<1>0. /\ m \in Member /\ cred' = [cred EXCEPT ![m] = cred'[m]] /\ cred'[m] \in Credential
      /\ cred'[m].pw = cred[m].pw
      /\ wrong' = [wrong EXCEPT ![m] = wrong'[m]] /\ wrong'[m] \in 0 .. MaxAttempts
      /\ cred'[m].failed <= wrong'[m] /\ cred'[m].failed < MaxAttempts
      /\ Overlapped(r) => wrong'[m] >= wrong[m]
  BY CheckCounts
<1>1. At(r, "check") /\ RequestRow(r) /\ req[r] \in Requesting
  BY DEF CheckPassword, MemberInv, MemberTypes
<1>2. UNCHANGED <<scene, role, disabled, session, window, broken>>
  BY DEF CheckPassword
<1>3. \E label \in {"open", "fetch", "count", "idle"} :
        /\ Goto(r, label)
        /\ label \in {"open", "count"} => req[r].kind = "login"
        /\ label = "fetch" => req[r].kind # "login"
  BY DEF CheckPassword
<1>4. PICK label \in {"open", "fetch", "count", "idle"} :
        /\ Goto(r, label)
        /\ label \in {"open", "count"} => req[r].kind = "login"
        /\ label = "fetch" => req[r].kind # "login"
  BY <1>3
<1> HIDE DEF m
<1>5. OneMoves(r) /\ req' \in [Request -> Requesting] /\ req'[r].pc = label
  BY <1>4, GotoMoves, GotoIdle DEF MemberInv
<1>6. label # "idle" =>
        /\ req'[r].kind = req[r].kind /\ req'[r].cookie = req[r].cookie
        /\ req'[r].member = req[r].member /\ req'[r].seen = req[r].seen
  BY <1>4, GotoMoves DEF MemberInv
<1>7. label = "idle" => req'[r].cookie = None
  BY <1>4, GotoIdle DEF MemberInv
<1>8. MemberTypes'
  BY <1>0, <1>2, <1>5 DEF MemberInv, MemberTypes
<1>9. \A n \in Member : /\ cred'[n].pw = cred[n].pw /\ cred[n].pw \in Nat
                        /\ n # m => cred'[n] = cred[n] /\ wrong'[n] = wrong[n]
                        /\ wrong[n] \in Nat /\ wrong'[n] \in Nat
  <2>1. \A n \in Member : cred[n].pw \in Nat /\ wrong[n] \in 0 .. MaxAttempts
                          /\ wrong'[n] \in 0 .. MaxAttempts
    BY <1>8, CredentialNumbers DEF MemberInv, MemberTypes
  <2> QED
    BY <1>0, <2>1, MembersAssumption DEF MemberInv, MemberTypes
<1>10. ASSUME NEW q \in Request PROVE RequestRow(q)'
  <2>1. CASE q = r
    BY <1>0, <1>1, <1>2, <1>4, <1>5, <1>6, <1>7, <1>9, <2>1 DEF RequestRow, At, Exists, Holder, m
  <2>2. CASE q # r
    <3>1. req'[q] = req[q]
      BY <1>5, <2>2 DEF OneMoves
    <3>2. At(q, "check") => wrong'[req[q].member] >= wrong[req[q].member]
      <4>1. CASE At(q, "check") /\ req[q].member = m
        BY <1>0, <2>2, <4>1 DEF Overlapped, m
      <4>2. CASE At(q, "check") /\ req[q].member # m
        <5>1. req[q].member \in Member
          BY <4>2 DEF MemberInv, RequestRow, At
        <5> QED
          BY <1>9, <4>2, <5>1
      <4> QED BY <4>1, <4>2
    <3> QED
      BY <1>2, <1>8, <1>9, <3>1, <3>2, RowFrame DEF Exists
  <2> QED BY <2>1, <2>2
<1>11. ASSUME NEW s \in Session PROVE SessionOK(s)' /\ SessionKnows(s)'
  <2>1. SessionOK(s)'
    BY <1>2, <1>8, <1>9, SessionFrame
  <2>2. SessionKnows(s)'
    <3>1. ~Ending(r)
      BY <1>1 DEF Ending, At
    <3> QED
      BY <1>2, <1>5, <1>9, <3>1, HolderKnown, KnowsFrame
  <2> QED BY <2>1, <2>2
<1>12. ASSUME NEW n \in Member PROVE CredentialOK(n)'
  <2>1. r \in Setting(n)' => r \in Setting(n)
    BY <1>1, <1>4, <1>5, <1>6 DEF Setting, At
  <2>2. cred'[n].failed <= wrong'[n] /\ cred'[n].failed < MaxAttempts
    BY <1>0, <1>9 DEF MemberInv, CredentialOK
  <2> QED
    BY <1>5, <1>9, <2>1, <2>2, SettingFrame, CredentialFrame
<1>13. WindowOK'
  <2>1. r \in Guessing' => r \in Guessing
    BY <1>1, <1>4, <1>5, <1>6 DEF Guessing, At
  <2> QED
    BY <1>2, <1>5, <2>1, GuessingFrame, WindowFrame
<1> QED
  BY <1>8, <1>10, <1>11, <1>12, <1>13 DEF MemberInv

\* A request moves on, with its password already set or still to be.
LEMMA Moves ==
    ASSUME MemberInv, MemberTypes', NEW r \in Request, OneMoves(r), RequestRow(r)',
           UNCHANGED <<cred, wrong>>, WindowOK',
           \A m \in Member : Exists(m) => Exists(m)',
           \A s \in Session, q \in Request \ {r} :
              req[q].cookie = s => session'[s].member = session[s].member,
           \A m \in Member : r \in Setting(m)' => r \in Setting(m),
           \A s \in Session : SessionOK(s)' /\ SessionKnows(s)'
    PROVE  MemberInv'
<1>1. \A m \in Member : cred[m].pw \in Nat /\ wrong[m] \in Nat
  <2>1. \A m \in Member : cred[m] \in Credential /\ wrong[m] \in 0 .. MaxAttempts
    BY DEF MemberInv, MemberTypes
  <2> QED
    BY <2>1, CredentialNumbers, MembersAssumption
<1>2. ASSUME NEW q \in Request PROVE RequestRow(q)'
  <2>1. CASE q = r
    BY <2>1
  <2>2. CASE q # r
    <3>1. req'[q] = req[q]
      BY <2>2 DEF OneMoves
    <3>2. At(q, "check") => wrong'[req[q].member] >= wrong[req[q].member]
      BY <1>1 DEF MemberInv, RequestRow, At
    <3>3. \A m \in Member : cred'[m].pw >= cred[m].pw
      BY <1>1
    <3> QED
      BY <2>2, <3>1, <3>2, <3>3, RowFrame
  <2> QED BY <2>1, <2>2
<1>3. ASSUME NEW m \in Member PROVE CredentialOK(m)'
  BY SettingFrame, CredentialFrame DEF MemberInv, CredentialOK
<1> QED
  BY <1>2, <1>3 DEF MemberInv

\* A request moves on and ends sessions.
LEMMA MovesEnding ==
    ASSUME MemberInv, MemberTypes', NEW r \in Request, OneMoves(r), RequestRow(r)',
           UNCHANGED <<cred, wrong, window>>,
           \A m \in Member : Exists(m) => Exists(m)',
           \A m \in Member : r \in Setting(m)' => r \in Setting(m),
           r \in Guessing' => r \in Guessing,
           \A s \in Session : session'[s] = session[s] \/ session'[s] = Dead(s),
           \A s \in Session : session'[s].live => role'[Holder(s)] = role[Holder(s)],
           broken \subseteq broken',
           \A s \in Session :
              session'[s].live /\ Ending(r) /\ req[r].member = Holder(s) /\ req[r].cookie # s
                => \/ Ending(r)' /\ req'[r].member = req[r].member /\ req'[r].cookie = req[r].cookie
                   \/ req[r].member \in broken'
    PROVE  MemberInv'
<1>1. \A s \in Session : ~session'[s].live \/ session'[s] = session[s]
  BY DEF MemberInv, MemberTypes, SessionRow, Dead
<1>2. \A s \in Session : session'[s].member = session[s].member
  BY DEF MemberInv, MemberTypes, SessionRow, Dead
<1>3. \A m \in Member : cred'[m].pw >= cred[m].pw
  BY CredentialNumbers DEF MemberInv, MemberTypes
<1>4. ASSUME NEW s \in Session PROVE SessionOK(s)' /\ SessionKnows(s)'
  <2>1. SessionOK(s)'
    BY <1>1, <1>3, SessionFrame
  <2>2. SessionKnows(s)'
    BY <1>1, HolderKnown, KnowsFrame
  <2> QED BY <2>1, <2>2
<1>5. WindowOK'
  BY GuessingFrame, WindowFrame
<1> QED
  BY <1>2, <1>4, <1>5, Moves

LEMMA FetchCredentialKeeps ==
    ASSUME MemberInv, NEW r \in Request, FetchCredential(r), scene' = scene
    PROVE  MemberInv'
<1>1. /\ At(r, "fetch") /\ UNCHANGED <<role, disabled, cred, session, window, wrong, broken>>
      /\ req' = [req EXCEPT ![r] = [req[r] EXCEPT !.pc = "store", !.seen = cred[req[r].member]]]
  BY DEF FetchCredential
<1>2. req[r] \in Requesting /\ RequestRow(r)
  BY DEF MemberInv, MemberTypes
<1>3. req[r].member \in Member /\ Exists(req[r].member) /\ cred[req[r].member] \in Credential
  BY <1>1, <1>2 DEF RequestRow, At, MemberInv, MemberTypes
<1>4. /\ req'[r].pc = "store" /\ req'[r].seen = cred[req[r].member] /\ req'[r].kind = req[r].kind
      /\ req'[r].member = req[r].member /\ req'[r].cookie = req[r].cookie
  BY <1>1, <1>2 DEF MemberInv, MemberTypes, Requesting
<1>5. req' \in [Request -> Requesting]
  <2>1. [req[r] EXCEPT !.pc = "store", !.seen = cred[req[r].member]] \in Requesting
    BY <1>2, <1>3 DEF Requesting
  <2> QED
    BY <1>1, <2>1 DEF MemberInv, MemberTypes
<1>6. MemberTypes'
  BY <1>1, <1>5 DEF MemberInv, MemberTypes
<1>7. OneMoves(r)
  BY <1>1 DEF OneMoves, MemberInv, MemberTypes
<1>8. RequestRow(r)'
  BY <1>1, <1>2, <1>3, <1>4 DEF RequestRow, At, Exists, Holder
<1>9. \A m \in Member : r \in Setting(m)' => r \in Setting(m)
  BY <1>1, <1>4 DEF Setting, At
<1>10. r \notin Guessing' /\ ~Ending(r)
  BY <1>1, <1>4 DEF Guessing, At, Ending
<1> QED
  BY <1>1, <1>6, <1>7, <1>8, <1>9, <1>10, MovesEnding DEF Exists

LEMMA FetchOwnerKeeps ==
    ASSUME MemberInv, NEW r \in Request, FetchOwner(r), scene' = scene
    PROVE  MemberInv'
<1>1. /\ At(r, "owner") /\ UNCHANGED <<role, disabled, cred, session, window, wrong>>
      /\ IF \E m \in Member : role[m] = "owner"
         THEN req' = [req EXCEPT ![r] = [req[r] EXCEPT !.pc = "revoke", !.member = OwnerMember]]
         ELSE Goto(r, "idle")
      /\ broken' = IF role[req[r].member] = "owner" /\ req[r].member = OwnerMember THEN broken
                   ELSE broken \cup {req[r].member}
  BY DEF FetchOwner
<1>2. req[r] \in Requesting /\ RequestRow(r)
  BY DEF MemberInv, MemberTypes
<1>3. req[r].member \in Member /\ Exists(req[r].member) /\ req[r].cookie = None
  BY <1>1, <1>2 DEF RequestRow, At
<1>4. CASE \E m \in Member : role[m] = "owner"
  <2>1. OwnerMember \in Member /\ Exists(OwnerMember)
    BY <1>4, OwnerThere DEF MemberInv, Exists
  <2>2. /\ req'[r].pc = "revoke" /\ req'[r].kind = req[r].kind
        /\ req'[r].member = OwnerMember /\ req'[r].cookie = None
    <3> DEFINE owner == OwnerMember
    <3>1. req' = [req EXCEPT ![r] = [req[r] EXCEPT !.pc = "revoke", !.member = owner]]
      BY <1>1, <1>4
    <3> HIDE DEF owner
    <3>2. req'[r] = [req[r] EXCEPT !.pc = "revoke", !.member = owner]
      BY <3>1 DEF MemberInv, MemberTypes
    <3>3. /\ req'[r].pc = "revoke" /\ req'[r].kind = req[r].kind
          /\ req'[r].member = owner /\ req'[r].cookie = req[r].cookie
      BY <1>2, <3>2 DEF Requesting
    <3> QED
      BY <1>3, <3>3 DEF owner
  <2>3. req' \in [Request -> Requesting]
    <3>1. [req[r] EXCEPT !.pc = "revoke", !.member = OwnerMember] \in Requesting
      BY <1>2, <2>1 DEF Requesting
    <3> QED
      BY <1>1, <1>4, <3>1 DEF MemberInv, MemberTypes
  <2>4. MemberTypes'
    BY <1>1, <1>3, <2>3 DEF MemberInv, MemberTypes
  <2>5. OneMoves(r)
    BY <1>1, <1>4 DEF OneMoves, MemberInv, MemberTypes
  <2>6. RequestRow(r)'
    BY <1>1, <1>2, <1>3, <2>1, <2>2 DEF RequestRow, At, Exists, Holder
  <2>7. (\A m \in Member : r \notin Setting(m)') /\ r \notin Guessing' /\ Ending(r)'
    BY <2>2 DEF Setting, Guessing, At, Ending
  <2>8. \A s \in Session : session'[s].live => role'[Holder(s)] = role[Holder(s)]
    BY <1>1
  <2>9. (req'[r].member = req[r].member /\ req'[r].cookie = req[r].cookie) \/ req[r].member \in broken'
    BY <1>1, <1>3, <2>2
  <2> QED
    BY <1>1, <2>4, <2>5, <2>6, <2>7, <2>8, <2>9, MovesEnding DEF Exists
<1>5. CASE ~\E m \in Member : role[m] = "owner"
  <2>1. Goto(r, "idle") /\ broken' = broken \cup {req[r].member}
    BY <1>1, <1>3, <1>5
  <2>2. OneMoves(r) /\ req' \in [Request -> Requesting] /\ req'[r].pc = "idle" /\ req'[r].cookie = None
    BY <2>1, GotoIdle DEF MemberInv
  <2>3. MemberTypes'
    BY <1>1, <1>3, <2>1, <2>2 DEF MemberInv, MemberTypes
  <2>4. RequestRow(r)'
    BY <2>2 DEF RequestRow, At
  <2>5. (\A m \in Member : r \notin Setting(m)') /\ r \notin Guessing'
    BY <2>2 DEF Setting, Guessing, At
  <2> QED
    BY <1>1, <2>1, <2>2, <2>3, <2>4, <2>5, MovesEnding DEF Exists
<1> QED BY <1>4, <1>5

\* The sessions that a request ends.
LEMMA RevokedSessions ==
    ASSUME MemberTypes, NEW m, NEW keep
    PROVE  /\ Revoked(m, keep) \in [Session -> SessionRow]
           /\ \A s \in Session : /\ Revoked(m, keep)[s] \in {session[s], Dead(s)}
                                 /\ session[s].member = m /\ s # keep => ~Revoked(m, keep)[s].live
<1>1. \A s \in Session : session[s] \in SessionRow /\ Dead(s) \in SessionRow /\ ~Dead(s).live
  BY DEF MemberTypes, SessionRow, Dead
<1> QED
  BY <1>1 DEF Revoked

LEMMA RevokeSessionsKeeps ==
    ASSUME MemberInv, NEW r \in Request, RevokeSessions(r), scene' = scene
    PROVE  MemberInv'
<1>1. /\ At(r, "revoke") /\ UNCHANGED <<role, disabled, cred, window, wrong, broken>>
      /\ session' = Revoked(req[r].member, req[r].cookie)
  BY DEF RevokeSessions
<1>2. req[r] \in Requesting /\ RequestRow(r)
  BY DEF MemberInv, MemberTypes
<1>3. PICK label \in {"idle", "tokens"} : Goto(r, label)
  BY DEF RevokeSessions
<1>4. OneMoves(r) /\ req' \in [Request -> Requesting] /\ req'[r].pc = label
  BY <1>3, GotoIdle, GotoMoves DEF MemberInv
<1>5. /\ label = "idle" => req'[r].cookie = None
      /\ label = "tokens" => /\ req'[r].member = req[r].member /\ req'[r].cookie = req[r].cookie
                             /\ req'[r].kind = req[r].kind
  BY <1>3, GotoIdle, GotoMoves DEF MemberInv
<1>6. /\ session' \in [Session -> SessionRow]
      /\ \A s \in Session : /\ session'[s] \in {session[s], Dead(s)}
                            /\ session[s].member = req[r].member /\ s # req[r].cookie
                                 => ~session'[s].live
  BY <1>1, RevokedSessions DEF MemberInv
<1>7. MemberTypes'
  BY <1>1, <1>4, <1>6 DEF MemberInv, MemberTypes
<1>8. \A s \in Session : session'[s].member = session[s].member
  BY <1>6 DEF Dead, MemberInv, MemberTypes, SessionRow
<1>9. RequestRow(r)'
  BY <1>1, <1>2, <1>4, <1>5, <1>8 DEF RequestRow, At, Exists, Holder, Requesting
<1>10. (\A m \in Member : r \notin Setting(m)') /\ r \notin Guessing'
  BY <1>4 DEF Setting, Guessing, At
<1> QED
  BY <1>1, <1>4, <1>6, <1>7, <1>9, <1>10, MovesEnding DEF Exists, Holder

LEMMA CountFailureKeeps ==
    ASSUME MemberInv, NEW r \in Request, CountFailure(r), scene' = scene
    PROVE  MemberInv'
<1>1. /\ At(r, "count") /\ UNCHANGED <<role, disabled, cred, session, wrong, broken>>
      /\ window' = [count |-> IF MayTry THEN window.count + 1 ELSE window.count,
                    failures |-> window.failures + 1]
      /\ Goto(r, "idle")
  BY DEF CountFailure
<1>2. OneMoves(r) /\ req' \in [Request -> Requesting] /\ req'[r].pc = "idle" /\ req'[r].cookie = None
  BY <1>1, GotoIdle DEF MemberInv
<1>3. /\ window.count \in Nat /\ window.failures \in Nat /\ LoginLimit \in Nat /\ WindowOK
  BY MembersAssumption DEF MemberInv, MemberTypes
<1>4. MemberTypes'
  BY <1>1, <1>2, <1>3 DEF MemberInv, MemberTypes
<1>5. WindowOK'
  <2>1. r \in Guessing /\ Guessing' \subseteq Guessing \ {r}
    BY <1>1, <1>2 DEF Guessing, OneMoves, At
  <2>2. Guessing \in SUBSET Request /\ Guessing' \in SUBSET Request
    BY DEF Guessing
  <2>3. /\ IsFiniteSet(Guessing) /\ Cardinality(Guessing) \in Nat /\ Cardinality(Guessing') \in Nat
        /\ Cardinality(Request) \in Nat
    BY <2>2, SettingsFinite
  <2>4. IsFiniteSet(Guessing \ {r}) /\ Cardinality(Guessing \ {r}) = Cardinality(Guessing) - 1
    BY <2>1, <2>3, FS_RemoveElement
  <2>5. Cardinality(Guessing') <= Cardinality(Guessing) - 1
    BY <2>1, <2>4, FS_Subset
  <2>6. /\ window'.failures = window.failures + 1
        /\ window'.count = IF window.count < LoginLimit THEN window.count + 1 ELSE window.count
    BY <1>1 DEF MayTry
  <2>7. window'.count = IF window'.failures < LoginLimit THEN window'.failures ELSE LoginLimit
    BY <1>3, <2>6 DEF WindowOK
  <2>8. window'.failures + Cardinality(Guessing') <= LoginLimit + Cardinality(Request) - 1
    BY <1>3, <2>3, <2>5, <2>6 DEF WindowOK
  <2>9. Cardinality(Guessing)' = Cardinality(Guessing')
    OBVIOUS
  <2> QED
    BY <2>7, <2>8, <2>9 DEF WindowOK
<1>6. RequestRow(r)'
  BY <1>2 DEF RequestRow, At
<1>7. ASSUME NEW s \in Session PROVE SessionOK(s)' /\ SessionKnows(s)'
  <2>1. SessionOK(s)'
    <3>1. \A m \in Member : cred'[m].pw >= cred[m].pw
      BY <1>1, CredentialNumbers DEF MemberInv, MemberTypes
    <3> QED
      BY <1>1, <1>4, <3>1, SessionFrame
  <2>2. SessionKnows(s)'
    <3>1. ~Ending(r)
      BY <1>1 DEF Ending, At
    <3> QED
      BY <1>1, <1>2, <3>1, HolderKnown, KnowsFrame
  <2> QED BY <2>1, <2>2
<1>8. \A m \in Member : r \notin Setting(m)'
  BY <1>2 DEF Setting, At
<1> QED
  BY <1>1, <1>2, <1>4, <1>5, <1>6, <1>7, <1>8, Moves DEF Exists

LEMMA OpenSessionKeeps ==
    ASSUME MemberInv, NEW r \in Request, OpenSession(r), scene' = scene
    PROVE  MemberInv'
<1> DEFINE m == req[r].member
           pw == req[r].seen.pw
           row == [member |-> m, live |-> TRUE, as |-> role[m], pw |-> pw, late |-> pw # cred[m].pw]
<1>1. PICK s \in Session :
        /\ ~session[s].live /\ \A q \in Request : req[q].cookie # s
        /\ session' = [session EXCEPT ![s] = row]
  BY DEF OpenSession
<1>2. /\ At(r, "open") /\ Goto(r, "idle") /\ UNCHANGED <<role, disabled, cred, window, wrong, broken>>
  BY DEF OpenSession
<1>3. m \in Member /\ Exists(m) /\ cred[m].pw > 0 /\ req[r].seen \in Credential
  BY <1>2 DEF MemberInv, RequestRow, At
<1>4. row \in SessionRow
  <2>1. pw \in 0 .. MaxPassword /\ role[m] \in Roles
    BY <1>3 DEF Credential, MemberInv, MemberTypes
  <2> QED
    BY <1>3, <2>1 DEF SessionRow
<1>5. OneMoves(r) /\ req' \in [Request -> Requesting] /\ req'[r].pc = "idle" /\ req'[r].cookie = None
  BY <1>2, GotoIdle DEF MemberInv
<1> HIDE DEF m, pw
<1>6. MemberTypes'
  BY <1>1, <1>2, <1>4, <1>5 DEF MemberInv, MemberTypes
<1>7. session'[s] = row /\ \A u \in Session \ {s} : session'[u] = session[u]
  BY <1>1 DEF MemberInv, MemberTypes
<1>8. RequestRow(r)'
  BY <1>5 DEF RequestRow, At
<1>9. \A n \in Member : cred'[n].pw >= cred[n].pw
  BY <1>2, CredentialNumbers DEF MemberInv, MemberTypes
<1>10. ASSUME NEW u \in Session PROVE SessionOK(u)' /\ SessionKnows(u)'
  <2>1. CASE u = s
    <3>1. /\ session'[u].member = m /\ session'[u].as = role[m] /\ session'[u].pw = pw
          /\ session'[u].late = (pw # cred[m].pw)
      BY <1>7, <2>1
    <3>2. SessionOK(u)'
      BY <1>2, <1>3, <3>1 DEF SessionOK, Holder, Exists
    <3>3. SessionKnows(u)'
      BY <1>2, <3>1 DEF SessionKnows, Holder
    <3> QED BY <3>2, <3>3
  <2>2. CASE u # s
    <3>1. session'[u] = session[u]
      BY <1>7, <2>2
    <3>2. SessionOK(u)'
      BY <1>2, <1>6, <1>9, <3>1, SessionFrame
    <3>3. SessionKnows(u)'
      <4>1. ~Ending(r)
        BY <1>2 DEF Ending, At
      <4> QED
        BY <1>2, <1>5, <3>1, <4>1, KnowsFrame
    <3> QED BY <3>2, <3>3
  <2> QED BY <2>1, <2>2
<1>11. (\A n \in Member : r \notin Setting(n)') /\ r \notin Guessing'
  BY <1>5 DEF Setting, Guessing, At
<1>12. WindowOK'
  BY <1>2, <1>5, <1>11, GuessingFrame, WindowFrame
<1>13. \A u \in Session, q \in Request \ {r} : req[q].cookie = u => session'[u].member = session[u].member
  BY <1>1, <1>7
<1> QED
  BY <1>2, <1>5, <1>6, <1>8, <1>10, <1>11, <1>12, <1>13, Moves DEF Exists

LEMMA ApplyRoleKeeps ==
    ASSUME MemberInv, NEW r \in Request, ApplyRole(r), scene' = scene
    PROVE  MemberInv'
<1> DEFINE m == req[r].member
<1>1. /\ At(r, "role") /\ Goto(r, "tokens") /\ UNCHANGED <<disabled, cred, window, wrong, broken>>
      /\ role' = [role EXCEPT ![m] = req[r].role] /\ session' = Revoked(m, None)
  BY DEF ApplyRole
<1>2. m \in Member /\ Exists(m) /\ req[r].role \in {"owner", "member"} /\ RequestRow(r)
  BY <1>1 DEF MemberInv, RequestRow, At
<1> HIDE DEF m
<1>3. /\ OneMoves(r) /\ req' \in [Request -> Requesting] /\ req'[r].pc = "tokens"
      /\ req'[r].member = req[r].member /\ req'[r].cookie = req[r].cookie /\ req'[r].kind = req[r].kind
  BY <1>1, GotoMoves DEF MemberInv
<1>4. /\ session' \in [Session -> SessionRow]
      /\ \A s \in Session : /\ session'[s] \in {session[s], Dead(s)}
                            /\ session[s].member = m => ~session'[s].live
  BY <1>1, RevokedSessions, MembersAssumption DEF MemberInv
<1>5. MemberTypes'
  BY <1>1, <1>2, <1>3, <1>4 DEF MemberInv, MemberTypes, Roles
<1>6. \A n \in Member : Exists(n) => Exists(n)'
  BY <1>1, <1>2 DEF Exists, MemberInv, MemberTypes
<1>7. \A s \in Session : session'[s].member = session[s].member
  BY <1>4 DEF Dead, MemberInv, MemberTypes, SessionRow
<1>8. RequestRow(r)'
  BY <1>2, <1>3, <1>6, <1>7 DEF RequestRow, At, Holder, Requesting, MemberInv, MemberTypes, m
<1>9. (\A n \in Member : r \notin Setting(n)') /\ r \notin Guessing' /\ ~Ending(r)
  BY <1>1, <1>3 DEF Setting, Guessing, At, Ending
<1>10. \A s \in Session : session'[s].live => role'[Holder(s)] = role[Holder(s)]
  BY <1>1, <1>4 DEF Holder, MemberInv, MemberTypes
<1>11. \A s \in Session : session'[s] = session[s] \/ session'[s] = Dead(s)
  BY <1>4
<1> QED
  BY <1>1, <1>3, <1>5, <1>6, <1>8, <1>9, <1>10, <1>11, MovesEnding

LEMMA AfterTokensKeeps ==
    ASSUME MemberInv, NEW r \in Request, AfterTokens(r), scene' = scene
    PROVE  MemberInv'
<1>1. At(r, "tokens") /\ UNCHANGED <<role, disabled, cred, session, window, wrong, broken>>
  BY DEF AfterTokens
<1>2. PICK label \in {"idle", "guard"} :
        Goto(r, label) /\ (label = "guard" => req[r].disable # None)
  BY DEF AfterTokens
<1>3. RequestRow(r) /\ req[r] \in Requesting
  BY DEF MemberInv, MemberTypes
<1>4. OneMoves(r) /\ req' \in [Request -> Requesting] /\ req'[r].pc = label
  BY <1>2, GotoIdle, GotoMoves DEF MemberInv
<1>5. /\ label = "idle" => req'[r].cookie = None
      /\ label = "guard" => /\ req'[r].member = req[r].member /\ req'[r].cookie = req[r].cookie
                            /\ req'[r].kind = req[r].kind /\ req'[r].disable = req[r].disable
  BY <1>2, GotoIdle, GotoMoves DEF MemberInv
<1>6. MemberTypes'
  BY <1>1, <1>4 DEF MemberInv, MemberTypes
<1>7. req[r].disable \in BOOLEAN \cup {None}
  BY <1>3 DEF Requesting
<1>8. RequestRow(r)'
  BY <1>1, <1>2, <1>3, <1>4, <1>5, <1>7 DEF RequestRow, At, Holder, Exists
<1>9. (\A n \in Member : r \notin Setting(n)') /\ r \notin Guessing' /\ ~Ending(r)
  BY <1>1, <1>4 DEF Setting, Guessing, At, Ending
<1> QED
  BY <1>1, <1>4, <1>6, <1>8, <1>9, MovesEnding DEF Exists

LEMMA GuardDisableKeeps ==
    ASSUME MemberInv, NEW r \in Request, GuardDisable(r), scene' = scene
    PROVE  MemberInv'
<1> DEFINE m == req[r].member
<1>1. /\ At(r, "guard") /\ UNCHANGED <<role, disabled, cred, session, window, wrong, broken>>
      /\ Goto(r, "idle") \/ req' = [req EXCEPT ![r] = [req[r] EXCEPT !.pc = "disable", !.seen = disabled[m]]]
  BY DEF GuardDisable
<1>2. RequestRow(r) /\ req[r] \in Requesting
  BY DEF MemberInv, MemberTypes
<1>3. m \in Member /\ disabled[m] \in BOOLEAN /\ req[r].disable \in BOOLEAN
  BY <1>1, <1>2 DEF RequestRow, At, MemberInv, MemberTypes
<1>4. ASSUME Goto(r, "idle") PROVE MemberInv'
  <2>1. OneMoves(r) /\ req' \in [Request -> Requesting] /\ req'[r].pc = "idle" /\ req'[r].cookie = None
    BY <1>4, GotoIdle DEF MemberInv
  <2>2. MemberTypes'
    BY <1>1, <2>1 DEF MemberInv, MemberTypes
  <2>3. RequestRow(r)'
    BY <2>1 DEF RequestRow, At
  <2>4. (\A n \in Member : r \notin Setting(n)') /\ r \notin Guessing' /\ ~Ending(r)
    BY <1>1, <2>1 DEF Setting, Guessing, At, Ending
  <2> QED
    BY <1>1, <2>1, <2>2, <2>3, <2>4, MovesEnding DEF Exists
<1>5. ASSUME req' = [req EXCEPT ![r] = [req[r] EXCEPT !.pc = "disable", !.seen = disabled[m]]]
      PROVE  MemberInv'
  <2>1. [req[r] EXCEPT !.pc = "disable", !.seen = disabled[m]] \in Requesting
    BY <1>2, <1>3 DEF Requesting
  <2>2. OneMoves(r) /\ req' \in [Request -> Requesting]
    BY <1>5, <2>1 DEF OneMoves, MemberInv, MemberTypes
  <2>3. /\ req'[r].pc = "disable" /\ req'[r].cookie = req[r].cookie /\ req'[r].member = req[r].member
        /\ req'[r].kind = req[r].kind /\ req'[r].disable = req[r].disable /\ req'[r].seen = disabled[m]
    BY <1>2, <1>5 DEF MemberInv, MemberTypes, Requesting
  <2>4. MemberTypes'
    BY <1>1, <2>2 DEF MemberInv, MemberTypes
  <2>5. RequestRow(r)'
    BY <1>1, <1>2, <1>3, <2>3 DEF RequestRow, At, Holder, Exists
  <2>6. (\A n \in Member : r \notin Setting(n)') /\ r \notin Guessing' /\ ~Ending(r)
    BY <1>1, <2>3 DEF Setting, Guessing, At, Ending
  <2> QED
    BY <1>1, <2>2, <2>4, <2>5, <2>6, MovesEnding DEF Exists
<1> QED BY <1>1, <1>4, <1>5

LEMMA SetDisabledKeeps ==
    ASSUME MemberInv, NEW r \in Request, SetDisabled(r), scene' = scene
    PROVE  MemberInv'
<1> DEFINE m == req[r].member
<1>1. /\ At(r, "disable") /\ Goto(r, "idle") /\ UNCHANGED <<role, cred, window, wrong, broken>>
      /\ disabled' = [disabled EXCEPT ![m] = Column(req[r].disable, req[r].seen, disabled[m])]
      /\ session' = Revoked(m, None) \/ session' = session
  BY DEF SetDisabled
<1>2. m \in Member /\ req[r].disable \in BOOLEAN
  BY <1>1 DEF MemberInv, RequestRow, At
<1> HIDE DEF m
<1>3. OneMoves(r) /\ req' \in [Request -> Requesting] /\ req'[r].pc = "idle" /\ req'[r].cookie = None
  BY <1>1, GotoIdle DEF MemberInv
<1>4. /\ session' \in [Session -> SessionRow]
      /\ \A s \in Session : session'[s] \in {session[s], Dead(s)}
  BY <1>1, RevokedSessions DEF MemberInv, MemberTypes
<1>5. Column(req[r].disable, req[r].seen, disabled[m]) \in BOOLEAN
  BY <1>2 DEF Column, MemberInv, MemberTypes
<1>6. MemberTypes'
  BY <1>1, <1>2, <1>3, <1>4, <1>5 DEF MemberInv, MemberTypes
<1>7. RequestRow(r)'
  BY <1>3 DEF RequestRow, At
<1>8. (\A n \in Member : r \notin Setting(n)') /\ r \notin Guessing' /\ ~Ending(r)
  BY <1>1, <1>3 DEF Setting, Guessing, At, Ending
<1>9. \A s \in Session : session'[s] = session[s] \/ session'[s] = Dead(s)
  BY <1>4
<1> QED
  BY <1>1, <1>3, <1>6, <1>7, <1>8, <1>9, MovesEnding DEF Exists

LEMMA InsertMemberKeeps ==
    ASSUME MemberInv, NEW r \in Request, InsertMember(r), scene' = scene
    PROVE  MemberInv'
<1>1. PICK m \in Member : ~Exists(m) /\ role' = [role EXCEPT ![m] = req[r].role]
  BY DEF InsertMember
<1>2. /\ At(r, "insert") /\ Goto(r, "idle")
      /\ UNCHANGED <<disabled, cred, session, window, wrong, broken>>
  BY DEF InsertMember
<1>3. req[r].role \in {"owner", "member"}
  BY <1>2 DEF MemberInv, RequestRow, At
<1>4. OneMoves(r) /\ req' \in [Request -> Requesting] /\ req'[r].pc = "idle" /\ req'[r].cookie = None
  BY <1>2, GotoIdle DEF MemberInv
<1>5. MemberTypes'
  BY <1>1, <1>2, <1>3, <1>4 DEF MemberInv, MemberTypes, Roles
<1>6. \A n \in Member : Exists(n) => Exists(n)'
  BY <1>1 DEF Exists, MemberInv, MemberTypes
<1>7. RequestRow(r)'
  BY <1>4 DEF RequestRow, At
<1>8. (\A n \in Member : r \notin Setting(n)') /\ r \notin Guessing' /\ ~Ending(r)
  BY <1>2, <1>4 DEF Setting, Guessing, At, Ending
<1>9. \A s \in Session : session'[s].live => role'[Holder(s)] = role[Holder(s)]
  BY <1>1, <1>2 DEF MemberInv, SessionOK, MemberTypes
<1> QED
  BY <1>2, <1>4, <1>5, <1>6, <1>7, <1>8, <1>9, MovesEnding

LEMMA DieKeeps ==
    ASSUME MemberInv, NEW r \in Request, Die(r), scene' = scene
    PROVE  MemberInv'
<1>1. /\ Goto(r, "idle") /\ UNCHANGED <<role, disabled, cred, session, window, wrong>>
      /\ broken' = IF Ending(r) THEN broken \cup {req[r].member} ELSE broken
  BY DEF Die
<1>2. OneMoves(r) /\ req' \in [Request -> Requesting] /\ req'[r].pc = "idle" /\ req'[r].cookie = None
  BY <1>1, GotoIdle DEF MemberInv
<1>3. Ending(r) => req[r].member \in Member
  BY DEF Ending, At, MemberInv, RequestRow
<1>4. MemberTypes'
  BY <1>1, <1>2, <1>3 DEF MemberInv, MemberTypes
<1>5. RequestRow(r)'
  BY <1>2 DEF RequestRow, At
<1>6. (\A n \in Member : r \notin Setting(n)') /\ r \notin Guessing'
  BY <1>2 DEF Setting, Guessing, At
<1> QED
  BY <1>1, <1>2, <1>4, <1>5, <1>6, MovesEnding DEF Exists

\* What is stored, and where the request goes from there.
LEMMA StoredRow ==
    ASSUME MemberInv, NEW r \in Request, StorePassword(r)
    PROVE  LET m == req[r].member IN
           /\ m \in Member /\ cred[m] \in Credential /\ r \in Setting(m)
           /\ cred' = [cred EXCEPT ![m] = cred'[m]] /\ cred'[m] \in Credential
           /\ cred'[m].failed <= cred[m].failed
           /\ cred'[m].pw >= cred[m].pw
           /\ OneMoves(r) /\ req' \in [Request -> Requesting]
           /\ req'[r].pc = "idle" => req'[r].cookie = None
           /\ req'[r].pc # "idle" =>
                 /\ req'[r].member = m /\ req'[r].cookie = req[r].cookie /\ req'[r].kind = req[r].kind
                 /\ req'[r].seen = cred'[m] /\ cred'[m].pw > 0
           /\ \/ /\ cred'[m].pw = cred[m].pw /\ req'[r].pc = "idle"
              \/ /\ cred'[m].pw = cred[m].pw + 1 /\ req'[r].pc \in {"idle", "open", "owner", "revoke"}
                 /\ ~(req[r].seen.pw = 0 /\ cred[m].pw > 0)
                 /\ ~First(r) => Ending(r)'
                 /\ req'[r].pc = "owner" => req[r].kind = "adminReset"
<1> DEFINE m == req[r].member
           seen == req[r].seen
           new == Replaced(seen, cred[m])
<1>1. At(r, "store") /\ RequestRow(r) /\ req[r] \in Requesting
  BY DEF StorePassword, MemberInv, MemberTypes
<1>2. /\ m \in Member /\ seen \in Credential /\ cred[m] \in Credential /\ req[r].kind # "login"
      /\ r \in Setting(m)
  BY <1>1 DEF RequestRow, At, Setting, MemberInv, MemberTypes
<1>3. cred[m].pw \in Nat /\ cred[m].failed \in Nat /\ MaxPassword \in Nat
  BY <1>2, CredentialNumbers, MembersAssumption
<1>4. cred[m].pw + 1 <= MaxPassword
  <2>1. Setting(m) \in SUBSET Request
    BY DEF Setting
  <2>2. /\ IsFiniteSet(Setting(m)) /\ Cardinality(Setting(m)) \in Nat
    BY <2>1, SettingsFinite
  <2>3. Cardinality(Setting(m)) # 0
    BY <1>2, <2>2, FS_EmptySet
  <2> QED
    BY <1>2, <1>3, <2>2, <2>3 DEF MemberInv, CredentialOK
<1>5. /\ Cleared(seen, cred[m]) \in Credential /\ Cleared(seen, cred[m]).failed <= cred[m].failed
      /\ Cleared(seen, cred[m]).pw = cred[m].pw
  BY <1>2, ClearedRow
<1>6. /\ new \in Credential /\ new.pw = cred[m].pw + 1 /\ new.failed <= cred[m].failed
  <2>1. cred[m].pw + 1 \in 0 .. MaxPassword
    BY <1>3, <1>4
  <2> QED
    BY <1>5, <2>1 DEF Credential, Replaced
<1>7. CASE seen.pw = 0 /\ cred[m].pw > 0
  <2>1. Goto(r, "idle") /\ cred' = cred
    BY <1>7 DEF StorePassword
  <2>2. OneMoves(r) /\ req' \in [Request -> Requesting] /\ req'[r].pc = "idle" /\ req'[r].cookie = None
    BY <2>1, GotoIdle DEF MemberInv
  <2>3. cred' = [cred EXCEPT ![m] = cred'[m]]
    BY <2>1 DEF MemberInv, MemberTypes
  <2> QED
    BY <1>2, <1>3, <2>1, <2>2, <2>3
<1>8. CASE ~(seen.pw = 0 /\ cred[m].pw > 0)
  <2> DEFINE label == CASE req[r].kind = "init"       -> "open"
                        [] req[r].kind = "adminReset" -> "owner"
                        [] OTHER                      -> "revoke"
  <2>1. /\ cred' = [cred EXCEPT ![m] = new]
        /\ req[r].kind = "adminInit" => Goto(r, "idle")
        /\ req[r].kind # "adminInit" => req' = [req EXCEPT ![r].seen = cred'[m], ![r].pc = label]
    <3>1. /\ cred' = [cred EXCEPT ![m] = new]
          /\ IF req[r].kind = "adminInit" THEN Goto(r, "idle")
             ELSE req' = [req EXCEPT ![r].seen = cred'[m], ![r].pc = label]
      BY <1>8, Zenon DEF StorePassword
    <3> HIDE DEF label
    <3> QED
      BY <3>1, Zenon
  <2>2. cred'[m] = new
    BY <1>2, <2>1 DEF MemberInv, MemberTypes
  <2>3. cred' = [cred EXCEPT ![m] = cred'[m]]
    BY <2>1, <2>2
  <2>4. cred'[m].pw > 0 /\ cred'[m].pw >= cred[m].pw
    BY <1>3, <1>6, <2>2
  <2>5. CASE req[r].kind = "adminInit"
    <3>1. OneMoves(r) /\ req' \in [Request -> Requesting] /\ req'[r].pc = "idle" /\ req'[r].cookie = None
      BY <2>1, <2>5, GotoIdle DEF MemberInv
    <3>2. First(r)
      BY <2>5 DEF First
    <3>3. cred'[m].pw = cred[m].pw + 1 /\ cred'[m].failed <= cred[m].failed /\ cred'[m] \in Credential
      BY <1>6, <2>2
    <3> HIDE DEF new
    <3> QED
      BY <1>2, <1>8, <2>3, <2>4, <3>1, <3>2, <3>3
  <2>6. CASE req[r].kind # "adminInit"
    <3>1. /\ req[r].kind = "init" => label = "open"
          /\ req[r].kind = "adminReset" => label = "owner"
          /\ req[r].kind \notin {"init", "adminReset"} => label = "revoke"
      OBVIOUS
    <3>2. label \in {"open", "owner", "revoke"} /\ (label = "owner" => req[r].kind = "adminReset")
          /\ (~First(r) => label \in {"owner", "revoke"})
      BY <3>1 DEF First
    <3> HIDE DEF label, new
    <3>3. [req[r] EXCEPT !.seen = cred'[m], !.pc = label] \in Requesting
      BY <1>1, <1>6, <2>2, <3>2 DEF Requesting
    <3>4. req' = [req EXCEPT ![r] = [req[r] EXCEPT !.seen = cred'[m], !.pc = label]]
      BY <2>1, <2>6 DEF MemberInv, MemberTypes
    <3>5. OneMoves(r) /\ req' \in [Request -> Requesting]
      BY <3>3, <3>4 DEF OneMoves, MemberInv, MemberTypes
    <3>6. req'[r] = [req[r] EXCEPT !.seen = cred'[m], !.pc = label]
      BY <3>4 DEF MemberInv, MemberTypes
    <3>7. /\ req'[r].pc = label /\ req'[r].member = m /\ req'[r].cookie = req[r].cookie
          /\ req'[r].kind = req[r].kind /\ req'[r].seen = cred'[m]
      BY <1>1, <3>6 DEF Requesting
    <3>8. ~First(r) => Ending(r)'
      BY <3>2, <3>7 DEF Ending, At
    <3> QED
      BY <1>2, <1>6, <1>8, <2>2, <2>3, <2>4, <3>2, <3>5, <3>7, <3>8
  <2> QED BY <2>5, <2>6
<1> QED BY <1>7, <1>8

LEMMA StorePasswordKeeps ==
    ASSUME MemberInv, NEW r \in Request, StorePassword(r), scene' = scene
    PROVE  MemberInv'
<1> DEFINE m == req[r].member
<1>1. /\ m \in Member /\ cred[m] \in Credential /\ r \in Setting(m)
      /\ cred' = [cred EXCEPT ![m] = cred'[m]] /\ cred'[m] \in Credential
      /\ cred'[m].failed <= cred[m].failed
      /\ cred'[m].pw >= cred[m].pw
      /\ OneMoves(r) /\ req' \in [Request -> Requesting]
      /\ req'[r].pc = "idle" => req'[r].cookie = None
      /\ req'[r].pc # "idle" =>
            /\ req'[r].member = m /\ req'[r].cookie = req[r].cookie /\ req'[r].kind = req[r].kind
            /\ req'[r].seen = cred'[m] /\ cred'[m].pw > 0
      /\ \/ /\ cred'[m].pw = cred[m].pw /\ req'[r].pc = "idle"
         \/ /\ cred'[m].pw = cred[m].pw + 1 /\ req'[r].pc \in {"idle", "open", "owner", "revoke"}
            /\ ~(req[r].seen.pw = 0 /\ cred[m].pw > 0)
            /\ ~First(r) => Ending(r)'
            /\ req'[r].pc = "owner" => req[r].kind = "adminReset"
  BY StoredRow
<1>2. /\ UNCHANGED <<role, disabled, window, wrong>> /\ At(r, "store")
      /\ session' = [s \in Session |-> IF s = req[r].cookie
                                      THEN [session[s] EXCEPT !.pw = cred'[m].pw]
                                      ELSE session[s]]
      /\ broken' = IF First(r) /\ req[r].seen.pw > 0 THEN broken \cup {m} ELSE broken
  BY DEF StorePassword
<1>3. RequestRow(r) /\ req[r].seen \in Credential /\ Exists(m)
  BY <1>2 DEF MemberInv, RequestRow, At
<1>4. req[r].cookie # None => Holder(req[r].cookie) = m
  BY <1>3 DEF RequestRow
<1> HIDE DEF m
<1>5. \A s \in Session :
        /\ session'[s].member = session[s].member /\ session'[s].live = session[s].live
        /\ session'[s].as = session[s].as /\ session'[s].late = session[s].late
        /\ s # req[r].cookie => session'[s] = session[s]
        /\ s = req[r].cookie => session'[s].pw = cred'[m].pw
        /\ session'[s] \in SessionRow
  <2>1. cred'[m].pw \in 0 .. MaxPassword
    BY <1>1 DEF Credential
  <2> QED
    BY <1>2, <2>1 DEF MemberInv, MemberTypes, SessionRow
<1>6. MemberTypes'
  <2>1. session' \in [Session -> SessionRow]
    BY <1>2, <1>5
  <2>2. cred' \in [Member -> Credential]
    BY <1>1 DEF MemberInv, MemberTypes
  <2> QED
    BY <1>1, <1>2, <2>1, <2>2 DEF MemberInv, MemberTypes
<1>7. \A n \in Member : /\ n # m => cred'[n] = cred[n]
                        /\ cred[n].pw \in Nat /\ cred'[n].pw \in Nat /\ cred'[n].pw >= cred[n].pw
                        /\ cred[n].failed \in Nat /\ cred'[n].failed \in Nat /\ wrong[n] \in Nat
  <2>1. \A n \in Member : cred[n] \in Credential /\ cred'[n] \in Credential /\ wrong[n] \in 0 .. MaxAttempts
    BY <1>6, <1>2 DEF MemberInv, MemberTypes
  <2>2. \A n \in Member : n # m => cred'[n] = cred[n]
    BY <1>1 DEF MemberInv, MemberTypes
  <2> QED
    BY <1>1, <2>1, <2>2, CredentialNumbers, MembersAssumption
<1>8. ASSUME NEW q \in Request PROVE RequestRow(q)'
  <2>1. CASE q = r
    BY <1>1, <1>2, <1>3, <1>4, <1>5, <2>1 DEF RequestRow, At, Exists, Holder, Requesting, MemberInv,
       MemberTypes
  <2>2. CASE q # r
    <3>1. req'[q] = req[q]
      BY <1>1, <2>2 DEF OneMoves
    <3>2. At(q, "check") => wrong'[req[q].member] >= wrong[req[q].member]
      BY <1>2, <1>7 DEF MemberInv, RequestRow, At
    <3> QED
      BY <1>2, <1>5, <1>6, <1>7, <3>1, <3>2, RowFrame DEF Exists
  <2> QED BY <2>1, <2>2
<1>9. ASSUME NEW s \in Session PROVE SessionOK(s)' /\ SessionKnows(s)'
  <2>1. SessionOK(s)'
    BY <1>2, <1>5, <1>6, <1>7, SessionFrame
  <2>2. CASE s = req[r].cookie
    <3>1. Holder(s)' = m
      BY <1>4, <1>5, <2>2, MembersAssumption DEF Holder
    <3> QED
      BY <1>5, <2>1, <2>2, <3>1 DEF SessionKnows
  <2>3. CASE s # req[r].cookie /\ session[s].live /\ Holder(s) = m /\ cred'[m].pw = cred[m].pw + 1
    <3>1. cred[m].pw > 0
      BY <2>3 DEF MemberInv, SessionOK
    <3>2. req[r].seen.pw > 0
      BY <1>1, <1>3, <1>7, <2>3, <3>1, CredentialNumbers
    <3>3. First(r) => Holder(s) \in broken'
      BY <1>2, <2>3, <3>2
    <3>4. ~First(r) => Ending(r)' /\ req'[r].member = m /\ req'[r].cookie # s
      BY <1>1, <1>7, <2>3 DEF Ending, At
    <3> QED
      BY <1>5, <2>1, <2>3, <3>3, <3>4 DEF SessionKnows, Holder
  <2>4. CASE s # req[r].cookie /\ ~(session[s].live /\ Holder(s) = m /\ cred'[m].pw = cred[m].pw + 1)
    <3>1. session[s].live => cred'[Holder(s)].pw = cred[Holder(s)].pw
      BY <1>1, <1>7, <2>4, HolderKnown
    <3>2. ~Ending(r)
      BY <1>2 DEF Ending, At
    <3>3. session'[s] = session[s] /\ broken \subseteq broken' /\ OneMoves(r)
      BY <1>1, <1>2, <1>5, <2>4
    <3>4. SessionKnows(s)'
      BY <3>1, <3>2, <3>3, KnowsFrame
    <3> QED
      BY <2>1, <3>4
  <2> QED BY <2>1, <2>2, <2>3, <2>4
<1>10. ASSUME NEW n \in Member PROVE CredentialOK(n)'
  <2>1. r \notin Setting(n)'
    BY <1>1 DEF Setting, At
  <2>2. cred'[n].failed <= wrong'[n] /\ cred'[n].failed < MaxAttempts
    BY <1>1, <1>2, <1>7, MembersAssumption DEF MemberInv, CredentialOK
  <2>3. CASE cred'[n].pw = cred[n].pw
    BY <1>1, <2>1, <2>2, <2>3, SettingFrame, CredentialFrame
  <2>4. CASE cred'[n].pw # cred[n].pw
    <3>1. n = m /\ cred'[n].pw = cred[n].pw + 1
      BY <1>1, <1>7, <2>4
    <3>2. Setting(n)' \subseteq Setting(n) \ {r} /\ r \in Setting(n)
      BY <1>1, <2>1, <3>1 DEF Setting, OneMoves, At
    <3>3. Setting(n) \in SUBSET Request /\ Setting(n)' \in SUBSET Request
      BY DEF Setting
    <3>4. /\ IsFiniteSet(Setting(n)) /\ Cardinality(Setting(n)) \in Nat
          /\ Cardinality(Setting(n)') \in Nat
      BY <3>3, SettingsFinite
    <3>5. IsFiniteSet(Setting(n) \ {r}) /\ Cardinality(Setting(n) \ {r}) = Cardinality(Setting(n)) - 1
      BY <3>2, <3>4, FS_RemoveElement
    <3>6. Cardinality(Setting(n)') <= Cardinality(Setting(n)) - 1
      BY <3>2, <3>5, FS_Subset
    <3>7. cred'[n].pw + Cardinality(Setting(n)') <= MaxPassword
      <4>1. cred[n].pw + Cardinality(Setting(n)) <= MaxPassword
        BY DEF MemberInv, CredentialOK
      <4>2. MaxPassword \in Nat /\ cred[n].pw \in Nat
        BY <1>7, MembersAssumption
      <4> HIDE DEF Setting
      <4> QED
        BY <3>1, <3>4, <3>6, <4>1, <4>2
    <3>8. Cardinality(Setting(n))' = Cardinality(Setting(n)')
      OBVIOUS
    <3> QED
      BY <2>2, <3>7, <3>8 DEF CredentialOK
  <2> QED BY <2>3, <2>4
<1>11. WindowOK'
  <2>1. r \notin Guessing'
    BY <1>1 DEF Guessing, At
  <2> QED
    BY <1>1, <1>2, <2>1, GuessingFrame, WindowFrame
<1> QED
  BY <1>6, <1>8, <1>9, <1>10, <1>11 DEF MemberInv

-----------------------------------------------------------------------------
(* Members: time, the beginning, and all steps together.                    *)

\* What happens beside the requests.
LEMMA NobodyMoves ==
    ASSUME MemberInv, UNCHANGED <<req, role, broken>>, MemberTypes',
           \A m \in Member : /\ cred'[m].pw = cred[m].pw /\ cred'[m].failed = cred[m].failed
                             /\ wrong'[m] = wrong[m],
           \A s \in Session : session'[s] = session[s] \/ session'[s] = Dead(s),
           WindowOK'
    PROVE  MemberInv'
<1>1. \A s \in Session : /\ ~session'[s].live \/ session'[s] = session[s]
                         /\ session'[s].member = session[s].member
  BY DEF MemberInv, MemberTypes, SessionRow, Dead
<1>2. \A m \in Member : cred'[m].pw >= cred[m].pw /\ wrong'[m] >= wrong[m]
  <2>1. SUFFICES ASSUME NEW m \in Member PROVE cred'[m].pw >= cred[m].pw /\ wrong'[m] >= wrong[m]
    OBVIOUS
  <2>2. cred[m] \in Credential /\ wrong[m] \in 0 .. MaxAttempts
    BY DEF MemberInv, MemberTypes
  <2>3. cred[m].pw \in Nat /\ wrong[m] \in Nat
    BY <2>2, CredentialNumbers
  <2>4. cred'[m].pw = cred[m].pw /\ wrong'[m] = wrong[m]
    OBVIOUS
  <2> QED
    BY <2>3, <2>4
<1>3. ASSUME NEW q \in Request PROVE RequestRow(q)'
  <2>1. At(q, "check") => wrong'[req[q].member] >= wrong[req[q].member]
    BY <1>2 DEF MemberInv, RequestRow, At
  <2> QED
    BY <1>1, <1>2, <2>1, RowFrame DEF Exists
<1>4. ASSUME NEW s \in Session PROVE SessionOK(s)' /\ SessionKnows(s)'
  <2>1. SessionOK(s)'
    BY <1>1, <1>2, SessionFrame
  <2>2. SessionKnows(s)'
    <3>1. \A q \in Request : Ending(q) => Ending(q)' /\ req'[q] = req[q]
      BY DEF Ending, At
    <3> QED
      BY <1>1, <3>1, HolderKnown, KnowsStays
  <2> QED BY <2>1, <2>2
<1>5. ASSUME NEW m \in Member PROVE CredentialOK(m)'
  <2>1. Setting(m)' = Setting(m)
    BY DEF Setting, At
  <2> QED
    BY <2>1, CredentialFrame DEF MemberInv, CredentialOK
<1> QED
  BY <1>3, <1>4, <1>5 DEF MemberInv

LEMMA TimeKeeps ==
    ASSUME MemberInv, EndSession \/ LockEnds \/ WindowEnds \/ UNCHANGED mvars, scene' = scene
    PROVE  MemberInv'
<1>0. req' = req /\ role' = role /\ broken' = broken /\ wrong' = wrong /\ disabled' = disabled
  BY DEF EndSession, LockEnds, WindowEnds, mvars
<1>1. Guessing' = Guessing
  BY <1>0 DEF Guessing, At
<1>2. window' = window => WindowOK'
  BY <1>1, WindowFrame
<1>3. CASE EndSession
  <2>1. PICK s \in Session : session' = [session EXCEPT ![s] = Dead(s)]
    BY <1>3 DEF EndSession
  <2>2. cred' = cred /\ window' = window
    BY <1>3 DEF EndSession
  <2>3. Dead(s) \in SessionRow
    BY DEF Dead, MemberInv, MemberTypes, SessionRow
  <2>4. \A u \in Session : session'[u] = session[u] \/ session'[u] = Dead(u)
    BY <2>1 DEF MemberInv, MemberTypes
  <2>5. MemberTypes'
    BY <1>0, <2>1, <2>2, <2>3 DEF MemberInv, MemberTypes
  <2> QED
    BY <1>0, <1>2, <2>2, <2>4, <2>5, NobodyMoves
<1>4. CASE LockEnds
  <2>1. PICK m \in Member : cred' = [cred EXCEPT ![m] = [cred[m] EXCEPT !.lock = "past"]]
    BY <1>4 DEF LockEnds
  <2>2. session' = session /\ window' = window
    BY <1>4 DEF LockEnds
  <2>3. \A n \in Member : /\ cred'[n] \in Credential
                          /\ cred'[n].pw = cred[n].pw /\ cred'[n].failed = cred[n].failed
    BY <2>1 DEF MemberInv, MemberTypes, Credential
  <2>4. MemberTypes'
    BY <1>0, <2>1, <2>2, <2>3 DEF MemberInv, MemberTypes
  <2> QED
    BY <1>0, <1>2, <2>2, <2>3, <2>4, NobodyMoves
<1>5. CASE WindowEnds
  <2>1. window' = [count |-> 0, failures |-> 0] /\ cred' = cred /\ session' = session
    BY <1>5 DEF WindowEnds
  <2>2. MemberTypes'
    BY <1>0, <2>1 DEF MemberInv, MemberTypes
  <2>3. WindowOK'
    <3>1. Guessing \in SUBSET Request
      BY DEF Guessing
    <3>2. /\ Cardinality(Guessing) \in Nat /\ Cardinality(Request) \in Nat
          /\ Cardinality(Guessing) <= Cardinality(Request)
      BY <3>1, SettingsFinite
    <3>3. Cardinality(Guessing)' = Cardinality(Guessing)
      BY <1>1
    <3>4. window'.count = 0 /\ window'.failures = 0 /\ LoginLimit \in Nat \ {0}
      BY <2>1, MembersAssumption
    <3> HIDE DEF Guessing
    <3> QED
      BY <3>2, <3>3, <3>4 DEF WindowOK
  <2> QED
    BY <1>0, <2>1, <2>2, <2>3, NobodyMoves
<1>6. CASE UNCHANGED mvars
  <2>1. MemberTypes' /\ window' = window /\ cred' = cred /\ session' = session
    BY <1>6 DEF mvars, MemberInv, MemberTypes
  <2> QED
    BY <1>0, <1>2, <2>1, NobodyMoves
<1> QED BY <1>3, <1>4, <1>5, <1>6

LEMMA MemberMoves ==
    ASSUME MemberInv, scene' = scene,
           NEW r \in Request, SignIn(r) \/ Manage(r) \/ AfterTokens(r)
    PROVE  MemberInv'
<1>1. CASE SignIn(r)
  BY <1>1, BeginLoginKeeps, CheckPasswordKeeps, CountFailureKeeps, OpenSessionKeeps, BeginChangeKeeps,
     BeginSettingKeeps, FetchCredentialKeeps, StorePasswordKeeps, FetchOwnerKeeps,
     RevokeSessionsKeeps
  DEF SignIn
<1>2. CASE Manage(r)
  BY <1>2, BeginUpdateKeeps, ApplyRoleKeeps, GuardDisableKeeps, SetDisabledKeeps, BeginAddKeeps,
     InsertMemberKeeps, DieKeeps
  DEF Manage
<1> QED
  BY <1>1, <1>2, AfterTokensKeeps

LEMMA MemberInitial == Init => MemberInv
<1> SUFFICES ASSUME Init PROVE MemberInv
  OBVIOUS
<1>1. /\ scene \in Scenes /\ role = scene.roles /\ role \in [Member -> Roles]
      /\ scene.signed # None => scene.signed \in Member /\ role[scene.signed] # "none"
  BY MembersAssumption DEF Init, Roles
<1>2. /\ disabled = [m \in Member |-> FALSE] /\ wrong = [m \in Member |-> 0] /\ broken = {}
      /\ window = [count |-> 0, failures |-> 0] /\ req = [r \in Request |-> Idle]
  BY DEF Init
<1>3. cred = [m \in Member |-> IF role[m] = "none" THEN NoCredential
                               ELSE [NoCredential EXCEPT !.pw = 1]]
  BY <1>1 DEF Init
<1>4. 0 \in 0 .. MaxPassword /\ 1 \in 0 .. MaxPassword /\ 0 \in 0 .. MaxAttempts /\ 0 < MaxAttempts
      /\ MaxPassword \in Nat /\ 1 <= MaxPassword
  BY MembersAssumption
<1>5. \A m \in Member : /\ cred[m] \in Credential /\ cred[m].failed = 0 /\ cred[m].pw \in {0, 1}
                        /\ role[m] # "none" => cred[m].pw = 1
  BY <1>3, <1>4 DEF NoCredential, Credential
<1>6. cred \in [Member -> Credential]
  BY <1>3, <1>5
<1>7. PICK first \in Session :
        session = [s \in Session |-> IF s = first /\ scene.signed # None
                                     THEN [NoSession EXCEPT !.member = scene.signed,
                                           !.live = TRUE, !.as = role[scene.signed], !.pw = 1]
                                     ELSE NoSession]
  BY DEF Init
<1>8. \A s \in Session :
        /\ session[s] \in SessionRow
        /\ session[s].live => /\ session[s].member \in Member /\ role[session[s].member] # "none"
                              /\ session[s].as = role[session[s].member] /\ session[s].pw = 1
  BY <1>1, <1>4, <1>7 DEF NoSession, SessionRow, Roles
<1>9. session \in [Session -> SessionRow]
  BY <1>7, <1>8
<1>10. MemberTypes
  <2>1. Idle \in Requesting
    BY DEF Idle, Requesting
  <2> QED
    BY <1>1, <1>2, <1>4, <1>6, <1>9, <2>1 DEF MemberTypes
<1>11. \A r \in Request : RequestRow(r)
  BY <1>2 DEF RequestRow, At, Idle
<1>12. \A s \in Session : SessionOK(s) /\ SessionKnows(s)
  BY <1>5, <1>8 DEF SessionOK, SessionKnows, Holder, Exists
<1>13. ASSUME NEW m \in Member PROVE CredentialOK(m)
  <2>1. Setting(m) = {}
    BY <1>2 DEF Setting, At, Idle
  <2>2. Cardinality(Setting(m)) = 0
    BY <2>1, FS_EmptySet
  <2> QED
    BY <1>2, <1>4, <1>5, <2>2 DEF CredentialOK
<1>14. WindowOK
  <2>1. Guessing = {}
    BY <1>2 DEF Guessing, At, Idle
  <2>2. Cardinality(Guessing) = 0
    BY <2>1, FS_EmptySet
  <2>3. Cardinality(Request) \in Nat /\ LoginLimit \in Nat \ {0}
    BY MembersAssumption, FS_CardinalityType
  <2> QED
    BY <1>2, <2>2, <2>3 DEF WindowOK
<1> QED
  BY <1>10, <1>11, <1>12, <1>13, <1>14 DEF MemberInv

\* What the invariant says of members, sessions and passwords.
LEMMA MembersHold ==
    MemberInv => TypeOK /\ SessionsFollowRole /\ OldPasswordIsOut /\ FailuresBounded
<1> SUFFICES ASSUME MemberInv PROVE TypeOK /\ SessionsFollowRole /\ OldPasswordIsOut /\ FailuresBounded
  OBVIOUS
<1>1. TypeOK
  <2>1. window.count \in 0 .. LoginLimit /\ window.failures \in Nat
    BY MembersAssumption DEF MemberInv, MemberTypes, WindowOK
  <2>2. \A r \in Request :
          /\ req[r].cookie \in Session \cup {None}
          /\ req[r].member \in Member \cup {None} /\ req[r].by \in Member \cup {None}
    BY DEF MemberInv, MemberTypes, Requesting
  <2>3. \A r \in Request : req[r].pc \notin {"idle", "insert"} => req[r].member # None
    BY MembersAssumption DEF MemberInv, RequestRow
  <2>4. session \in [Session -> [member : Member \cup {None}, live : BOOLEAN,
                                 as : {"owner", "member", "none"}, pw : 0 .. MaxPassword,
                                 late : BOOLEAN]]
    BY DEF MemberInv, MemberTypes, SessionRow, Roles
  <2> QED
    BY <2>1, <2>2, <2>3, <2>4 DEF TypeOK, MemberInv, MemberTypes, Roles
<1>2. SessionsFollowRole
  BY DEF MemberInv, SessionOK, SessionsFollowRole
<1>3. OldPasswordIsOut
  BY DEF MemberInv, SessionKnows, OldPasswordIsOut
<1>4. FailuresBounded
  <2>1. Guessing \in SUBSET Request
    BY DEF Guessing
  <2>2. Cardinality(Guessing) \in Nat /\ Cardinality(Request) \in Nat
    BY <2>1, SettingsFinite
  <2> HIDE DEF Guessing
  <2> QED
    BY <2>2, MembersAssumption DEF MemberInv, MemberTypes, WindowOK, FailuresBounded
<1> QED
  BY <1>1, <1>2, <1>3, <1>4

\* A member is locked out by a verification only.
LEMMA LockedByCheck ==
    ASSUME MemberInv,
           \/ \E r \in Request : SignIn(r) \/ Manage(r) \/ AfterTokens(r)
           \/ EndSession \/ LockEnds \/ WindowEnds
           \/ UNCHANGED mvars,
           NEW m \in Member, cred[m].lock # "now", cred'[m].lock = "now"
    PROVE  wrong[m] + 1 >= MaxAttempts
<1>1. cred' # cred
  OBVIOUS
<1>2. ~LockEnds
  <2>1. ASSUME LockEnds PROVE FALSE
    <3>1. PICK n \in Member : cred' = [cred EXCEPT ![n] = [cred[n] EXCEPT !.lock = "past"]]
      BY <2>1 DEF LockEnds
    <3> QED
      BY <3>1 DEF MemberInv, MemberTypes, Credential
  <2> QED BY <2>1
<1>3. PICK r \in Request : CheckPassword(r) \/ StorePassword(r)
  BY <1>1, <1>2 DEF SignIn, Manage, BeginLogin, CountFailure, OpenSession, BeginChange, BeginReset,
     BeginInitial, BeginAdmin, FetchCredential, FetchOwner, RevokeSessions, BeginUpdate, ApplyRole,
     GuardDisable, SetDisabled, BeginAdd, InsertMember, Die, AfterTokens, EndSession, WindowEnds, mvars
<1>4. CASE CheckPassword(r)
  <2>1. /\ req[r].member \in Member /\ cred' = [cred EXCEPT ![req[r].member] = cred'[req[r].member]]
        /\ cred[req[r].member].lock # "now" /\ cred'[req[r].member].lock = "now"
             => wrong[req[r].member] + 1 >= MaxAttempts
    BY <1>4, CheckCounts
  <2>2. m = req[r].member
    BY <2>1 DEF MemberInv, MemberTypes
  <2> QED
    BY <2>1, <2>2
<1>5. CASE StorePassword(r)
  <2>1. req[r].seen \in Credential
    BY <1>5 DEF StorePassword, MemberInv, RequestRow, At
  <2>2. cred' = cred \/ cred' = [cred EXCEPT ![req[r].member] = Replaced(req[r].seen, @)]
    BY <1>5 DEF StorePassword
  <2>3. req[r].member = m /\ cred'[m] = Replaced(req[r].seen, cred[m])
    BY <2>2 DEF MemberInv, MemberTypes
  <2>4. Cleared(req[r].seen, cred[m]).lock \in {"no", cred[m].lock}
    BY <2>1, ClearedRow DEF MemberInv, MemberTypes
  <2>5. Replaced(req[r].seen, cred[m]).lock = Cleared(req[r].seen, cred[m]).lock
    <3>1. Cleared(req[r].seen, cred[m]) \in Credential
      BY <2>1, ClearedRow DEF MemberInv, MemberTypes
    <3> QED
      BY <3>1 DEF Replaced, Credential
  <2> QED
    BY <2>3, <2>4, <2>5
<1> QED BY <1>3, <1>4, <1>5

-----------------------------------------------------------------------------
(* Agents: what a step leaves as it is.                                     *)

\* Steps that change no scopes take grants away and nothing else of what there is.
Steady(g) ==
    /\ grant'[g].version = grant[g].version /\ grant'[g].scopes = grant[g].scopes
    /\ grant'[g].client = grant[g].client /\ grant'[g].member = grant[g].member
    /\ grant[g].mixed => grant'[g].mixed
    /\ grant'[g].status # "none"
    /\ grant'[g].status = "active" => grant[g].status = "active"

Lasting(t) ==
    /\ token'[t].grant = token[t].grant /\ token'[t].version = token[t].version
    /\ token'[t].scopes = token[t].scopes /\ token'[t].as = token[t].as
    /\ token[t].revoked => token'[t].revoked

ClientsLast ==
    \A c \in Client : client[c] # "none" =>
        client'[c] # "none" /\ (client'[c] = "active" => client[c] = "active")

MembersLast == \A m \in Member : Exists(m) => Exists(m)'

TokensLast == \A t \in Token : Issued(t) => Lasting(t)

Quiet ==
    /\ scene' = scene /\ ClientsLast /\ MembersLast /\ TokensLast
    /\ \A g \in Grant : Granted(g) => Steady(g)

LEMMA IssuedGranted ==
    ASSUME AgentInv, NEW t \in Token, Issued(t)
    PROVE  /\ token[t].grant \in Grant /\ Granted(token[t].grant) /\ GrantOK(token[t].grant)
           /\ GrantOf(t).member \in Member /\ GrantOf(t).client \in Client
           /\ Exists(GrantOf(t).member) /\ client[GrantOf(t).client] # "none"
<1>1. token[t] \in TokenRow /\ TokenOK(t)
  BY DEF AgentInv, AgentTypes
<1>2. token[t].grant \in Grant
  BY <1>1 DEF TokenRow, Issued
<1> QED
  BY <1>1, <1>2 DEF TokenOK, AgentInv, GrantOK, GrantOf

LEMMA Numbers ==
    ASSUME AgentInv
    PROVE  /\ \A g \in Grant : grant[g].version \in Nat /\ grant[g].mixed \in BOOLEAN
           /\ \A t \in Token : token[t].version \in Nat /\ token[t].revoked \in BOOLEAN
           /\ \A d \in Job : job[d].version \in Nat
<1>1. \A g \in Grant : grant[g] \in GrantRow
  BY DEF AgentInv, AgentTypes
<1>2. \A t \in Token : token[t] \in TokenRow
  BY DEF AgentInv, AgentTypes
<1>3. \A d \in Job : job[d] \in JobRow
  BY DEF AgentInv, AgentTypes
<1> QED
  BY <1>1, <1>2, <1>3 DEF GrantRow, TokenRow, JobRow

LEMMA GrantFrame ==
    ASSUME AgentInv, Quiet, NEW g \in Grant, Granted(g)
    PROVE  GrantOK(g)'
<1>1. GrantOK(g) /\ Steady(g)
  BY DEF AgentInv, Quiet
<1>2. scene'.versions = scene.versions
  BY DEF Quiet
<1> QED
  BY <1>1, <1>2 DEF GrantOK, Steady, Granted, Quiet, ClientsLast, MembersLast

LEMMA TokenFrame ==
    ASSUME AgentInv, Quiet, NEW t \in Token, Issued(t)
    PROVE  Issued(t)' /\ TokenOK(t)'
<1>1. TokenOK(t) /\ Lasting(t) /\ Steady(token[t].grant) /\ token[t].grant \in Grant
  BY IssuedGranted DEF AgentInv, Quiet, TokensLast
<1>2. Issued(t)' /\ Granted(token[t].grant)' /\ token'[t].version > 0
  BY <1>1 DEF TokenOK, Issued, Lasting, Steady, Granted
<1>3. UpTo(token[t].grant, token[t].version, token[t].scopes)'
  BY <1>1 DEF TokenOK, UpTo, Steady, Lasting
<1> QED
  BY <1>2, <1>3 DEF TokenOK

LEMMA KnownFrame ==
    ASSUME AgentInv, Quiet, AgentTypes', NEW t \in Token, Issued(t),
           \A m \in Member : Exists(m) /\ GrantOf(t).member = m =>
              Sweeping(m)' \/ (role'[m] = role[m] /\ ~Sweeping(m))
    PROVE  TokenKnows(t)'
<1>1. TokenKnows(t) /\ Lasting(t) /\ Steady(token[t].grant) /\ token[t].grant \in Grant
  BY IssuedGranted DEF AgentInv, Quiet, TokensLast
<1>2. token[t].revoked \in BOOLEAN /\ token'[t].revoked \in BOOLEAN
  <2>1. token[t] \in TokenRow /\ token'[t] \in TokenRow
    BY DEF AgentInv, AgentTypes
  <2> QED BY <2>1 DEF TokenRow
<1>3. PICK m \in Member : m = GrantOf(t).member /\ Exists(m)
  BY IssuedGranted
<1>4. GrantOf(t)' = grant'[token[t].grant] /\ GrantOf(t)'.member = m
  BY <1>1, <1>3 DEF GrantOf, Lasting, Steady
<1>5. CASE Sweeping(m)'
  BY <1>4, <1>5 DEF TokenKnows, Sweeping
<1>6. CASE role'[m] = role[m] /\ ~Sweeping(m)
  BY <1>1, <1>2, <1>3, <1>4, <1>6 DEF TokenKnows, GrantOf, Lasting, Steady, Issued
<1> QED
  BY <1>3, <1>5, <1>6

\* The call of a token that was good, or is, goes on.
LEMMA CallFrame ==
    ASSUME AgentInv, Quiet, NEW k \in Call, call'[k] = call[k], disabled' = disabled
    PROVE  CallOK(k)'
<1> SUFFICES ASSUME call[k].pc # "idle" PROVE CallOK(k)'
  BY DEF CallOK
<1>1. PICK t \in Token : t = call[k].token /\ Issued(t) /\ CallOK(k)
  BY DEF AgentInv, CallOK
<1>2. Lasting(t) /\ Steady(token[t].grant) /\ token[t].grant \in Grant /\ Issued(t)'
  BY <1>1, IssuedGranted, TokenFrame DEF Quiet, TokensLast
<1>3. GrantOf(t)' = grant'[token[t].grant]
  BY <1>2 DEF GrantOf, Lasting
<1>4. ~ClientGood(t) => ~ClientGood(t)'
  <2>1. PICK c \in Client : c = GrantOf(t).client /\ client[c] # "none"
    BY <1>1, IssuedGranted
  <2>2. client'[c] = "active" => client[c] = "active"
    BY <2>1 DEF Quiet, ClientsLast
  <2>3. GrantOf(t)'.client = c
    BY <1>2, <1>3, <2>1 DEF GrantOf, Steady
  <2> QED
    BY <2>1, <2>2, <2>3 DEF ClientGood
<1>5. ~MemberGood(t) => ~MemberGood(t)'
  BY <1>2, <1>3 DEF MemberGood, GrantOf, Steady
<1>6. Outdated(t) => Outdated(t)'
  BY <1>2, <1>3 DEF Outdated, GrantOf, Steady, Lasting
<1>7. GrantOf(t).mixed => GrantOf(t)'.mixed
  BY <1>2, <1>3 DEF GrantOf, Steady
<1>8. StillVoid(k) => StillVoid(k)'
  BY <1>1, <1>4, <1>5, <1>6, <1>7 DEF StillVoid
<1>9. token'[t].scopes = token[t].scopes /\ GrantOf(t)'.scopes = GrantOf(t).scopes
  BY <1>2, <1>3 DEF Lasting, Steady, GrantOf
<1> QED
  BY <1>1, <1>2, <1>7, <1>8, <1>9 DEF CallOK

\* An owner's request goes on beside others, unless they change the scopes of its grant.
LEMMA JobFrame ==
    ASSUME AgentInv, Quiet, AgentTypes', NEW d \in Job, job'[d] = job[d],
           Writes(d, job[d].grant) /\ ~grant'[job[d].grant].mixed
              => \A e \in Job \ {d} : Writes(e, job[d].grant)' => Writes(e, job[d].grant)
    PROVE  JobOK(d)'
<1>1. JobOK(d) /\ job[d] \in JobRow
  BY DEF AgentInv, AgentTypes
<1>2. job[d].pc = "insertGrant" => JobOK(d)'
  BY <1>1 DEF JobOK, Quiet, ClientsLast, MembersLast
<1>3. ASSUME job[d].pc \in {"writeScopes", "insertToken"} PROVE JobOK(d)'
  <2>1. job[d].grant \in Grant /\ Granted(job[d].grant) /\ job[d].version > 0
    BY <1>1, <1>3 DEF JobOK
  <2>2. Steady(job[d].grant)
    BY <2>1 DEF Quiet
  <2>3. Granted(job[d].grant)'
    BY <2>2 DEF Steady, Granted
  <2>4. CASE job[d].pc = "insertToken"
    <3>1. UpTo(job[d].grant, job[d].version, job[d].scopes)
      BY <1>1, <2>4 DEF JobOK
    <3>2. UpTo(job[d].grant, job[d].version, job[d].scopes)'
      BY <2>2, <3>1 DEF UpTo, Steady
    <3> QED
      BY <2>1, <2>3, <2>4, <3>2 DEF JobOK
  <2>5. CASE job[d].pc = "writeScopes"
    <3>1. /\ \A t \in job[d].tokens : Issued(t)
          /\ job[d].version <= scene.versions
          /\ ~grant[job[d].grant].mixed =>
                /\ job[d].version = grant[job[d].grant].version + 1
                /\ \A e \in Job \ {d} : ~Writes(e, job[d].grant)
      BY <1>1, <2>5 DEF JobOK
    <3>2. \A t \in job[d].tokens : Issued(t)'
      BY <1>1, <3>1, TokenFrame DEF JobRow
    <3>3. ASSUME ~grant'[job[d].grant].mixed
          PROVE /\ job[d].version = grant'[job[d].grant].version + 1
                /\ \A e \in Job \ {d} : ~Writes(e, job[d].grant)'
      <4>1. ~grant[job[d].grant].mixed
        BY <2>2, <3>3 DEF Steady
      <4>2. Writes(d, job[d].grant)
        BY <2>5 DEF Writes
      <4>3. grant'[job[d].grant].version = grant[job[d].grant].version
        BY <2>2 DEF Steady
      <4> QED
        BY <3>1, <3>3, <4>1, <4>2, <4>3
    <3>4. scene' = scene
      BY DEF Quiet
    <3> QED
      BY <2>1, <2>3, <2>5, <3>1, <3>2, <3>3, <3>4 DEF JobOK
  <2> QED BY <1>3, <2>4, <2>5
<1>4. job[d].pc = "idle" => JobOK(d)'
  BY DEF JobOK
<1> QED
  BY <1>1, <1>2, <1>3, <1>4 DEF JobRow

-----------------------------------------------------------------------------
(* Agents: the owner's requests.                                            *)

\* Who asks for it leaves members alone.
LEMMA SweepingStays ==
    ASSUME UNCHANGED mvars, unswept' = unswept
    PROVE  \A m \in Member : Exists(m) => Sweeping(m)' \/ (role'[m] = role[m] /\ ~Sweeping(m))
BY DEF mvars, Sweeping, At

LEMMA OwnerKeeps ==
    ASSUME AgentInv, Quiet, AgentTypes', UNCHANGED mvars, UNCHANGED <<unswept, call>>,
           NEW d \in Job, \A e \in Job \ {d} : job'[e] = job[e],
           JobOK(d)',
           \A g \in Grant : Writes(d, g)' => \A e \in Job : Writes(e, g) => grant'[g].mixed,
           \A g \in Grant : Granted(g) \/ GrantOK(g)',
           \A t \in Token : Issued(t) \/ (TokenOK(t) /\ TokenKnows(t))'
    PROVE  AgentInv'
<1>1. \A g \in Grant : GrantOK(g)'
  BY GrantFrame
<1>2. \A t \in Token : TokenOK(t)' /\ TokenKnows(t)'
  BY SweepingStays, TokenFrame, KnownFrame
<1>3. ASSUME NEW e \in Job PROVE JobOK(e)'
  <2>1. CASE e = d
    BY <2>1
  <2>2. CASE e # d
    <3>1. job'[e] = job[e]
      BY <2>2
    <3>2. ASSUME Writes(e, job[e].grant), ~grant'[job[e].grant].mixed, NEW f \in Job \ {e},
                 Writes(f, job[e].grant)'
          PROVE  Writes(f, job[e].grant)
      <4>1. job[e].grant \in Grant
        BY <3>2 DEF Writes, AgentInv, JobOK
      <4>2. CASE f = d
        BY <3>1, <3>2, <4>1, <4>2 DEF Writes
      <4>3. CASE f # d
        BY <3>1, <3>2, <4>3 DEF Writes
      <4> QED BY <4>2, <4>3
    <3> QED
      BY <3>1, <3>2, JobFrame
  <2> QED BY <2>1, <2>2
<1>4. ASSUME NEW k \in Call PROVE CallOK(k)'
  BY CallFrame DEF mvars
<1> QED
  BY <1>1, <1>2, <1>3, <1>4 DEF AgentInv

LEMMA JobRests ==
    ASSUME AgentInv, NEW d \in Job, job' = [job EXCEPT ![d] = NoJob]
    PROVE  /\ job' \in [Job -> JobRow] /\ \A e \in Job \ {d} : job'[e] = job[e]
           /\ JobOK(d)' /\ \A g \in Grant : ~Writes(d, g)'
<1>1. NoJob \in JobRow
  BY DEF NoJob, JobRow
<1>2. job'[d] = NoJob
  BY DEF AgentInv, AgentTypes
<1> QED
  BY <1>1, <1>2 DEF AgentInv, AgentTypes, NoJob, JobOK, Writes

LEMMA JobStays ==
    ASSUME AgentInv, NEW d \in Job, Ready(d, "client") \/ job[d].pc = "idle", job' = job
    PROVE  /\ \A e \in Job \ {d} : job'[e] = job[e]
           /\ JobOK(d)' /\ \A g \in Grant : ~Writes(d, g)'
BY DEF AgentInv, AgentTypes, JobOK, Writes, Ready

\* Where there is nothing, nothing is revoked.
LEMMA RevokingLasts ==
    ASSUME AgentInv, NEW T \in SUBSET Token, \A t \in T : Issued(t), token' = Revoking(T)
    PROVE  /\ token' \in [Token -> TokenRow] /\ TokensLast
           /\ \A t \in Token : Issued(t) \/ token'[t] = token[t]
<1>1. \A t \in Token : /\ token[t] \in TokenRow
                       /\ token'[t] = IF t \in T THEN [token[t] EXCEPT !.revoked = TRUE] ELSE token[t]
  BY DEF AgentInv, AgentTypes, Revoking
<1>2. \A t \in Token : token'[t] \in TokenRow
  BY <1>1 DEF TokenRow
<1>3. ASSUME NEW t \in Token PROVE Lasting(t)
  BY <1>1 DEF TokenRow, Lasting
<1>4. \A t \in Token : Issued(t) \/ token'[t] = token[t]
  BY <1>1
<1>5. token' \in [Token -> TokenRow]
  BY <1>2 DEF Revoking
<1> QED
  BY <1>3, <1>4, <1>5 DEF TokensLast

LEMMA UnrevokedIssued ==
    ASSUME NEW gs \in SUBSET Grant
    PROVE  Unrevoked(gs) \in SUBSET Token /\ \A t \in Unrevoked(gs) : Issued(t)
BY AgentAssumption DEF Unrevoked, Issued

LEMMA NotIssued ==
    ASSUME AgentInv, NEW t \in Token, ~Issued(t), token'[t] = token[t]
    PROVE  (TokenOK(t) /\ TokenKnows(t))'
<1>1. TokenOK(t) /\ ~Issued(t)'
  BY DEF AgentInv, Issued
<1> QED
  BY <1>1 DEF TokenOK, TokenKnows

LEMMA NotGranted ==
    ASSUME AgentInv, NEW g \in Grant, ~Granted(g), grant'[g] = grant[g], scene' = scene
    PROVE  GrantOK(g)'
BY DEF AgentInv, GrantOK, Granted

LEMMA SameGrants ==
    ASSUME AgentInv, grant' = grant, scene' = scene
    PROVE  /\ \A g \in Grant : Granted(g) => Steady(g)
           /\ \A g \in Grant : Granted(g) \/ GrantOK(g)'
<1>1. \A g \in Grant : Granted(g) => Steady(g)
  BY DEF Steady, Granted
<1> QED
  BY <1>1, NotGranted

LEMMA SameTokens ==
    ASSUME AgentInv, token' = token
    PROVE  /\ TokensLast
           /\ \A t \in Token : Issued(t) \/ (TokenOK(t) /\ TokenKnows(t))'
<1>1. TokensLast
  BY DEF TokensLast, Lasting
<1> QED
  BY <1>1, NotIssued

LEMMA RegisterClientKeeps ==
    ASSUME AgentInv, NEW d \in Job, RegisterClient(d), UNCHANGED mvars
    PROVE  AgentInv'
<1>0. UNCHANGED <<grant, token, unswept, job, call>> /\ job[d].pc = "idle" /\ scene' = scene
  BY DEF RegisterClient, Ready, mvars
<1>1. PICK c \in Client : client[c] = "none" /\ client' = [client EXCEPT ![c] = "active"]
  BY DEF RegisterClient
<1>2. ClientsLast
  BY <1>1 DEF ClientsLast, AgentInv, AgentTypes
<1>3. AgentTypes'
  BY <1>0, <1>1 DEF AgentInv, AgentTypes
<1>4. Quiet
  BY <1>0, <1>2, SameGrants, SameTokens DEF Quiet, MembersLast, Exists, mvars
<1> QED
  BY <1>0, <1>3, <1>4, SameGrants, SameTokens, JobStays, OwnerKeeps

LEMMA BeginKeeps ==
    ASSUME AgentInv, NEW d \in Job, UNCHANGED <<client, grant, token, unswept, call>>,
           UNCHANGED mvars, NEW rec \in JobRow, job' = [job EXCEPT ![d] = rec],
           JobOK(d)', rec.pc # "writeScopes"
    PROVE  AgentInv'
<1>1. job'[d] = rec /\ (\A e \in Job \ {d} : job'[e] = job[e]) /\ job' \in [Job -> JobRow]
  BY DEF AgentInv, AgentTypes
<1>2. AgentTypes'
  BY <1>1 DEF AgentInv, AgentTypes
<1>3. Quiet
  BY SameGrants, SameTokens DEF Quiet, ClientsLast, MembersLast, Exists, mvars
<1>4. \A g \in Grant : ~Writes(d, g)'
  BY <1>1 DEF Writes
<1>5. scene' = scene
  BY DEF mvars
<1> QED
  BY <1>1, <1>2, <1>3, <1>4, <1>5, SameGrants, SameTokens, OwnerKeeps

LEMMA AbandonKeeps ==
    ASSUME AgentInv, NEW d \in Job, Abandon(d), UNCHANGED mvars
    PROVE  AgentInv'
<1>1. NoJob \in JobRow /\ NoJob.pc # "writeScopes"
  BY DEF NoJob, JobRow
<1> QED
  BY <1>1, JobRests, BeginKeeps DEF Abandon

LEMMA BeginGrantKeeps ==
    ASSUME AgentInv, NEW d \in Job, BeginGrant(d), UNCHANGED mvars
    PROVE  AgentInv'
<1>1. PICK c \in Client, m \in Member, scopes \in ScopeSets :
          /\ client[c] = "active" /\ Exists(m)
          /\ job' = [job EXCEPT ![d] = [NoJob EXCEPT !.pc = "insertGrant", !.client = c,
                                        !.member = m, !.scopes = scopes]]
  BY DEF BeginGrant
<1> DEFINE rec == [NoJob EXCEPT !.pc = "insertGrant", !.client = c, !.member = m, !.scopes = scopes]
<1>2. rec \in JobRow /\ rec.pc = "insertGrant" /\ rec.client = c /\ rec.member = m
  BY DEF NoJob, JobRow
<1> HIDE DEF rec
<1>3. job'[d] = rec /\ client' = client /\ role' = role
  BY <1>1 DEF AgentInv, AgentTypes, BeginGrant, mvars, rec
<1>4. JobOK(d)'
  BY <1>1, <1>2, <1>3 DEF JobOK, Exists
<1> QED
  BY <1>1, <1>2, <1>4, BeginKeeps DEF BeginGrant, rec

LEMMA BeginIssueKeeps ==
    ASSUME AgentInv, NEW d \in Job, BeginIssue(d), UNCHANGED mvars
    PROVE  AgentInv'
<1>1. PICK g \in Grant :
          /\ grant[g].status = "active"
          /\ job' = [job EXCEPT ![d] = [NoJob EXCEPT !.pc = "insertToken", !.grant = g,
                        !.version = grant[g].version, !.scopes = grant[g].scopes]]
  BY DEF BeginIssue
<1> DEFINE rec == [NoJob EXCEPT !.pc = "insertToken", !.grant = g,
                        !.version = grant[g].version, !.scopes = grant[g].scopes]
<1>2. grant[g] \in GrantRow /\ GrantOK(g) /\ Granted(g)
  BY <1>1 DEF AgentInv, AgentTypes, Granted
<1>3. /\ rec \in JobRow /\ rec.pc = "insertToken" /\ rec.grant = g /\ rec.version = grant[g].version
      /\ rec.scopes = grant[g].scopes
  BY <1>2 DEF NoJob, JobRow, GrantRow
<1> HIDE DEF rec
<1>4. job'[d] = rec /\ grant' = grant
  BY <1>1 DEF AgentInv, AgentTypes, BeginIssue, rec
<1>5. JobOK(d)'
  BY <1>2, <1>3, <1>4 DEF JobOK, GrantOK, Granted, UpTo, GrantRow
<1> QED
  BY <1>1, <1>3, <1>5, BeginKeeps DEF BeginIssue, rec

\* Grants that are taken away, with their tokens.
LEMMA RevokedGrants ==
    ASSUME AgentInv, NEW gs \in SUBSET Grant, \A g \in gs : Granted(g),
           grant' = [g \in Grant |-> IF g \in gs THEN [grant[g] EXCEPT !.status = "revoked"]
                                                 ELSE grant[g]],
           scene' = scene
    PROVE  /\ grant' \in [Grant -> GrantRow]
           /\ \A g \in Grant : Granted(g) => Steady(g)
           /\ \A g \in Grant : Granted(g) \/ GrantOK(g)'
<1>1. \A g \in Grant : grant[g] \in GrantRow /\ grant'[g] \in GrantRow
  BY DEF AgentInv, AgentTypes, GrantRow
<1>2. ASSUME NEW g \in Grant, Granted(g) PROVE Steady(g)
  <2>1. CASE g \in gs
    BY <1>1, <2>1 DEF Steady, GrantRow
  <2>2. CASE g \notin gs
    BY <1>2, <2>2 DEF Steady, Granted
  <2> QED BY <2>1, <2>2
<1>3. ASSUME NEW g \in Grant, ~Granted(g) PROVE GrantOK(g)'
  BY <1>3, NotGranted
<1> QED
  BY <1>1, <1>2, <1>3

LEMMA RevokeClientKeeps ==
    ASSUME AgentInv, NEW d \in Job, RevokeClient(d), UNCHANGED mvars
    PROVE  AgentInv'
<1>0. UNCHANGED <<unswept, job, call>> /\ job[d].pc = "idle" /\ scene' = scene
  BY DEF RevokeClient, Ready, mvars
<1>1. PICK c \in Client :
       LET gs == {g \in Grant : grant[g].client = c /\ grant[g].status = "active"} IN
          /\ client[c] = "active"
          /\ client' = [client EXCEPT ![c] = "revoked"]
          /\ grant' = [g \in Grant |-> IF g \in gs THEN [grant[g] EXCEPT !.status = "revoked"]
                                                   ELSE grant[g]]
          /\ token' = Revoking(Unrevoked(gs))
  BY Zenon DEF RevokeClient
<1> DEFINE gs == {g \in Grant : grant[g].client = c /\ grant[g].status = "active"}
<1>2. gs \in SUBSET Grant /\ \A g \in gs : Granted(g)
  BY DEF Granted
<1>3. /\ grant' = [g \in Grant |-> IF g \in gs THEN [grant[g] EXCEPT !.status = "revoked"]
                                                   ELSE grant[g]]
      /\ token' = Revoking(Unrevoked(gs))
  BY <1>1
<1> HIDE DEF gs
<1>4. /\ token' \in [Token -> TokenRow] /\ TokensLast
      /\ \A t \in Token : Issued(t) \/ token'[t] = token[t]
  BY <1>2, <1>3, UnrevokedIssued, RevokingLasts
<1>5. /\ grant' \in [Grant -> GrantRow]
      /\ \A g \in Grant : Granted(g) => Steady(g)
      /\ \A g \in Grant : Granted(g) \/ GrantOK(g)'
  BY <1>0, <1>2, <1>3, RevokedGrants
<1>6. ClientsLast
  BY <1>1 DEF ClientsLast, AgentInv, AgentTypes
<1>7. AgentTypes'
  BY <1>0, <1>1, <1>4, <1>5 DEF AgentInv, AgentTypes
<1>8. Quiet
  BY <1>0, <1>4, <1>5, <1>6 DEF Quiet, MembersLast, Exists, mvars
<1>9. \A t \in Token : Issued(t) \/ (TokenOK(t) /\ TokenKnows(t))'
  BY <1>4, NotIssued
<1> QED
  BY <1>0, <1>5, <1>7, <1>8, <1>9, JobStays, OwnerKeeps

LEMMA RevokeGrantKeeps ==
    ASSUME AgentInv, NEW d \in Job, RevokeGrant(d), UNCHANGED mvars
    PROVE  AgentInv'
<1>0. UNCHANGED <<client, unswept, job, call>> /\ job[d].pc = "idle" /\ scene' = scene
  BY DEF RevokeGrant, Ready, mvars
<1>1. PICK g \in Grant :
          /\ grant[g].status # "none"
          /\ grant' = [grant EXCEPT ![g].status = "revoked"]
          /\ token' = Revoking(Unrevoked({g}))
  BY Zenon DEF RevokeGrant
<1>2. {g} \in SUBSET Grant /\ \A h \in {g} : Granted(h)
  BY <1>1 DEF Granted
<1>3. grant' = [h \in Grant |-> IF h \in {g} THEN [grant[h] EXCEPT !.status = "revoked"]
                                             ELSE grant[h]]
  BY <1>1 DEF AgentInv, AgentTypes
<1>4. /\ token' \in [Token -> TokenRow] /\ TokensLast
      /\ \A t \in Token : Issued(t) \/ token'[t] = token[t]
  BY <1>1, <1>2, UnrevokedIssued, RevokingLasts
<1>5. /\ grant' \in [Grant -> GrantRow]
      /\ \A h \in Grant : Granted(h) => Steady(h)
      /\ \A h \in Grant : Granted(h) \/ GrantOK(h)'
  BY <1>0, <1>2, <1>3, RevokedGrants
<1>7. AgentTypes'
  BY <1>0, <1>4, <1>5 DEF AgentInv, AgentTypes
<1>8. Quiet
  BY <1>0, <1>4, <1>5 DEF Quiet, ClientsLast, MembersLast, Exists, mvars
<1>9. \A t \in Token : Issued(t) \/ (TokenOK(t) /\ TokenKnows(t))'
  BY <1>4, NotIssued
<1> QED
  BY <1>0, <1>5, <1>7, <1>8, <1>9, JobStays, OwnerKeeps

LEMMA RevokeTokenKeeps ==
    ASSUME AgentInv, NEW d \in Job, RevokeToken(d), UNCHANGED mvars
    PROVE  AgentInv'
<1>0. UNCHANGED <<client, grant, unswept, job, call>> /\ job[d].pc = "idle" /\ scene' = scene
  BY DEF RevokeToken, Ready, mvars
<1>1. PICK t \in Token : Issued(t) /\ token' = Revoking({t})
  BY Zenon DEF RevokeToken
<1>2. /\ token' \in [Token -> TokenRow] /\ TokensLast
      /\ \A u \in Token : Issued(u) \/ token'[u] = token[u]
  <2>1. {t} \in SUBSET Token /\ \A u \in {t} : Issued(u)
    BY <1>1
  <2> QED
    BY <1>1, <2>1, RevokingLasts
<1>3. AgentTypes'
  BY <1>0, <1>2 DEF AgentInv, AgentTypes
<1>4. Quiet
  BY <1>0, <1>2, SameGrants DEF Quiet, ClientsLast, MembersLast, Exists, mvars
<1>5. \A u \in Token : Issued(u) \/ (TokenOK(u) /\ TokenKnows(u))'
  BY <1>2, NotIssued
<1> QED
  BY <1>0, <1>3, <1>4, <1>5, SameGrants, JobStays, OwnerKeeps

LEMMA InsertGrantKeeps ==
    ASSUME MemberInv, AgentInv, NEW d \in Job, InsertGrant(d), UNCHANGED mvars
    PROVE  AgentInv'
<1>0. /\ UNCHANGED <<client, token, unswept, call>> /\ job[d].pc = "insertGrant"
      /\ scene' = scene /\ role' = role /\ job' = [job EXCEPT ![d] = NoJob]
  BY DEF InsertGrant, mvars
<1> DEFINE row == [NoGrant EXCEPT !.status = "active", !.version = 1, !.scopes = job[d].scopes,
                                  !.client = job[d].client, !.member = job[d].member]
<1>1. PICK g \in Grant : grant[g].status = "none" /\ grant' = [grant EXCEPT ![g] = row]
  BY Zenon DEF InsertGrant
<1>2. /\ job[d].client \in Client /\ client[job[d].client] # "none"
      /\ job[d].member \in Member /\ Exists(job[d].member) /\ job[d] \in JobRow
  BY <1>0 DEF AgentInv, AgentTypes, JobOK
<1>3. /\ row \in GrantRow /\ row.version = 1 /\ row.client = job[d].client
      /\ row.member = job[d].member
  BY <1>2 DEF NoGrant, GrantRow, JobRow
<1> HIDE DEF row
<1>4. grant' \in [Grant -> GrantRow] /\ grant'[g] = row /\ \A h \in Grant \ {g} : grant'[h] = grant[h]
  BY <1>1, <1>3 DEF AgentInv, AgentTypes
<1>5. \A h \in Grant : Granted(h) => Steady(h)
  BY <1>1, <1>4 DEF Steady, Granted
<1>6. scene.versions \in Nat \ {0}
  BY AgentAssumption DEF MemberInv, MemberTypes
<1>7. GrantOK(g)'
  BY <1>0, <1>2, <1>3, <1>4, <1>6 DEF GrantOK, Exists
<1>8. \A h \in Grant : Granted(h) \/ GrantOK(h)'
  BY <1>0, <1>4, <1>7, NotGranted
<1>9. /\ job' \in [Job -> JobRow] /\ \A e \in Job \ {d} : job'[e] = job[e]
      /\ JobOK(d)' /\ \A h \in Grant : ~Writes(d, h)'
  BY <1>0, JobRests
<1>10. AgentTypes'
  BY <1>0, <1>4, <1>9 DEF AgentInv, AgentTypes
<1>11. Quiet
  BY <1>0, <1>5, SameTokens DEF Quiet, ClientsLast, MembersLast, Exists
<1> QED
  BY <1>0, <1>8, <1>9, <1>10, <1>11, SameTokens, OwnerKeeps

LEMMA InsertTokenKeeps ==
    ASSUME MemberInv, AgentInv, NEW d \in Job, InsertToken(d), UNCHANGED mvars
    PROVE  AgentInv'
<1>0. /\ UNCHANGED <<client, grant, unswept, call>> /\ job[d].pc = "insertToken"
      /\ scene' = scene /\ role' = role /\ job' = [job EXCEPT ![d] = NoJob]
  BY DEF InsertToken, mvars
<1> DEFINE row == [grant |-> job[d].grant, version |-> job[d].version, revoked |-> FALSE,
                   scopes |-> job[d].scopes, as |-> role[grant[job[d].grant].member]]
<1>1. PICK t \in Token : ~Issued(t) /\ token' = [token EXCEPT ![t] = row]
  BY Zenon DEF InsertToken
<1>2. /\ job[d].grant \in Grant /\ Granted(job[d].grant) /\ job[d].version > 0
      /\ UpTo(job[d].grant, job[d].version, job[d].scopes) /\ job[d] \in JobRow
  BY <1>0 DEF AgentInv, AgentTypes, JobOK
<1>3. role[grant[job[d].grant].member] \in Roles
  BY <1>2 DEF AgentInv, GrantOK, MemberInv, MemberTypes
<1>4. /\ row \in TokenRow /\ row.grant = job[d].grant /\ row.version = job[d].version
      /\ row.scopes = job[d].scopes /\ row.as = role[grant[job[d].grant].member]
      /\ row.grant # None
  BY <1>2, <1>3, AgentAssumption DEF TokenRow, JobRow
<1> HIDE DEF row
<1>5. token' \in [Token -> TokenRow] /\ token'[t] = row /\ \A u \in Token \ {t} : token'[u] = token[u]
  BY <1>1, <1>4 DEF AgentInv, AgentTypes
<1>6. TokensLast
  BY <1>1, <1>5 DEF TokensLast, Lasting
<1>7. TokenOK(t)'
  BY <1>0, <1>2, <1>4, <1>5 DEF TokenOK, Issued, Granted, UpTo
<1>8. TokenKnows(t)'
  BY <1>0, <1>4, <1>5 DEF TokenKnows, GrantOf
<1>9. \A u \in Token : Issued(u) \/ (TokenOK(u) /\ TokenKnows(u))'
  BY <1>5, <1>7, <1>8, NotIssued
<1>10. /\ job' \in [Job -> JobRow] /\ \A e \in Job \ {d} : job'[e] = job[e]
       /\ JobOK(d)' /\ \A h \in Grant : ~Writes(d, h)'
  BY <1>0, JobRests
<1>11. AgentTypes'
  BY <1>0, <1>5, <1>10 DEF AgentInv, AgentTypes
<1>12. Quiet
  BY <1>0, <1>6, SameGrants DEF Quiet, ClientsLast, MembersLast, Exists
<1> QED
  BY <1>0, <1>9, <1>10, <1>11, <1>12, SameGrants, OwnerKeeps

LEMMA BeginScopesKeeps ==
    ASSUME MemberInv, AgentInv, NEW d \in Job, BeginScopes(d), UNCHANGED mvars
    PROVE  AgentInv'
<1>0. /\ UNCHANGED <<client, token, unswept, call>> /\ job[d].pc = "idle"
      /\ scene' = scene /\ role' = role
  BY DEF BeginScopes, Ready, mvars
<1>1. PICK g \in Grant, scopes \in ScopeSets :
          /\ grant[g].status = "active" /\ scopes # grant[g].scopes
          /\ grant[g].version < scene.versions
          /\ job' = [job EXCEPT ![d] = [NoJob EXCEPT !.pc = "writeScopes", !.grant = g,
                        !.scopes = scopes, !.version = grant[g].version + 1,
                        !.tokens = Unrevoked({g})]]
          /\ grant' = [grant EXCEPT ![g].mixed =
                @ \/ \E e \in Job : job[e].pc = "writeScopes" /\ job[e].grant = g]
  BY Zenon DEF BeginScopes
<1> DEFINE rec == [NoJob EXCEPT !.pc = "writeScopes", !.grant = g,
                        !.scopes = scopes, !.version = grant[g].version + 1,
                        !.tokens = Unrevoked({g})]
           other == \E e \in Job : job[e].pc = "writeScopes" /\ job[e].grant = g
           row == [grant[g] EXCEPT !.mixed = grant[g].mixed \/ other]
<1>2. grant[g] \in GrantRow /\ GrantOK(g) /\ Granted(g) /\ scene.versions \in Nat
  BY <1>1, AgentAssumption DEF AgentInv, AgentTypes, Granted, MemberInv, MemberTypes
<1>3. Unrevoked({g}) \in SUBSET Token /\ \A t \in Unrevoked({g}) : Issued(t)
  BY UnrevokedIssued
<1>4. grant[g].version \in Nat /\ grant[g].version + 1 \in Nat /\ grant[g].version + 1 > 0
      /\ grant[g].version + 1 <= scene.versions
  BY <1>1, <1>2 DEF GrantRow
<1>5. /\ rec \in JobRow /\ rec.pc = "writeScopes" /\ rec.grant = g
      /\ rec.version = grant[g].version + 1 /\ rec.tokens = Unrevoked({g})
  BY <1>3, <1>4 DEF NoJob, JobRow
<1>6. /\ row \in GrantRow /\ row.version = grant[g].version /\ row.scopes = grant[g].scopes
      /\ row.client = grant[g].client /\ row.member = grant[g].member
      /\ row.status = grant[g].status /\ row.mixed = (grant[g].mixed \/ other)
  <2>1. grant[g].mixed \in BOOLEAN /\ (grant[g].mixed \/ other) \in BOOLEAN
    BY <1>2 DEF GrantRow
  <2> HIDE DEF other
  <2> QED
    BY <1>2, <2>1 DEF GrantRow
<1>7. other <=> \E e \in Job : Writes(e, g)
  BY DEF Writes
<1>8. grant' = [grant EXCEPT ![g] = row] /\ job' = [job EXCEPT ![d] = rec]
  BY <1>1
<1> HIDE DEF rec, row, other
<1>9. /\ grant' \in [Grant -> GrantRow] /\ grant'[g] = row
      /\ \A h \in Grant \ {g} : grant'[h] = grant[h]
  BY <1>6, <1>8 DEF AgentInv, AgentTypes
<1>10. /\ job' \in [Job -> JobRow] /\ job'[d] = rec
       /\ \A e \in Job \ {d} : job'[e] = job[e]
  BY <1>5, <1>8 DEF AgentInv, AgentTypes
<1>11. \A h \in Grant : Granted(h) => Steady(h)
  BY <1>2, <1>6, <1>9 DEF Steady, Granted
<1>12. \A h \in Grant : Granted(h) \/ GrantOK(h)'
  BY <1>0, <1>2, <1>9, NotGranted
<1>13. AgentTypes'
  BY <1>0, <1>9, <1>10 DEF AgentInv, AgentTypes
<1>14. Quiet
  BY <1>0, <1>11, SameTokens DEF Quiet, ClientsLast, MembersLast, Exists
<1>15. \A h \in Grant : Writes(d, h)' => \A e \in Job : Writes(e, h) => grant'[h].mixed
  BY <1>5, <1>6, <1>7, <1>9, <1>10 DEF Writes
<1>16. JobOK(d)'
  <2>1. Granted(g)' /\ \A t \in Unrevoked({g}) : Issued(t)'
    BY <1>0, <1>2, <1>3, <1>6, <1>9 DEF Granted, Issued
  <2>2. ASSUME ~grant'[g].mixed, NEW e \in Job \ {d} PROVE ~Writes(e, g)'
    BY <1>6, <1>7, <1>9, <1>10, <2>2 DEF Writes
  <2>3. grant'[g].version = grant[g].version
    BY <1>6, <1>9
  <2> QED
    BY <1>0, <1>4, <1>5, <1>10, <2>1, <2>2, <2>3 DEF JobOK, Granted, Issued, Writes
<1> QED
  BY <1>0, <1>10, <1>12, <1>13, <1>14, <1>15, <1>16, SameTokens, OwnerKeeps

\* The commit of new scopes: a token of the old ones is behind its grant for good, unless two
\* changes overlapped.
LEMMA WriteScopesKeeps ==
    ASSUME MemberInv, AgentInv, NEW d \in Job, WriteScopes(d), UNCHANGED mvars
    PROVE  AgentInv'
<1>0. /\ UNCHANGED <<client, unswept>> /\ job[d].pc = "writeScopes"
      /\ scene' = scene /\ role' = role /\ disabled' = disabled /\ req' = req
      /\ job' = [job EXCEPT ![d] = NoJob] /\ token' = Revoking(job[d].tokens)
  BY DEF WriteScopes, mvars
<1>1. PICK g \in Grant : g = job[d].grant /\ Granted(g)
  BY <1>0 DEF AgentInv, JobOK
<1>2. /\ grant' = [grant EXCEPT ![g] = Rescoped(grant[g], job[d])]
      /\ call' = [k \in Call |-> IF call[k].token # None /\ token[call[k].token].grant = g
                                 THEN [call[k] EXCEPT !.edited = TRUE] ELSE call[k]]
  BY <1>1 DEF WriteScopes
<1>3. grant[g] \in GrantRow /\ GrantOK(g) /\ job[d] \in JobRow /\ JobOK(d)
  BY DEF AgentInv, AgentTypes
<1>4. /\ \A t \in job[d].tokens : Issued(t)
      /\ job[d].version <= scene.versions /\ job[d].version > 0 /\ job[d].version \in Nat
      /\ ~grant[g].mixed => /\ job[d].version = grant[g].version + 1
                            /\ \A e \in Job \ {d} : ~Writes(e, g)
  BY <1>0, <1>1, <1>3 DEF JobOK, JobRow
<1> DEFINE row == Rescoped(grant[g], job[d])
<1>5. /\ row \in GrantRow /\ row.version = job[d].version /\ row.mixed = grant[g].mixed
      /\ row.client = grant[g].client /\ row.member = grant[g].member
      /\ row.status = grant[g].status
  BY <1>3 DEF Rescoped, GrantRow, JobRow
<1> HIDE DEF row
<1>6. /\ grant' \in [Grant -> GrantRow] /\ grant'[g] = row
      /\ \A h \in Grant \ {g} : grant'[h] = grant[h]
  BY <1>2, <1>5 DEF AgentInv, AgentTypes, row
<1>7. /\ token' \in [Token -> TokenRow] /\ TokensLast
      /\ \A t \in Token : Issued(t) \/ token'[t] = token[t]
  BY <1>0, <1>3, <1>4, RevokingLasts DEF JobRow
<1>8. /\ job' \in [Job -> JobRow] /\ \A e \in Job \ {d} : job'[e] = job[e]
      /\ JobOK(d)' /\ \A h \in Grant : ~Writes(d, h)'
  BY <1>0, JobRests
<1>9. \A k \in Call : /\ call'[k] \in CallRow /\ call'[k].token = call[k].token
                      /\ call'[k].pc = call[k].pc /\ call'[k].void = call[k].void
                      /\ call'[k].scopes = call[k].scopes
                      /\ call'[k].edited = (call[k].edited \/ (call[k].token # None /\ token[call[k].token].grant = g))
  BY <1>2 DEF AgentInv, AgentTypes, CallRow
<1>10. AgentTypes'
  <2>1. call' \in [Call -> CallRow]
    BY <1>2, <1>9
  <2> QED
    BY <1>0, <1>6, <1>7, <1>8, <2>1 DEF AgentInv, AgentTypes
<1>11. \A h \in Grant : /\ Granted(h)' <=> Granted(h)
                        /\ grant'[h].mixed = grant[h].mixed /\ grant'[h].member = grant[h].member
                        /\ grant'[h].client = grant[h].client /\ grant'[h].status = grant[h].status
                        /\ h # g => grant'[h] = grant[h]
  BY <1>5, <1>6 DEF Granted
<1>12. ASSUME NEW version \in Nat, NEW scopes, NEW h \in Grant, UpTo(h, version, scopes)
       PROVE  UpTo(h, version, scopes)'
  <2>1. CASE h # g
    BY <1>11, <1>12, <2>1 DEF UpTo
  <2>2. CASE h = g /\ ~grant[g].mixed
    <3>1. grant'[g].version = grant[g].version + 1 /\ grant[g].version \in Nat
      BY <1>3, <1>4, <1>5, <1>6, <2>2 DEF GrantRow
    <3>2. version <= grant[g].version
      BY <1>12, <2>2 DEF UpTo
    <3>3. version <= grant'[g].version /\ version # grant'[g].version
      BY <3>1, <3>2
    <3> QED
      BY <2>2, <3>3 DEF UpTo
  <2>3. CASE h = g /\ grant[g].mixed
    BY <1>11, <2>3 DEF UpTo
  <2> QED BY <2>1, <2>2, <2>3
<1>13. ASSUME NEW h \in Grant PROVE GrantOK(h)'
  <2>1. CASE h = g
    BY <1>0, <1>3, <1>4, <1>5, <1>6, <1>11, <2>1 DEF GrantOK, Exists
  <2>2. CASE h # g
    <3>1. GrantOK(h) /\ grant'[h] = grant[h]
      BY <1>6, <2>2 DEF AgentInv
    <3> QED
      BY <1>0, <3>1 DEF GrantOK, Granted, Exists
  <2> QED BY <2>1, <2>2
<1>14. ASSUME NEW t \in Token PROVE TokenOK(t)' /\ TokenKnows(t)'
  <2>1. CASE ~Issued(t)
    BY <1>7, <2>1, NotIssued
  <2>2. CASE Issued(t)
    <3>1. PICK h \in Grant : h = token[t].grant /\ Granted(h)
      BY <2>2, IssuedGranted
    <3>2. TokenOK(t) /\ TokenKnows(t) /\ token[t] \in TokenRow /\ Lasting(t) /\ token'[t] \in TokenRow
      BY <1>7, <2>2 DEF AgentInv, AgentTypes, TokensLast
    <3>3. PICK v \in Nat : v = token[t].version
      BY <3>2 DEF TokenRow
    <3>4. PICK s \in ScopeSets \cup {None} : s = token[t].scopes
      BY <3>2 DEF TokenRow
    <3>5. UpTo(h, v, s)'
      BY <1>12, <2>2, <3>1, <3>2, <3>3, <3>4 DEF TokenOK
    <3>6. token'[t].grant = h /\ token'[t].version = v /\ token'[t].scopes = s
      BY <3>1, <3>2, <3>3, <3>4 DEF Lasting
    <3>7. TokenOK(t)'
      BY <1>11, <2>2, <3>1, <3>2, <3>3, <3>5, <3>6 DEF TokenOK, Issued
    <3>8. token[t].revoked => token'[t].revoked
      BY <3>2 DEF Lasting
    <3>9. TokenKnows(t)'
      BY <1>0, <1>11, <2>2, <3>1, <3>2, <3>6, <3>8 DEF TokenKnows, GrantOf, Lasting, Sweeping, At
    <3> QED BY <3>7, <3>9
  <2> QED BY <2>1, <2>2
<1>15. ASSUME NEW e \in Job PROVE JobOK(e)'
  <2>1. CASE e = d
    BY <1>8, <2>1
  <2>2. CASE e # d
    <3>1. job'[e] = job[e] /\ JobOK(e) /\ job[e] \in JobRow
      BY <1>8, <2>2 DEF AgentInv, AgentTypes
    <3>2. CASE job[e].pc \in {"idle", "insertGrant"}
      BY <1>0, <3>1, <3>2 DEF JobOK, Exists
    <3>3. CASE job[e].pc = "insertToken"
      <4>1. PICK h \in Grant : h = job[e].grant /\ Granted(h)
        BY <3>1, <3>3 DEF JobOK
      <4>2. PICK v \in Nat : v = job[e].version
        BY <3>1 DEF JobRow
      <4>3. PICK s \in ScopeSets \cup {None} : s = job[e].scopes
        BY <3>1 DEF JobRow
      <4>4. UpTo(h, v, s)'
        BY <1>12, <3>1, <3>3, <4>1, <4>2, <4>3 DEF JobOK
      <4> QED
        BY <1>11, <3>1, <3>3, <4>1, <4>2, <4>3, <4>4 DEF JobOK
    <3>4. CASE job[e].pc = "writeScopes"
      <4>1. PICK h \in Grant : h = job[e].grant /\ Granted(h)
        BY <3>1, <3>4 DEF JobOK
      <4>2. \A t \in job[e].tokens : Issued(t)'
        <5>1. \A t \in job[e].tokens : t \in Token /\ Issued(t)
          BY <3>1, <3>4 DEF JobOK, JobRow
        <5> QED
          BY <1>7, <5>1 DEF TokensLast, Lasting, Issued
      <4>3. ASSUME ~grant'[h].mixed
            PROVE  /\ job[e].version = grant'[h].version + 1
                   /\ \A f \in Job \ {e} : ~Writes(f, h)'
        <5>1. /\ ~grant[h].mixed /\ job[e].version = grant[h].version + 1
              /\ \A f \in Job \ {e} : ~Writes(f, h)
          BY <1>11, <3>1, <3>4, <4>1, <4>3 DEF JobOK
        <5>2. h # g
          <6>1. Writes(d, g)
            BY <1>0, <1>1 DEF Writes
          <6> QED
            BY <2>2, <5>1, <6>1
        <5>3. ASSUME NEW f \in Job \ {e} PROVE ~Writes(f, h)'
          <6>1. CASE f = d
            BY <1>8, <6>1
          <6>2. CASE f # d
            BY <1>8, <5>1, <6>2 DEF Writes
          <6> QED BY <6>1, <6>2
        <5> QED
          BY <1>11, <5>1, <5>2, <5>3
      <4> QED
        BY <1>0, <1>11, <3>1, <3>4, <4>1, <4>2, <4>3 DEF JobOK, Writes
    <3> QED BY <3>1, <3>2, <3>3, <3>4 DEF JobRow
  <2> QED BY <2>1, <2>2
<1>16. ASSUME NEW k \in Call PROVE CallOK(k)'
  <2> SUFFICES ASSUME call[k].pc # "idle" PROVE CallOK(k)'
    BY <1>9 DEF CallOK
  <2>1. PICK t \in Token : t = call[k].token /\ Issued(t) /\ CallOK(k)
    BY DEF AgentInv, CallOK
  <2>2. PICK h \in Grant : h = token[t].grant /\ Granted(h) /\ TokenOK(t)
    BY <2>1, IssuedGranted DEF AgentInv
  <2>3. t # None /\ call'[k].token = t /\ Lasting(t)
    BY <1>7, <1>9, <2>1, AgentAssumption DEF TokensLast
  <2>4. GrantOf(t) = grant[h] /\ GrantOf(t)' = grant'[h] /\ Issued(t)'
    BY <2>1, <2>2, <2>3 DEF GrantOf, Lasting, Issued
  <2>5. Outdated(t) /\ ~grant[h].mixed => Outdated(t)'
    <3>1. CASE h # g
      BY <1>11, <2>3, <2>4, <3>1 DEF Outdated, Lasting
    <3>2. CASE h = g
      <4>1. ASSUME ~grant[h].mixed, token[t].version < grant[h].version
            PROVE  token[t].version < grant'[h].version
        <5>1. grant'[h].version = grant[h].version + 1
          BY <1>4, <1>5, <1>6, <3>2, <4>1
        <5>2. grant[h].version \in Nat /\ token[t].version \in Nat
          BY Numbers
        <5> QED
          BY <4>1, <5>1, <5>2
      <4> QED
        BY <1>11, <2>3, <2>4, <4>1 DEF Outdated, Lasting
    <3> QED BY <3>1, <3>2
  <2>6. StillVoid(k) => StillVoid(k)'
    BY <1>0, <1>9, <1>11, <2>1, <2>3, <2>4, <2>5 DEF StillVoid, ClientGood, MemberGood
  <2>7. h = g => call'[k].edited
    BY <1>9, <2>1, <2>2, <2>3
  <2>8. h # g => call'[k].edited = call[k].edited /\ grant'[h] = grant[h]
    BY <1>9, <1>11, <2>1, <2>2 DEF AgentInv, AgentTypes, CallRow
  <2>9. token'[t].scopes = token[t].scopes
    BY <2>3 DEF Lasting
  <2>10. call'[k].pc = call[k].pc /\ call'[k].void = call[k].void /\ call'[k].scopes = call[k].scopes
    BY <1>9
  <2>11. CASE h = g
    BY <2>1, <2>3, <2>4, <2>6, <2>7, <2>10, <2>11 DEF CallOK
  <2>12. CASE h # g
    BY <2>1, <2>3, <2>4, <2>6, <2>8, <2>9, <2>10, <2>12 DEF CallOK
  <2> QED BY <2>11, <2>12
<1> QED
  BY <1>10, <1>13, <1>14, <1>15, <1>16 DEF AgentInv

LEMMA ExpireKeeps ==
    ASSUME MemberInv, AgentInv, Expire, UNCHANGED mvars
    PROVE  AgentInv'
<1>0. UNCHANGED <<client, token, unswept, job, call>> /\ scene' = scene /\ role' = role /\ disabled' = disabled
  BY DEF Expire, mvars
<1>1. PICK g \in Grant : grant[g].status # "none" /\ grant' = [grant EXCEPT ![g] = [grant[g] EXCEPT !.over = TRUE]]
  BY DEF Expire
<1>2. grant[g] \in GrantRow /\ [grant[g] EXCEPT !.over = TRUE] \in GrantRow
  BY DEF AgentInv, AgentTypes, GrantRow
<1>3. AgentTypes'
  BY <1>0, <1>1, <1>2 DEF AgentInv, AgentTypes
<1>4. \A h \in Grant : Granted(h) => Steady(h)
  BY <1>1, <1>2 DEF Steady, Granted, AgentInv, AgentTypes, GrantRow
<1>5. \A h \in Grant : Granted(h) \/ GrantOK(h)'
  BY <1>0, <1>1, NotGranted DEF AgentInv, AgentTypes, Granted
<1>6. Quiet
  BY <1>0, <1>4, SameTokens DEF Quiet, ClientsLast, MembersLast, Exists
<1>7. \A h \in Grant : GrantOK(h)'
  BY <1>5, <1>6, GrantFrame
<1>8. \A t \in Token : TokenOK(t)' /\ TokenKnows(t)'
  BY <1>0, <1>3, <1>6, SweepingStays, SameTokens, TokenFrame, KnownFrame
<1>9. \A d \in Job : JobOK(d)'
  <2> SUFFICES ASSUME NEW d \in Job PROVE JobOK(d)'
    OBVIOUS
  <2> QED
    BY <1>0, <1>3, <1>6, JobFrame DEF Writes
<1>10. \A k \in Call : CallOK(k)'
  BY <1>0, <1>6, CallFrame
<1> QED
  BY <1>3, <1>7, <1>8, <1>9, <1>10 DEF AgentInv

LEMMA OwnerStepKeeps ==
    ASSUME MemberInv, AgentInv, NEW d \in Job, OwnerStep(d)
    PROVE  AgentInv'
BY RegisterClientKeeps, RevokeClientKeeps, BeginGrantKeeps, InsertGrantKeeps, RevokeGrantKeeps,
   BeginScopesKeeps, WriteScopesKeeps, BeginIssueKeeps, InsertTokenKeeps, RevokeTokenKeeps,
   AbandonKeeps
DEF OwnerStep

-----------------------------------------------------------------------------
(* Agents: what members do meanwhile.                                       *)

LEMMA OneActs ==
    ASSUME MemberInv, NEW r \in Request, SignIn(r) \/ Manage(r)
    PROVE  OneMoves(r) /\ (At(r, "tokens") => Die(r))
<1>0. req \in [Request -> Requesting]
  BY DEF MemberInv, MemberTypes
<1>1. CASE CheckPassword(r) \/ CountFailure(r) \/ OpenSession(r) \/ FetchCredential(r) \/ FetchOwner(r)
           \/ StorePassword(r)
           \/ RevokeSessions(r) \/ ApplyRole(r) \/ GuardDisable(r) \/ SetDisabled(r) \/ InsertMember(r)
  <2>1. ~At(r, "tokens")
    BY <1>1 DEF CheckPassword, CountFailure, OpenSession, FetchCredential, FetchOwner, StorePassword,
       RevokeSessions, ApplyRole, GuardDisable, SetDisabled, InsertMember, At
  <2>3. CASE CheckPassword(r)
    BY <1>0, <2>1, <2>3 DEF CheckPassword, Goto, OneMoves
  <2>4. CASE FetchCredential(r)
    BY <1>0, <2>1, <2>4 DEF FetchCredential, OneMoves
  <2>5. CASE FetchOwner(r)
    BY <1>0, <2>1, <2>5 DEF FetchOwner, Goto, OneMoves
  <2>6. CASE StorePassword(r)
    BY <1>0, <2>1, <2>6 DEF StorePassword, Goto, OneMoves
  <2>7. CASE GuardDisable(r)
    BY <1>0, <2>1, <2>7 DEF GuardDisable, Goto, OneMoves
  <2>8. CASE CountFailure(r) \/ OpenSession(r) \/ RevokeSessions(r)
    BY <1>0, <2>1, <2>8 DEF CountFailure, OpenSession, RevokeSessions, Goto, OneMoves
  <2>9. CASE ApplyRole(r) \/ SetDisabled(r) \/ InsertMember(r)
    BY <1>0, <2>1, <2>9 DEF ApplyRole, SetDisabled, InsertMember, Goto, OneMoves
  <2> QED BY <1>1, <2>1, <2>3, <2>4, <2>5, <2>6, <2>7, <2>8, <2>9
<1>2. CASE \E rec : Begin(r, rec)
  BY <1>0, <1>2 DEF Begin, OneMoves, At
<1>3. CASE Die(r)
  BY <1>0, <1>3 DEF Die, Goto, OneMoves
<1> QED
  BY <1>1, <1>2, <1>3 DEF SignIn, Manage, BeginLogin, BeginChange, BeginReset, BeginInitial, BeginAdmin,
     BeginUpdate, BeginAdd

LEMMA RolesMove ==
    ASSUME MemberInv, NEW r \in Request, SignIn(r) \/ Manage(r), NEW m \in Member, Exists(m)
    PROVE  /\ Exists(m)'
           /\ role'[m] = role[m] \/ (req'[r].pc = "tokens" /\ req'[r].member = m)
<1>1. CASE ApplyRole(r)
  <2>1. RequestRow(r) /\ At(r, "role") /\ Goto(r, "tokens")
    BY <1>1 DEF MemberInv, ApplyRole
  <2>2. req[r].role \in {"owner", "member"} /\ req[r].member \in Member
    BY <2>1 DEF RequestRow, At
  <2>3. req'[r].pc = "tokens" /\ req'[r].member = req[r].member
    BY <2>1, GotoMoves DEF MemberInv
  <2>4. role' = [role EXCEPT ![req[r].member] = req[r].role]
    BY <1>1 DEF ApplyRole
  <2> QED
    BY <2>2, <2>3, <2>4 DEF MemberInv, MemberTypes, Exists
<1>2. CASE InsertMember(r)
  <2>1. PICK n \in Member : ~Exists(n) /\ role' = [role EXCEPT ![n] = req[r].role]
    BY <1>2 DEF InsertMember
  <2> QED
    BY <2>1 DEF MemberInv, MemberTypes, Exists
<1>3. CASE role' = role
  BY <1>3 DEF Exists
<1> QED
  BY <1>1, <1>2, <1>3 DEF SignIn, Manage, BeginLogin, BeginChange, BeginReset, BeginInitial, BeginAdmin,
     BeginUpdate, BeginAdd, CheckPassword, CountFailure, OpenSession, FetchCredential, FetchOwner,
     StorePassword, RevokeSessions, GuardDisable, SetDisabled, Die

\* A member who is disabled no more makes a token good again, and is the only one who does.
LEMMA CallForgiven ==
    ASSUME MemberInv, MemberInv', AgentInv, UNCHANGED <<client, grant, token>>, NEW k \in Call,
           call'[k] = IF call[k].token # None /\ ~MemberGood(call[k].token)
                           /\ ~disabled'[GrantOf(call[k].token).member]
                      THEN [call[k] EXCEPT !.void = FALSE] ELSE call[k]
    PROVE  call'[k] \in CallRow /\ CallOK(k)'
<1>1. call[k] \in CallRow
  BY DEF AgentInv, AgentTypes
<1>2. /\ call'[k] \in CallRow /\ call'[k].token = call[k].token
      /\ call'[k].pc = call[k].pc /\ call'[k].scopes = call[k].scopes
      /\ call'[k].edited = call[k].edited
      /\ call'[k].void => /\ call[k].void
                          /\ ~(/\ call[k].token # None /\ ~MemberGood(call[k].token)
                               /\ ~disabled'[GrantOf(call[k].token).member])
  BY <1>1 DEF CallRow
<1> SUFFICES ASSUME call[k].pc # "idle" PROVE CallOK(k)'
  BY <1>2 DEF CallOK
<1>3. PICK t \in Token : t = call[k].token /\ Issued(t) /\ CallOK(k)
  BY DEF AgentInv, CallOK
<1>4. t # None /\ call'[k].token = t /\ Issued(t)'
  BY <1>2, <1>3, AgentAssumption DEF Issued
<1>5. PICK m \in Member : m = GrantOf(t).member
  BY <1>3, IssuedGranted
<1>6. GrantOf(t)' = GrantOf(t)
  BY DEF GrantOf
<1>7. StillVoid(k) /\ call'[k].void => StillVoid(k)'
  <2>1. ~MemberGood(t) /\ call'[k].void => ~MemberGood(t)'
    BY <1>2, <1>3, <1>4, <1>5, <1>6 DEF MemberGood
  <2>2. ClientGood(t)' = ClientGood(t) /\ Outdated(t)' = Outdated(t)
    BY <1>6 DEF ClientGood, Outdated
  <2> QED
    BY <1>2, <1>3, <1>4, <1>6, <2>1, <2>2 DEF StillVoid
<1> QED
  BY <1>2, <1>3, <1>4, <1>6, <1>7 DEF CallOK

LEMMA MemberStepKeeps ==
    ASSUME MemberInv, MemberInv', AgentInv, NEW r \in Request, MemberStep(r), scene' = scene
    PROVE  AgentInv'
<1>0. /\ UNCHANGED <<client, grant, token, job>> /\ (SignIn(r) \/ Manage(r))
      /\ unswept' = IF At(r, "tokens") /\ req'[r].pc = "idle"
                    THEN unswept \cup {req[r].member} ELSE unswept
      /\ call' = [k \in Call |->
                  IF call[k].token # None /\ ~MemberGood(call[k].token)
                       /\ ~disabled'[GrantOf(call[k].token).member]
                  THEN [call[k] EXCEPT !.void = FALSE] ELSE call[k]]
  BY Zenon DEF MemberStep
<1>1. \A k \in Call : call'[k] \in CallRow /\ CallOK(k)'
  <2> SUFFICES ASSUME NEW k \in Call PROVE call'[k] \in CallRow /\ CallOK(k)'
    OBVIOUS
  <2>1. call'[k] = IF call[k].token # None /\ ~MemberGood(call[k].token)
                       /\ ~disabled'[GrantOf(call[k].token).member]
                   THEN [call[k] EXCEPT !.void = FALSE] ELSE call[k]
    BY <1>0
  <2> QED
    BY <1>0, <2>1, CallForgiven
<1>2. At(r, "tokens") => req[r].member \in Member
  BY DEF MemberInv, RequestRow, At
<1>3. AgentTypes'
  <2>1. call' \in [Call -> CallRow]
    BY <1>0, <1>1
  <2>2. unswept' \subseteq Member
    BY <1>0, <1>2 DEF AgentInv, AgentTypes
  <2> QED
    BY <1>0, <2>1, <2>2 DEF AgentInv, AgentTypes
<1>4. Quiet
  BY <1>0, RolesMove, SameGrants, SameTokens DEF Quiet, ClientsLast, MembersLast
<1>5. ASSUME NEW m \in Member, Exists(m)
      PROVE  Sweeping(m)' \/ (role'[m] = role[m] /\ ~Sweeping(m))
  <2>1. OneMoves(r) /\ (At(r, "tokens") => Die(r))
    BY <1>0, OneActs
  <2>2. CASE m \in unswept
    BY <1>0, <2>2 DEF Sweeping
  <2>3. ASSUME NEW q \in Request, At(q, "tokens"), req[q].member = m PROVE Sweeping(m)'
    <3>1. CASE q = r
      <4>1. req'[r].pc = "idle"
        BY <2>1, <2>3, <3>1, GotoIdle DEF Die, MemberInv
      <4> QED
        BY <1>0, <2>3, <3>1, <4>1 DEF Sweeping
    <3>2. CASE q # r
      BY <2>1, <2>3, <3>2 DEF Sweeping, OneMoves, At
    <3> QED BY <3>1, <3>2
  <2>4. CASE role'[m] # role[m]
    BY <1>0, <1>5, <2>4, RolesMove DEF Sweeping, At
  <2> QED
    BY <2>2, <2>3, <2>4 DEF Sweeping
<1>6. \A g \in Grant : GrantOK(g)'
  BY <1>0, <1>4, GrantFrame, SameGrants
<1>7. \A t \in Token : TokenOK(t)' /\ TokenKnows(t)'
  BY <1>0, <1>3, <1>4, <1>5, SameTokens, TokenFrame, KnownFrame
<1>8. \A d \in Job : JobOK(d)'
  <2> SUFFICES ASSUME NEW d \in Job PROVE JobOK(d)'
    OBVIOUS
  <2> QED
    BY <1>0, <1>3, <1>4, JobFrame DEF Writes
<1> QED
  BY <1>1, <1>3, <1>6, <1>7, <1>8 DEF AgentInv

\* The loop over the member's grants finds every token of his that may have his old role.
LEMMA SweepTokensKeeps ==
    ASSUME MemberInv, AgentInv, NEW r \in Request, SweepTokens(r), scene' = scene
    PROVE  AgentInv'
<1>0. /\ UNCHANGED <<client, grant, job, call, role, disabled>> /\ AfterTokens(r) /\ At(r, "tokens")
      /\ token' = Revoking(Unrevoked(SweptGrants(req[r].member)))
      /\ unswept' = unswept \ {req[r].member}
  BY DEF SweepTokens, AfterTokens
<1>1. PICK n \in Member : n = req[r].member
  BY <1>0 DEF MemberInv, RequestRow, At
<1>2. OneMoves(r)
  BY <1>0 DEF AfterTokens, Goto, OneMoves
<1>3. SweptGrants(n) \in SUBSET Grant
  BY DEF SweptGrants
<1>4. /\ token' \in [Token -> TokenRow] /\ TokensLast
      /\ \A t \in Token : Issued(t) \/ token'[t] = token[t]
  BY <1>0, <1>1, <1>3, UnrevokedIssued, RevokingLasts
<1>5. AgentTypes'
  BY <1>0, <1>4 DEF AgentInv, AgentTypes
<1>6. Quiet
  BY <1>0, <1>4, SameGrants DEF Quiet, ClientsLast, MembersLast, Exists
<1>7. ASSUME NEW t \in Token PROVE TokenOK(t)' /\ TokenKnows(t)'
  <2>1. CASE ~Issued(t)
    BY <1>4, <2>1, NotIssued
  <2>2. CASE Issued(t)
    <3>1. TokenOK(t)'
      BY <1>6, <2>2, TokenFrame
    <3>2. CASE GrantOf(t).member = n
      <4>1. token[t].grant \in Grant /\ Lasting(t)
        BY <1>4, <2>2, IssuedGranted DEF TokensLast
      <4>2. GrantOf(t)' = GrantOf(t)
        BY <1>0, <4>1 DEF GrantOf, Lasting
      <4>3. ASSUME GrantOf(t).status = "active" PROVE token'[t].revoked
        <5>1. token[t] \in TokenRow /\ token'[t] \in TokenRow
          BY <1>4 DEF AgentInv, AgentTypes
        <5>2. CASE token[t].revoked
          BY <4>1, <5>2 DEF Lasting
        <5>3. CASE ~token[t].revoked
          <6>1. t \in Unrevoked(SweptGrants(n))
            BY <3>2, <4>1, <4>3, <5>3 DEF Unrevoked, SweptGrants, GrantOf
          <6>2. token'[t] = [token[t] EXCEPT !.revoked = TRUE]
            BY <1>0, <1>1, <6>1 DEF Revoking
          <6> QED
            BY <5>1, <6>2 DEF TokenRow
        <5> QED BY <5>2, <5>3
      <4>4. TokenKnows(t)'
        BY <4>2, <4>3 DEF TokenKnows
      <4> QED BY <3>1, <4>4
    <3>3. CASE GrantOf(t).member # n
      <4>1. ASSUME NEW m \in Member, m = GrantOf(t).member
            PROVE  Sweeping(m)' \/ (role'[m] = role[m] /\ ~Sweeping(m))
        <5>1. CASE m \in unswept
          BY <1>0, <1>1, <3>3, <4>1, <5>1 DEF Sweeping
        <5>2. ASSUME NEW q \in Request, At(q, "tokens"), req[q].member = m PROVE Sweeping(m)'
          BY <1>1, <1>2, <3>3, <4>1, <5>2 DEF Sweeping, At, OneMoves
        <5> QED
          BY <1>0, <5>1, <5>2 DEF Sweeping
      <4>2. TokenKnows(t)'
        BY <1>5, <1>6, <2>2, <4>1, KnownFrame
      <4> QED BY <3>1, <4>2
    <3> QED BY <3>2, <3>3
  <2> QED BY <2>1, <2>2
<1>8. \A d \in Job : JobOK(d)'
  <2> SUFFICES ASSUME NEW d \in Job PROVE JobOK(d)'
    OBVIOUS
  <2> QED
    BY <1>0, <1>5, <1>6, JobFrame DEF Writes
<1>9. \A k \in Call : CallOK(k)'
  BY <1>0, <1>6, CallFrame
<1>10. \A g \in Grant : GrantOK(g)'
  BY <1>0, <1>6, GrantFrame, SameGrants
<1> QED
  BY <1>5, <1>7, <1>8, <1>9, <1>10 DEF AgentInv

-----------------------------------------------------------------------------
(* Agents: requests that show a token.                                      *)

LEMMA CallsKeep ==
    ASSUME AgentInv, UNCHANGED mvars, UNCHANGED <<client, grant, token, unswept, job>>,
           call' \in [Call -> CallRow], \A k \in Call : CallOK(k)'
    PROVE  AgentInv'
<1>0. scene' = scene /\ role' = role
  BY DEF mvars
<1>1. AgentTypes'
  BY DEF AgentInv, AgentTypes
<1>2. Quiet
  BY <1>0, SameGrants, SameTokens DEF Quiet, ClientsLast, MembersLast, Exists
<1>3. \A g \in Grant : GrantOK(g)'
  BY <1>0, <1>2, GrantFrame, SameGrants
<1>4. \A t \in Token : TokenOK(t)' /\ TokenKnows(t)'
  BY <1>1, <1>2, SweepingStays, SameTokens, TokenFrame, KnownFrame
<1>5. \A d \in Job : JobOK(d)'
  <2> SUFFICES ASSUME NEW d \in Job PROVE JobOK(d)'
    OBVIOUS
  <2> QED
    BY <1>1, <1>2, JobFrame DEF Writes
<1> QED
  BY <1>1, <1>3, <1>4, <1>5 DEF AgentInv

LEMMA SameCall ==
    ASSUME AgentInv, UNCHANGED mvars, UNCHANGED <<client, grant, token>>,
           NEW k \in Call, call'[k] = call[k]
    PROVE  CallOK(k)'
BY CallFrame, SameGrants, SameTokens DEF Quiet, ClientsLast, MembersLast, Exists, mvars

LEMMA OneCall ==
    ASSUME AgentInv, UNCHANGED mvars, UNCHANGED <<client, grant, token, unswept, job>>,
           NEW k \in Call, NEW row \in CallRow, call' = [call EXCEPT ![k] = row],
           call'[k] = row => CallOK(k)'
    PROVE  AgentInv' /\ call' \in [Call -> CallRow]
<1>1. call' \in [Call -> CallRow] /\ call'[k] = row /\ \A j \in Call \ {k} : call'[j] = call[j]
  BY DEF AgentInv, AgentTypes
<1>2. \A j \in Call : CallOK(j)'
  BY <1>1, SameCall
<1> QED
  BY <1>1, <1>2, CallsKeep

\* Calls that end, one or all.
LEMMA NoCallRow == NoCall \in CallRow /\ NoCall.pc = "idle"
BY DEF NoCall, CallRow

LEMMA CallEnds ==
    ASSUME AgentInv, UNCHANGED mvars, UNCHANGED <<client, grant, token, unswept, job>>,
           NEW k \in Call, call' = [call EXCEPT ![k] = NoCall]
    PROVE  AgentInv'
BY NoCallRow, OneCall DEF CallOK

LEMMA CallsEnd ==
    ASSUME AgentInv, UNCHANGED mvars, UNCHANGED <<client, grant, token, unswept, job>>,
           call' = [k \in Call |-> NoCall]
    PROVE  AgentInv'
BY NoCallRow, CallsKeep DEF CallOK

LEMMA BeginCallKeeps ==
    ASSUME AgentInv, UNCHANGED mvars, NEW k \in Call, BeginCall(k)
    PROVE  AgentInv' /\ call'[k].pc = "grant"
<1>0. UNCHANGED <<client, grant, token, unswept, job>> /\ disabled' = disabled
  BY DEF BeginCall, mvars
<1>1. PICK t \in Token :
        /\ Issued(t) /\ TokenGood(t)
        /\ call' = [call EXCEPT ![k] = [NoCall EXCEPT !.pc = "grant", !.token = t, !.void = ~Good(t)]]
  BY Zenon DEF BeginCall
<1>2. Good(t) \in BOOLEAN
  BY DEF Good
<1> DEFINE row == [NoCall EXCEPT !.pc = "grant", !.token = t, !.void = ~Good(t)]
<1>3. row \in CallRow /\ row.pc = "grant" /\ row.token = t /\ row.void = ~Good(t)
  BY <1>2 DEF NoCall, CallRow
<1> HIDE DEF row
<1>4. call' = [call EXCEPT ![k] = row]
  BY <1>1 DEF row
<1>5. PICK g \in Grant : /\ g = token[t].grant /\ TokenOK(t) /\ GrantOf(t) = grant[g]
                         /\ grant[g].version \in Nat /\ token[t].version \in Nat
  BY <1>1, IssuedGranted, Numbers DEF AgentInv, GrantOf
<1>6. ASSUME ~Good(t), ~grant[g].mixed PROVE ~MemberGood(t) \/ ~ClientGood(t) \/ Outdated(t)
  <2>1. token[t].version <= grant[g].version
    BY <1>1, <1>5, <1>6 DEF TokenOK, UpTo
  <2>2. CASE token[t].version = grant[g].version
    BY <1>1, <1>5, <1>6, <2>2 DEF Good, TokenGood, MemberGood, ClientGood, Outdated
  <2>3. CASE token[t].version < grant[g].version
    BY <1>5, <2>3 DEF Outdated
  <2> QED
    BY <1>5, <2>1, <2>2, <2>3
<1>7. call'[k] = row => CallOK(k)'
  <2> SUFFICES ASSUME call'[k] = row PROVE CallOK(k)'
    OBVIOUS
  <2>1. /\ Issued(t)' = Issued(t) /\ GrantOf(t)' = GrantOf(t) /\ MemberGood(t)' = MemberGood(t)
        /\ ClientGood(t)' = ClientGood(t) /\ Outdated(t)' = Outdated(t)
    BY <1>0 DEF Issued, GrantOf, MemberGood, ClientGood, Outdated
  <2>2. call'[k].void => StillVoid(k)'
    BY <1>3, <1>5, <1>6, <2>1 DEF StillVoid
  <2> QED
    BY <1>1, <1>3, <2>1, <2>2 DEF CallOK
<1>8. AgentInv' /\ call' \in [Call -> CallRow]
  BY <1>0, <1>3, <1>4, <1>7, OneCall
<1>9. call'[k] = row
  BY <1>4 DEF AgentInv, AgentTypes
<1> QED
  BY <1>3, <1>8, <1>9

\* Each look at a row leaves what it did not see for the next.
LEMMA LookKeeps ==
    ASSUME AgentInv, UNCHANGED mvars, NEW k \in Call, ReadGrant(k) \/ ReadClient(k) \/ ReadMember(k)
    PROVE  /\ AgentInv'
           /\ call'[k].pc \in {"idle", "client", "member", "scopes"}
           /\ call'[k].pc # "idle" => call'[k].token = call[k].token
           /\ \A j \in Call \ {k} : call'[j] = call[j]
<1>0. UNCHANGED <<client, grant, token, unswept, job>> /\ disabled' = disabled
  BY DEF ReadGrant, ReadClient, ReadMember, Look, mvars
<1>1. call[k].pc \in {"grant", "client", "member"} /\ call[k] \in CallRow
  BY DEF ReadGrant, ReadClient, ReadMember, Look, AgentInv, AgentTypes
<1>2. PICK t \in Token : t = call[k].token /\ Issued(t) /\ CallOK(k)
  BY <1>1 DEF AgentInv, CallOK
<1>3. CASE call' = [call EXCEPT ![k] = NoCall]
  <2>1. call'[k] = NoCall /\ \A j \in Call \ {k} : call'[j] = call[j]
    BY <1>3 DEF AgentInv, AgentTypes
  <2> QED
    BY <1>0, <1>3, <2>1, CallEnds, NoCallRow
<1>4. ASSUME NEW next \in {"client", "member", "scopes"},
             call' = [call EXCEPT ![k] = [call[k] EXCEPT !.pc = next]],
             next = "client" => call[k].pc = "grant" /\ GrantGood(t),
             next = "member" => call[k].pc = "client" /\ ClientGood(t),
             next = "scopes" => call[k].pc = "member" /\ MemberGood(t)
      PROVE  /\ AgentInv' /\ call'[k].pc = next /\ call'[k].token = call[k].token
             /\ \A j \in Call \ {k} : call'[j] = call[j]
  <2> DEFINE row == [call[k] EXCEPT !.pc = next]
  <2>1. /\ row \in CallRow /\ row.pc = next /\ row.token = t /\ row.void = call[k].void
        /\ row.edited = call[k].edited /\ row.scopes = call[k].scopes
    BY <1>1, <1>2 DEF CallRow
  <2>2. call' = [call EXCEPT ![k] = row]
    BY <1>4
  <2> HIDE DEF row
  <2>3. /\ Issued(t)' = Issued(t) /\ GrantOf(t)' = GrantOf(t) /\ MemberGood(t)' = MemberGood(t)
        /\ ClientGood(t)' = ClientGood(t) /\ Outdated(t)' = Outdated(t)
    BY <1>0 DEF Issued, GrantOf, MemberGood, ClientGood, Outdated
  <2>4. ASSUME call'[k] = row PROVE CallOK(k)'
    <3>1. next = "client" => ~Outdated(t) /\ (GrantOf(t).mixed \/ token[t].scopes = GrantOf(t).scopes)
      <4>1. ASSUME next = "client"
            PROVE  ~Outdated(t) /\ (GrantOf(t).mixed \/ token[t].scopes = GrantOf(t).scopes)
        <5>1. PICK g \in Grant : /\ g = token[t].grant /\ TokenOK(t) /\ GrantOf(t) = grant[g]
                                 /\ grant[g].version \in Nat /\ token[t].version \in Nat
          BY <1>2, IssuedGranted, Numbers DEF AgentInv, GrantOf
        <5>2. grant[g].status = "active" /\ token[t].version = grant[g].version
          BY <1>4, <4>1, <5>1 DEF GrantGood
        <5>3. grant[g].mixed \/ token[t].scopes = grant[g].scopes
          BY <1>2, <5>1, <5>2 DEF TokenOK, UpTo
        <5>4. ~Outdated(t)
          BY <5>1, <5>2 DEF Outdated
        <5> QED BY <5>1, <5>3, <5>4
      <4> QED BY <4>1
    <3>2. StillVoid(k) => StillVoid(k)'
      BY <1>2, <1>4, <2>1, <2>3, <2>4, <3>1 DEF StillVoid
    <3>3. next \in {"client", "member", "scopes"} /\ ~call[k].edited
          => GrantOf(t).mixed \/ token[t].scopes = GrantOf(t).scopes
      BY <1>2, <1>4, <3>1 DEF CallOK
    <3>4. token' = token
      BY <1>0
    <3> QED
      BY <1>1, <1>2, <1>4, <2>1, <2>3, <2>4, <3>2, <3>3, <3>4 DEF CallOK
  <2>5. AgentInv'
    BY <1>0, <2>1, <2>2, <2>4, OneCall
  <2>6. call'[k] = row /\ \A j \in Call \ {k} : call'[j] = call[j]
    BY <2>2 DEF AgentInv, AgentTypes
  <2> QED
    BY <1>2, <2>1, <2>5, <2>6
<1>5. CASE ReadGrant(k)
  BY <1>2, <1>3, <1>4, <1>5 DEF ReadGrant, Look
<1>6. CASE ReadClient(k)
  BY <1>2, <1>3, <1>4, <1>6 DEF ReadClient, Look
<1>7. CASE ReadMember(k)
  BY <1>2, <1>3, <1>4, <1>7 DEF ReadMember, Look
<1> QED BY <1>5, <1>6, <1>7

LEMMA ReadScopesKeeps ==
    ASSUME AgentInv, UNCHANGED mvars, NEW k \in Call, ReadScopes(k)
    PROVE  /\ AgentInv'
           /\ call'[k].pc = "granted" /\ call'[k].token = call[k].token
           /\ \A j \in Call \ {k} : call'[j] = call[j]
<1>0. UNCHANGED <<client, grant, token, unswept, job>> /\ call[k].pc = "scopes"
  BY DEF ReadScopes
<1>1. PICK t \in Token : t = call[k].token /\ Issued(t) /\ CallOK(k) /\ call[k] \in CallRow
  BY <1>0 DEF AgentInv, AgentTypes, CallOK
<1> DEFINE row == [call[k] EXCEPT !.pc = "granted", !.scopes = GrantOf(t).scopes]
<1>2. GrantOf(t).scopes \in ScopeSets \cup {None}
  BY <1>1, IssuedGranted DEF AgentInv, AgentTypes, GrantRow, GrantOf
<1>3. /\ row \in CallRow /\ row.pc = "granted" /\ row.token = t /\ row.void = call[k].void
      /\ row.edited = call[k].edited /\ row.scopes = GrantOf(t).scopes
  BY <1>1, <1>2 DEF CallRow
<1>4. call' = [call EXCEPT ![k] = row]
  BY <1>1 DEF ReadScopes, AgentInv, AgentTypes
<1> HIDE DEF row
<1>5. Issued(t)' = Issued(t) /\ GrantOf(t)' = GrantOf(t) /\ token' = token
  BY <1>0 DEF Issued, GrantOf
<1>6. ASSUME call'[k] = row PROVE CallOK(k)'
  <2>1. call[k].void => GrantOf(t).mixed
    BY <1>0, <1>1 DEF CallOK, StillVoid
  <2>2. call'[k].void => StillVoid(k)'
    BY <1>3, <1>5, <1>6, <2>1 DEF StillVoid
  <2>3. ~call[k].edited => GrantOf(t).mixed \/ token[t].scopes = GrantOf(t).scopes
    BY <1>0, <1>1 DEF CallOK
  <2> QED
    BY <1>1, <1>3, <1>5, <1>6, <2>2, <2>3 DEF CallOK
<1>7. AgentInv'
  BY <1>0, <1>3, <1>4, <1>6, OneCall
<1>8. call'[k] = row /\ \A j \in Call \ {k} : call'[j] = call[j]
  BY <1>4 DEF AgentInv, AgentTypes
<1> QED
  BY <1>1, <1>3, <1>7, <1>8

LEMMA EndCallKeeps ==
    ASSUME AgentInv, UNCHANGED mvars, NEW k \in Call, EndCall(k)
    PROVE  AgentInv'
BY CallEnds DEF EndCall

LEMMA AgentInitial ==
    ASSUME AInit, MemberInv PROVE AgentInv
<1>0. /\ client = [c \in Client |-> "none"] /\ grant = [g \in Grant |-> NoGrant]
      /\ token = [t \in Token |-> NoToken] /\ unswept = {}
      /\ job = [d \in Job |-> NoJob] /\ call = [k \in Call |-> NoCall]
  BY DEF AInit
<1>1. NoGrant \in GrantRow /\ NoToken \in TokenRow /\ NoJob \in JobRow /\ NoCall \in CallRow
  BY DEF NoGrant, GrantRow, NoToken, TokenRow, NoJob, JobRow, NoCall, CallRow, Roles
<1>2. AgentTypes
  BY <1>0, <1>1 DEF AgentTypes
<1>3. scene.versions \in Nat \ {0}
  BY AgentAssumption DEF MemberInv, MemberTypes
<1>4. \A g \in Grant : GrantOK(g)
  BY <1>0, <1>3 DEF GrantOK, Granted, NoGrant
<1>5. \A t \in Token : TokenOK(t) /\ TokenKnows(t)
  BY <1>0 DEF TokenOK, TokenKnows, Issued, NoToken
<1>6. \A d \in Job : JobOK(d)
  BY <1>0 DEF JobOK, NoJob
<1>7. \A k \in Call : CallOK(k)
  BY <1>0 DEF CallOK, NoCall
<1> QED
  BY <1>2, <1>4, <1>5, <1>6, <1>7 DEF AgentInv

LEMMA AgentRests ==
    ASSUME MemberInv, AgentInv, EndSession \/ LockEnds \/ WindowEnds \/ UNCHANGED mvars,
           scene' = scene, UNCHANGED avars
    PROVE  AgentInv'
<1>0. /\ role' = role /\ disabled' = disabled /\ req' = req
      /\ UNCHANGED <<client, grant, token, unswept, job, call>>
  BY DEF EndSession, LockEnds, WindowEnds, mvars, avars
<1>1. AgentTypes'
  BY <1>0 DEF AgentInv, AgentTypes
<1>2. Quiet
  BY <1>0, SameGrants, SameTokens DEF Quiet, ClientsLast, MembersLast, Exists
<1>3. \A g \in Grant : GrantOK(g)'
  BY <1>0, <1>2, GrantFrame, SameGrants
<1>4. \A m \in Member : Sweeping(m)' \/ (role'[m] = role[m] /\ ~Sweeping(m))
  BY <1>0 DEF Sweeping, At
<1>5. \A t \in Token : TokenOK(t)' /\ TokenKnows(t)'
  BY <1>0, <1>1, <1>2, <1>4, SameTokens, TokenFrame, KnownFrame
<1>6. \A d \in Job : JobOK(d)'
  <2> SUFFICES ASSUME NEW d \in Job PROVE JobOK(d)'
    OBVIOUS
  <2> QED
    BY <1>0, <1>1, <1>2, JobFrame DEF Writes
<1>7. \A k \in Call : CallOK(k)'
  BY <1>0, <1>2, CallFrame
<1> QED
  BY <1>1, <1>3, <1>5, <1>6, <1>7 DEF AgentInv

-----------------------------------------------------------------------------
(* The end point.                                                           *)

Untouched(k) == call'[k].pc = call[k].pc /\ call'[k].scopes = call[k].scopes

LEMMA ServeFrame ==
    ASSUME ServerInv, NEW k \in Call, serve'[k] = serve[k], Untouched(k)
    PROVE  ServeOK(k)'
<1>1. ServeOK(k)
  BY DEF ServerInv
<1>2. Stage(k)' = Stage(k) /\ Tool(k)' = Tool(k)
  BY DEF Stage, Tool
<1> QED
  BY <1>1, <1>2 DEF ServeOK, Logged, Untouched

LEMMA NoServeOK ==
    ASSUME NEW k \in Call, serve'[k] = NoServe
    PROVE  ServeOK(k)'
BY DEF ServeOK, NoServe, Stage

LEMMA NoServeRow == NoServe \in ServeRow
BY DEF NoServe, ServeRow

LEMMA SameServers ==
    ASSUME ServerInv, UNCHANGED svars, \A k \in Call : Untouched(k)
    PROVE  ServerInv'
<1>1. \A k \in Call : ServeOK(k)'
  BY ServeFrame DEF svars
<1>2. ServerTypes'
  BY DEF svars, ServerInv, ServerTypes
<1> QED
  BY <1>1, <1>2 DEF ServerInv

\* The buckets and the tables of the log.
MemoryTypes ==
    /\ requests \in [Grant -> 0 .. McpLimit] /\ uses \in [Grant \X Bounded -> 0 .. McpLimit]
    /\ lately \subseteq Key /\ failing \subseteq Key
    /\ fresh = lately

\* One request goes on, the others wait.
LEMMA OneServes ==
    ASSUME AgentInv, ServerInv, MemoryTypes', UNCHANGED mvars, UNCHANGED Shared,
           NEW k \in Call, NEW row \in ServeRow, serve' = [serve EXCEPT ![k] = row], UNCHANGED call,
           serve'[k] = row => ServeOK(k)'
    PROVE  AgentInv' /\ ServerInv'
<1>1. serve' \in [Call -> ServeRow] /\ serve'[k] = row /\ \A j \in Call \ {k} : serve'[j] = serve[j]
  BY DEF ServerInv, ServerTypes
<1>2. \A j \in Call : ServeOK(j)'
  BY <1>1, ServeFrame DEF Untouched
<1>3. ServerInv'
  BY <1>1, <1>2 DEF ServerInv, ServerTypes, MemoryTypes
<1>4. AgentInv'
  <2>1. \A j \in Call : CallOK(j)'
    BY SameCall DEF Shared
  <2> QED
    BY <2>1, CallsKeep DEF Shared, AgentInv, AgentTypes
<1> QED BY <1>3, <1>4

LEMMA RefusedKeeps ==
    ASSUME AgentInv, ServerInv, MemoryTypes', UNCHANGED mvars, UNCHANGED Shared,
           NEW k \in Call, Refused(k)
    PROVE  AgentInv' /\ ServerInv'
<1>1. /\ serve' \in [Call -> ServeRow] /\ serve'[k] = NoServe
      /\ \A j \in Call \ {k} : serve'[j] = serve[j] /\ call'[j] = call[j]
  BY NoServeRow DEF Refused, ServerInv, ServerTypes, AgentInv, AgentTypes
<1>2. \A j \in Call : ServeOK(j)'
  BY <1>1, NoServeOK, ServeFrame DEF Untouched
<1>3. ServerInv'
  BY <1>1, <1>2 DEF ServerInv, ServerTypes, MemoryTypes
<1>4. AgentInv'
  BY CallEnds DEF Refused, Shared
<1> QED BY <1>3, <1>4

\* The row of a request that goes on.
LEMMA NextRow ==
    ASSUME ServerInv, NEW k \in Call,
           NEW label \in {"gate", "limit", "work", "size", "audit", "answer"},
           NEW trace \in {"none", "own", "earlier"}
    PROVE  LET row == [serve[k] EXCEPT !.pc = label, !.row = trace] IN
           /\ row \in ServeRow /\ row.pc = label /\ row.method = serve[k].method
           /\ row.row = trace
BY DEF ServerInv, ServerTypes, ServeRow

LEMMA ContinueKeeps ==
    ASSUME AgentInv, ServerInv, MemoryTypes', UNCHANGED mvars, UNCHANGED Shared,
           NEW k \in Call, NEW label \in {"gate", "limit", "work", "size", "audit", "answer"},
           Continue(k, label), call[k].pc = "granted", serve[k].method \in Methods,
           label = "gate" => serve[k].method \in Bounded \cup {"tools/list"},
           label \in {"limit", "work", "size"} => serve[k].method \in Bounded,
           label \in {"limit", "work", "size"} \/ serve[k].method # "server/discover"
              => label = "gate" \/ call[k].scopes = Pilot,
           label = "answer" \/ (label = "size" /\ Tool(k)) => Logged(k)
    PROVE  AgentInv' /\ ServerInv'
<1> DEFINE row == [serve[k] EXCEPT !.pc = label]
<1>1. /\ row \in ServeRow /\ row.pc = label /\ row.method = serve[k].method
      /\ row.row = serve[k].row
  BY DEF ServerInv, ServerTypes, ServeRow
<1>2. serve' = [serve EXCEPT ![k] = row] /\ call' = call
  BY DEF Continue, Advance
<1> HIDE DEF row
<1>3. ASSUME serve'[k] = row PROVE ServeOK(k)'
  BY <1>1, <1>2, <1>3 DEF ServeOK, Stage, Tool, Logged
<1> QED
  BY <1>1, <1>2, <1>3, OneServes

LEMMA MineKnown ==
    ASSUME AgentInv, NEW k \in Call, call[k].pc # "idle"
    PROVE  /\ Mine(k) \in Grant /\ grant[Mine(k)].client \in Client
           /\ serve[k].method \in Bounded => UseOf(k) \in Grant \X Bounded
           /\ serve[k].method \in Methods => KeyOf(k) \in Key
<1>1. PICK t \in Token : t = call[k].token /\ Issued(t)
  BY DEF AgentInv, CallOK
<1>2. Mine(k) \in Grant /\ grant[Mine(k)].client \in Client
  BY <1>1, IssuedGranted DEF Mine, GrantOf
<1> QED
  BY <1>2 DEF UseOf, KeyOf, Key

LEMMA BucketCounts ==
    ASSUME NEW B, NEW buckets \in [B -> 0 .. McpLimit], NEW b \in B, Within(buckets, b)
    PROVE  Counted(buckets, b) \in [B -> 0 .. McpLimit]
<1>1. buckets[b] \in 0 .. McpLimit /\ buckets[b] < McpLimit /\ McpLimit \in Nat
  BY McpAssumption DEF Within
<1>2. buckets[b] + 1 \in 0 .. McpLimit
  BY <1>1
<1> QED
  BY <1>2 DEF Counted

LEMMA MemoryStays ==
    ASSUME ServerInv, UNCHANGED Memory
    PROVE  MemoryTypes'
BY DEF ServerInv, ServerTypes, MemoryTypes, Memory

LEMMA AcceptKeeps ==
    ASSUME MemberInv, AgentInv, ServerInv, UNCHANGED mvars, NEW k \in Call, Accept(k)
    PROVE  AgentInv' /\ ServerInv'
<1>1. PICK method \in scene.methods :
          serve' = [serve EXCEPT ![k] = [NoServe EXCEPT !.pc = "verify", !.method = method]]
  BY DEF Accept
<1>2. method \in Methods
  BY McpAssumption DEF MemberInv, MemberTypes
<1> DEFINE row == [NoServe EXCEPT !.pc = "verify", !.method = method]
<1>3. row \in ServeRow /\ row.pc = "verify" /\ row.method = method
  BY <1>2 DEF NoServe, ServeRow
<1>4. serve' = [serve EXCEPT ![k] = row]
  BY <1>1
<1> HIDE DEF row
<1>5. serve' \in [Call -> ServeRow] /\ serve'[k] = row /\ \A j \in Call \ {k} : serve'[j] = serve[j]
  BY <1>3, <1>4 DEF ServerInv, ServerTypes
<1>6. AgentInv' /\ call'[k].pc = "grant"
  BY BeginCallKeeps DEF Accept
<1>7. \A j \in Call \ {k} : call'[j] = call[j]
  BY DEF Accept, BeginCall, AgentInv, AgentTypes
<1>8. ServeOK(k)'
  BY <1>2, <1>3, <1>5, <1>6 DEF ServeOK, Stage
<1>9. \A j \in Call : ServeOK(j)'
  BY <1>5, <1>7, <1>8, ServeFrame DEF Untouched
<1>10. MemoryTypes'
  BY MemoryStays DEF Accept
<1> QED
  BY <1>5, <1>6, <1>9, <1>10 DEF ServerInv, ServerTypes, MemoryTypes

LEMMA AuthenticateKeeps ==
    ASSUME AgentInv, ServerInv, UNCHANGED mvars, NEW k \in Call, Authenticate(k)
    PROVE  AgentInv' /\ ServerInv'
<1>1. /\ Stage(k) = "verify" /\ ServeOK(k) /\ serve[k] \in ServeRow
      /\ serve' = [serve EXCEPT ![k] = CASE call'[k].pc = "idle"    -> NoServe
                                       [] call'[k].pc = "granted" -> [serve[k] EXCEPT !.pc = "admit"]
                                       [] OTHER                   -> serve[k]]
  BY DEF Authenticate, ServerInv, ServerTypes
<1>2. /\ AgentInv' /\ call'[k].pc \in {"idle", "client", "member", "scopes", "granted"}
      /\ \A j \in Call \ {k} : call'[j] = call[j]
  BY LookKeeps, ReadScopesKeeps DEF Authenticate
<1> DEFINE row == CASE call'[k].pc = "idle"    -> NoServe
                    [] call'[k].pc = "granted" -> [serve[k] EXCEPT !.pc = "admit"]
                    [] OTHER                   -> serve[k]
<1>3. row \in ServeRow /\ serve' = [serve EXCEPT ![k] = row]
  BY <1>1, NoServeRow DEF ServeRow
<1>4. serve' \in [Call -> ServeRow] /\ serve'[k] = row /\ \A j \in Call \ {k} : serve'[j] = serve[j]
  BY <1>3 DEF ServerInv, ServerTypes
<1>5. ServeOK(k)'
  <2>1. CASE call'[k].pc = "idle"
    BY <1>4, <2>1, NoServeOK
  <2>2. CASE call'[k].pc = "granted"
    BY <1>1, <1>4, <2>2 DEF ServeOK, Stage, ServeRow
  <2>3. CASE call'[k].pc \in {"client", "member", "scopes"}
    <3>1. serve'[k] = serve[k]
      BY <1>4, <2>3
    <3> QED
      BY <1>1, <2>3, <3>1 DEF ServeOK, Stage
  <2> QED BY <1>2, <2>1, <2>2, <2>3
<1>6. \A j \in Call : ServeOK(j)'
  BY <1>2, <1>4, <1>5, ServeFrame DEF Untouched
<1>7. MemoryTypes'
  BY MemoryStays DEF Authenticate
<1> QED
  BY <1>2, <1>4, <1>6, <1>7 DEF ServerInv, ServerTypes, MemoryTypes

LEMMA AdmitKeeps ==
    ASSUME AgentInv, ServerInv, UNCHANGED mvars, NEW k \in Call, Admit(k)
    PROVE  AgentInv' /\ ServerInv'
<1>1. /\ Stage(k) = "admit" /\ ServeOK(k) /\ call[k].pc = "granted" /\ serve[k].method \in Methods
      /\ UNCHANGED <<Shared, uses, lately, failing, fresh>>
  BY DEF Admit, ServerInv, ServeOK
<1>2. MemoryTypes'
  <2>1. requests' \in [Grant -> 0 .. McpLimit]
    BY <1>1, MineKnown, BucketCounts DEF Admit, ServerInv, ServerTypes
  <2> QED
    BY <1>1, <2>1 DEF MemoryTypes, ServerInv, ServerTypes
<1>3. CASE Refused(k)
  BY <1>1, <1>2, <1>3, RefusedKeeps
<1>4. CASE /\ serve[k].method # "other"
           /\ Continue(k, IF serve[k].method = "server/discover" THEN "audit" ELSE "gate")
  <2>1. CASE serve[k].method = "server/discover"
    <3>1. Continue(k, "audit")
      BY <1>4, <2>1
    <3> QED
      BY <1>1, <1>2, <2>1, <3>1, ContinueKeeps
  <2>2. CASE serve[k].method # "server/discover"
    <3>1. Continue(k, "gate")
      BY <1>4, <2>2
    <3>2. serve[k].method \in Bounded \cup {"tools/list"}
      BY <1>1, <1>4, <2>2, McpAssumption DEF Bounded
    <3> QED
      BY <1>1, <1>2, <3>1, <3>2, ContinueKeeps
  <2> QED BY <2>1, <2>2
<1> QED
  BY <1>3, <1>4 DEF Admit

LEMMA GateKeeps ==
    ASSUME AgentInv, ServerInv, UNCHANGED mvars, NEW k \in Call, Gate(k)
    PROVE  AgentInv' /\ ServerInv'
<1>1. /\ Stage(k) = "gate" /\ ServeOK(k) /\ call[k].pc = "granted" /\ serve[k].method \in Methods
      /\ serve[k].method \in Bounded \cup {"tools/list"}
      /\ UNCHANGED Shared /\ UNCHANGED Memory
  BY DEF Gate, ServerInv, ServeOK
<1>2. MemoryTypes'
  BY <1>1, MemoryStays
<1>3. CASE Refused(k)
  BY <1>1, <1>2, <1>3, RefusedKeeps
<1>4. CASE /\ call[k].scopes = Pilot
           /\ Continue(k, IF serve[k].method = "tools/list" THEN "audit" ELSE "limit")
  <2>1. CASE serve[k].method = "tools/list"
    <3>1. Continue(k, "audit")
      BY <1>4, <2>1
    <3> QED
      BY <1>1, <1>2, <1>4, <3>1, ContinueKeeps
  <2>2. CASE serve[k].method # "tools/list"
    <3>1. Continue(k, "limit")
      BY <1>4, <2>2
    <3> QED
      BY <1>1, <1>2, <1>4, <2>2, <3>1, ContinueKeeps
  <2> QED BY <2>1, <2>2
<1> QED
  BY <1>3, <1>4 DEF Gate

LEMMA LimitKeeps ==
    ASSUME AgentInv, ServerInv, UNCHANGED mvars, NEW k \in Call, Limit(k)
    PROVE  AgentInv' /\ ServerInv'
<1>1. /\ Stage(k) = "limit" /\ ServeOK(k) /\ call[k].pc = "granted" /\ serve[k].method \in Methods
      /\ serve[k].method \in Bounded /\ call[k].scopes = Pilot
      /\ UNCHANGED <<Shared, requests, lately, failing, fresh>>
  BY DEF Limit, ServerInv, ServeOK
<1>2. MemoryTypes'
  <2>1. uses' \in [Grant \X Bounded -> 0 .. McpLimit]
    BY <1>1, MineKnown, BucketCounts DEF Limit, ServerInv, ServerTypes
  <2> QED
    BY <1>1, <2>1 DEF MemoryTypes, ServerInv, ServerTypes
<1>3. CASE Refused(k)
  BY <1>1, <1>2, <1>3, RefusedKeeps
<1>4. CASE Continue(k, "work")
  BY <1>1, <1>2, <1>4, ContinueKeeps
<1> QED
  BY <1>3, <1>4 DEF Limit

LEMMA WorkKeeps ==
    ASSUME AgentInv, ServerInv, UNCHANGED mvars, NEW k \in Call, Work(k)
    PROVE  AgentInv' /\ ServerInv'
<1>1. /\ Stage(k) = "work" /\ ServeOK(k) /\ call[k].pc = "granted" /\ serve[k].method \in Methods
      /\ serve[k].method \in Bounded /\ call[k].scopes = Pilot
      /\ UNCHANGED Shared /\ UNCHANGED Memory
  BY DEF Work, ServerInv, ServeOK
<1>2. MemoryTypes'
  BY <1>1, MemoryStays
<1>3. CASE Refused(k)
  BY <1>1, <1>2, <1>3, RefusedKeeps
<1>4. CASE Continue(k, IF serve[k].method = "tools/call" THEN "audit" ELSE "size")
  <2>1. CASE Tool(k)
    <3>1. Continue(k, "audit")
      BY <1>4, <2>1 DEF Tool
    <3> QED
      BY <1>1, <1>2, <3>1, ContinueKeeps
  <2>2. CASE ~Tool(k)
    <3>1. Continue(k, "size")
      BY <1>4, <2>2 DEF Tool
    <3> QED
      BY <1>1, <1>2, <2>2, <3>1, ContinueKeeps
  <2> QED BY <2>1, <2>2
<1> QED
  BY <1>3, <1>4 DEF Work

LEMMA SizeKeeps ==
    ASSUME AgentInv, ServerInv, UNCHANGED mvars, NEW k \in Call, Size(k)
    PROVE  AgentInv' /\ ServerInv'
<1>1. /\ Stage(k) = "size" /\ ServeOK(k) /\ call[k].pc = "granted" /\ serve[k].method \in Methods
      /\ serve[k].method \in Bounded /\ call[k].scopes = Pilot /\ (Tool(k) => Logged(k))
      /\ UNCHANGED Shared /\ UNCHANGED Memory
  BY DEF Size, ServerInv, ServeOK
<1>2. MemoryTypes'
  BY <1>1, MemoryStays
<1>3. CASE Refused(k)
  BY <1>1, <1>2, <1>3, RefusedKeeps
<1>4. CASE Continue(k, IF serve[k].method = "tools/call" THEN "answer" ELSE "audit")
  <2>1. CASE Tool(k)
    <3>1. Continue(k, "answer")
      BY <1>4, <2>1 DEF Tool
    <3> QED
      BY <1>1, <1>2, <2>1, <3>1, ContinueKeeps
  <2>2. CASE ~Tool(k)
    <3>1. Continue(k, "audit")
      BY <1>4, <2>2 DEF Tool
    <3> QED
      BY <1>1, <1>2, <3>1, ContinueKeeps
  <2> QED BY <2>1, <2>2
<1> QED
  BY <1>3, <1>4 DEF Size

\* An answer goes on from here only with its row in the log.
LEMMA AuditKeeps ==
    ASSUME AgentInv, ServerInv, UNCHANGED mvars, NEW k \in Call, Audit(k)
    PROVE  AgentInv' /\ ServerInv'
<1>1. /\ Stage(k) = "audit" /\ ServeOK(k) /\ call[k].pc = "granted" /\ serve[k].method \in Methods
      /\ serve[k].method # "server/discover" => call[k].scopes = Pilot
      /\ UNCHANGED <<Shared, requests, uses>>
  BY DEF Audit, ServerInv, ServeOK
<1>2. KeyOf(k) \in Key /\ fresh = lately
  BY <1>1, MineKnown DEF ServerInv, ServerTypes
<1>3. \* The row is there: the request goes on.
      ASSUME NEW trace \in {"own", "earlier"}, MemoryTypes', UNCHANGED call, trace = "own" \/ ~Tool(k),
             serve' = [serve EXCEPT ![k].pc = AfterAudit(k), ![k].row = trace]
      PROVE  AgentInv' /\ ServerInv'
  <2> DEFINE row == [serve[k] EXCEPT !.pc = AfterAudit(k), !.row = trace]
  <2>1. /\ row \in ServeRow /\ row.pc = AfterAudit(k) /\ row.method = serve[k].method
        /\ row.row = trace
    BY <1>3 DEF ServerInv, ServerTypes, ServeRow, AfterAudit
  <2>2. serve' = [serve EXCEPT ![k] = row]
    BY <1>3 DEF ServerInv, ServerTypes
  <2> HIDE DEF row
  <2>3. ASSUME serve'[k] = row PROVE ServeOK(k)'
    <3>1. Logged(k)'
      BY <1>3, <2>1, <2>3 DEF Logged, Tool
    <3>2. CASE Tool(k)
      <4>1. Stage(k)' = "size" /\ serve'[k].method = "tools/call"
        BY <2>1, <2>3, <3>2 DEF Tool, AfterAudit, Stage
      <4>2. /\ call'[k].pc = "granted" /\ serve'[k].method \in Methods
            /\ call'[k].scopes = Pilot /\ serve'[k].method \in Bounded
        BY <1>1, <1>3, <3>2, <4>1 DEF Bounded, Tool
      <4> QED
        BY <3>1, <4>1, <4>2 DEF ServeOK
    <3>3. CASE ~Tool(k)
      <4>1. Stage(k)' = "answer" /\ serve'[k].method = serve[k].method
        BY <2>1, <2>3, <3>3 DEF Tool, AfterAudit, Stage
      <4> QED
        BY <1>1, <1>3, <3>1, <4>1 DEF ServeOK, Bounded
    <3> QED BY <3>2, <3>3
  <2> QED
    BY <1>1, <1>3, <2>1, <2>2, <2>3, OneServes
<1>4. CASE /\ Suppressed(k)
           /\ serve' = [serve EXCEPT ![k].pc = AfterAudit(k),
                                     ![k].row = IF KeyOf(k) \in fresh THEN "earlier" ELSE @]
           /\ UNCHANGED <<call, lately, failing, fresh>>
  <2>1. KeyOf(k) \in fresh /\ ~Tool(k)
    BY <1>2, <1>4 DEF Suppressed, Sampled, Tool
  <2>2. serve' = [serve EXCEPT ![k].pc = AfterAudit(k), ![k].row = "earlier"]
    BY <1>4, <2>1 DEF ServerInv, ServerTypes
  <2>3. MemoryTypes'
    BY <1>1, <1>4 DEF MemoryTypes, ServerInv, ServerTypes
  <2> QED
    BY <1>3, <1>4, <2>1, <2>2, <2>3
<1>5. CASE Refused(k) /\ UNCHANGED <<lately, failing, fresh>>
  <2>1. MemoryTypes'
    BY <1>1, <1>5 DEF MemoryTypes, ServerInv, ServerTypes
  <2> QED
    BY <1>1, <1>5, <2>1, RefusedKeeps
<1>6. ASSUME NEW written \in BOOLEAN,
             lately' = Registered(written, KeyOf(k)).lately,
             failing' = Registered(written, KeyOf(k)).failing,
             fresh' = IF written THEN fresh \cup {KeyOf(k)} ELSE fresh,
             IF written
             THEN /\ serve' = [serve EXCEPT ![k].pc = AfterAudit(k), ![k].row = "own"]
                  /\ UNCHANGED call
             ELSE Refused(k)
      PROVE  AgentInv' /\ ServerInv'
  <2>1. MemoryTypes'
    BY <1>1, <1>2, <1>6 DEF MemoryTypes, Registered, ServerInv, ServerTypes
  <2>2. CASE written
    BY <1>3, <1>6, <2>1, <2>2
  <2>3. CASE ~written
    BY <1>1, <1>6, <2>1, <2>3, RefusedKeeps
  <2> QED BY <2>2, <2>3
<1> QED
  BY <1>4, <1>5, <1>6 DEF Audit

LEMMA AnswerKeeps ==
    ASSUME AgentInv, ServerInv, UNCHANGED mvars, NEW k \in Call, Answer(k)
    PROVE  AgentInv' /\ ServerInv'
<1>1. MemoryTypes' /\ UNCHANGED Shared /\ Refused(k)
  BY MemoryStays DEF Answer
<1> QED
  BY <1>1, RefusedKeeps

LEMMA RestartKeeps ==
    ASSUME AgentInv, ServerInv, UNCHANGED mvars, Restart
    PROVE  AgentInv' /\ ServerInv'
<1>1. AgentInv'
  BY CallsEnd DEF Restart, Shared
<1>2. \A k \in Call : ServeOK(k)'
  BY NoServeOK DEF Restart
<1>3. 0 \in 0 .. McpLimit
  BY McpAssumption
<1>4. ServerTypes'
  BY <1>3, NoServeRow DEF Restart, ServerTypes
<1> QED
  BY <1>1, <1>2, <1>4 DEF ServerInv

LEMMA AgesKeep ==
    ASSUME ServerInv, UNCHANGED avars, BucketEnds \/ KeyAges
    PROVE  ServerInv'
<1>1. \A k \in Call : ServeOK(k)'
  BY ServeFrame DEF BucketEnds, KeyAges, Untouched, avars
<1>2. 0 \in 0 .. McpLimit
  BY McpAssumption
<1>3. CASE BucketEnds
  BY <1>1, <1>2, <1>3 DEF BucketEnds, ServerInv, ServerTypes
<1>4. CASE KeyAges
  <2>1. serve' = serve /\ requests' = requests /\ uses' = uses /\ fresh' = fresh \cap lately'
    BY <1>4 DEF KeyAges
  <2>2. lately' \subseteq lately /\ failing' \subseteq failing
    BY <1>4 DEF KeyAges
  <2> QED
    BY <1>1, <2>1, <2>2 DEF ServerInv, ServerTypes
<1> QED BY <1>3, <1>4

\* A request that is none of the end point's.
LEMMA RestKeeps ==
    ASSUME AgentInv, ServerInv, UNCHANGED mvars, NEW k \in Call, Rest(k)
    PROVE  AgentInv' /\ ServerInv'
<1>1. AgentInv'
  BY BeginCallKeeps, LookKeeps, ReadScopesKeeps, EndCallKeeps DEF Rest, Verify
<1>2. \A j \in Call \ {k} : call'[j] = call[j]
  BY LookKeeps, ReadScopesKeeps DEF Rest, Verify, BeginCall, EndCall, AgentInv, AgentTypes
<1>3. serve' = serve /\ Stage(k) = "none"
  BY DEF Rest, svars
<1>4. ServeOK(k)'
  BY <1>3 DEF ServeOK, Stage
<1>5. \A j \in Call : ServeOK(j)'
  BY <1>2, <1>3, <1>4, ServeFrame DEF Untouched
<1>6. ServerTypes'
  BY DEF Rest, svars, ServerInv, ServerTypes
<1> QED
  BY <1>1, <1>5, <1>6 DEF ServerInv

LEMMA McpKeeps ==
    ASSUME MemberInv, AgentInv, ServerInv, UNCHANGED mvars, NEW k \in Call, Mcp(k)
    PROVE  AgentInv' /\ ServerInv'
BY AcceptKeeps, AuthenticateKeeps, AdmitKeeps, GateKeeps, LimitKeeps, WorkKeeps, SizeKeeps,
   AuditKeeps, AnswerKeeps
DEF Mcp

\* Members and owners leave the requests of agents where they are.
LEMMA OthersUntouch ==
    ASSUME AgentInv, Others, NEW k \in Call
    PROVE  Untouched(k)
<1>1. call[k] \in CallRow
  BY DEF AgentInv, AgentTypes
<1>2. CASE call'[k] = call[k] \/ call'[k] = [call[k] EXCEPT !.void = FALSE]
           \/ call'[k] = [call[k] EXCEPT !.edited = TRUE]
  BY <1>1, <1>2 DEF Untouched, CallRow
<1>3. ASSUME NEW r \in Request, MemberStep(r) PROVE Untouched(k)
  BY <1>2, <1>3 DEF MemberStep
<1>4. ASSUME NEW r \in Request, SweepTokens(r) PROVE Untouched(k)
  BY <1>2, <1>4 DEF SweepTokens
<1>5. ASSUME NEW d \in Job, OwnerStep(d) PROVE Untouched(k)
  <2>1. CASE WriteScopes(d)
    BY <1>2, <2>1 DEF WriteScopes
  <2>2. CASE call' = call
    BY <1>2, <2>2
  <2> QED
    BY <1>5, <2>1, <2>2 DEF OwnerStep, RegisterClient, RevokeClient, BeginGrant, InsertGrant, RevokeGrant,
       BeginScopes, BeginIssue, InsertToken, RevokeToken, Abandon
<1>6. CASE UNCHANGED avars \/ Expire
  BY <1>2, <1>6 DEF avars, Expire
<1> QED
  BY <1>3, <1>4, <1>5, <1>6 DEF Others

LEMMA OthersKeep ==
    ASSUME MemberInv, AgentInv, Others, scene' = scene
    PROVE  MemberInv' /\ AgentInv'
<1>1. ASSUME NEW r \in Request, MemberStep(r) PROVE MemberInv' /\ AgentInv'
  <2>1. MemberInv'
    BY <1>1, MemberMoves DEF MemberStep
  <2> QED
    BY <1>1, <2>1, MemberStepKeeps
<1>2. ASSUME NEW r \in Request, SweepTokens(r) PROVE MemberInv' /\ AgentInv'
  <2>1. MemberInv'
    BY <1>2, MemberMoves DEF SweepTokens
  <2> QED
    BY <1>2, <2>1, SweepTokensKeeps
<1>3. CASE (EndSession \/ LockEnds \/ WindowEnds) /\ UNCHANGED avars
  BY <1>3, TimeKeeps, AgentRests
<1>4. ASSUME NEW d \in Job, OwnerStep(d) PROVE MemberInv' /\ AgentInv'
  <2>1. UNCHANGED mvars
    BY <1>4 DEF OwnerStep
  <2> QED
    BY <1>4, <2>1, TimeKeeps, OwnerStepKeeps
<1>5. CASE Expire /\ UNCHANGED mvars
  BY <1>5, TimeKeeps, ExpireKeeps
<1> QED
  BY <1>1, <1>2, <1>3, <1>4, <1>5 DEF Others

LEMMA AccessInitial == CInit => AccessInv
<1> SUFFICES ASSUME CInit PROVE AccessInv
  OBVIOUS
<1>1. AInit /\ Init
  BY DEF CInit, MInit, AInit
<1>2. MemberInv /\ AgentInv
  BY <1>1, MemberInitial, AgentInitial
<1>3. 0 \in 0 .. McpLimit
  BY McpAssumption
<1>4. ServerTypes
  BY <1>3, NoServeRow DEF CInit, MInit, ServerTypes
<1>5. \A k \in Call : ServeOK(k)
  BY DEF CInit, MInit, ServeOK, Stage, NoServe
<1> QED
  BY <1>2, <1>4, <1>5 DEF AccessInv, ServerInv

LEMMA AccessMoves == AccessInv /\ [CNext]_allvars => AccessInv'
<1> SUFFICES ASSUME AccessInv, [CNext]_allvars PROVE AccessInv'
  OBVIOUS
<1>0. MemberInv /\ AgentInv /\ ServerInv
  BY DEF AccessInv
<1>1. CASE UNCHANGED vars
  <2>1. UNCHANGED mvars /\ UNCHANGED avars /\ UNCHANGED svars
    BY <1>1 DEF vars
  <2>2. scene' = scene /\ \A k \in Call : Untouched(k)
    BY <2>1 DEF mvars, avars, Untouched
  <2> QED
    BY <1>0, <2>1, <2>2, TimeKeeps, AgentRests, SameServers DEF AccessInv
<1>2. CASE MNext
  <2>0. scene' = scene
    BY <1>2 DEF MNext
  <2>1. CASE Others /\ UNCHANGED svars
    BY <1>0, <2>0, <2>1, OthersKeep, OthersUntouch, SameServers DEF AccessInv
  <2>2. CASE UNCHANGED mvars
    <3>1. MemberInv'
      BY <1>0, <2>0, <2>2, TimeKeeps
    <3>2. ASSUME NEW k \in Call, Rest(k) \/ Mcp(k) PROVE AgentInv' /\ ServerInv'
      BY <1>0, <2>2, <3>2, RestKeeps, McpKeeps
    <3>3. CASE Restart
      BY <1>0, <2>2, <3>1, <3>3, RestartKeeps DEF AccessInv
    <3>4. CASE (BucketEnds \/ KeyAges) /\ UNCHANGED avars
      BY <1>0, <2>0, <2>2, <3>1, <3>4, AgentRests, AgesKeep DEF AccessInv
    <3>5. CASE \E k \in Call : Rest(k) \/ Mcp(k)
      BY <3>1, <3>2, <3>5 DEF AccessInv
    <3>6. CASE Others /\ UNCHANGED svars
      BY <2>1, <3>6
    <3> QED
      BY <1>2, <3>3, <3>4, <3>5, <3>6 DEF MNext
  <2> QED
    BY <1>2, <2>1, <2>2 DEF MNext
<1> QED
  BY <1>1, <1>2 DEF CNext, allvars

-----------------------------------------------------------------------------
(* What the invariant says.                                                 *)

LEMMA AgentsHold ==
    MemberInv /\ AgentInv => ATypeOK /\ ScopesAsIssued /\ QuietScopes /\ TokensFollowRole
                             /\ RevokedAuthorisesNothingNew
<1> SUFFICES ASSUME MemberInv, AgentInv
             PROVE  ATypeOK /\ ScopesAsIssued /\ QuietScopes /\ TokensFollowRole
                    /\ RevokedAuthorisesNothingNew
  OBVIOUS
<1>1. ATypeOK
  <2>1. \A g \in Grant :
          /\ grant[g].status \in {"none", "active", "revoked"}
          /\ grant[g].version \in 0 .. scene.versions
          /\ grant[g].status # "none" => grant[g].client \in Client /\ grant[g].member \in Member
    <3> SUFFICES ASSUME NEW g \in Grant
                 PROVE  /\ grant[g].status \in {"none", "active", "revoked"}
                        /\ grant[g].version \in 0 .. scene.versions
                        /\ grant[g].status # "none" =>
                             grant[g].client \in Client /\ grant[g].member \in Member
      OBVIOUS
    <3>1. GrantOK(g) /\ grant[g] \in GrantRow /\ scene.versions \in Nat
      BY AgentAssumption DEF AgentInv, AgentTypes, MemberInv, MemberTypes
    <3>2. grant[g].version \in Nat
      BY <3>1 DEF GrantRow
    <3> QED
      BY <3>1, <3>2 DEF GrantOK, Granted, GrantRow
  <2>2. \A t \in Token : Issued(t) => token[t].grant \in Grant /\ token[t].version > 0
    BY IssuedGranted DEF AgentInv, TokenOK
  <2>3. \A d \in Job : job[d].tokens \subseteq Token
    BY DEF AgentInv, AgentTypes, JobRow
  <2>4. \A k \in Call : call[k].pc # "idle" => Issued(call[k].token)
    BY DEF AgentInv, CallOK
  <2>5. client \in [Client -> {"none", "active", "revoked"}] /\ unswept \subseteq Member
    BY DEF AgentInv, AgentTypes
  <2> QED
    BY <2>1, <2>2, <2>3, <2>4, <2>5, MembersHold DEF ATypeOK
<1>2. ScopesAsIssued
  BY DEF AgentInv, TokenOK, UpTo, ScopesAsIssued, Good, GrantOf
<1>3. QuietScopes
  BY DEF AgentInv, CallOK, QuietScopes
<1>4. TokensFollowRole
  BY DEF AgentInv, TokenKnows, TokensFollowRole, Good, Sweeping
<1>5. RevokedAuthorisesNothingNew
  BY DEF AgentInv, CallOK, StillVoid, RevokedAuthorisesNothingNew
<1> QED
  BY <1>1, <1>2, <1>3, <1>4, <1>5

LEMMA AccessHolds ==
    AccessInv => AccessFollowsRole /\ ScopesHold /\ AnswersAreAudited
<1> SUFFICES ASSUME AccessInv PROVE AccessFollowsRole /\ ScopesHold /\ AnswersAreAudited
  OBVIOUS
<1>0. MemberInv /\ AgentInv /\ ServerInv
  BY DEF AccessInv
<1>1. AnswersAreAudited
  BY <1>0 DEF ServerInv, ServeOK, Logged, Tool, AnswersAreAudited
<1>2. ASSUME NEW k \in Call, Stage(k) = "answer", serve[k].method # "server/discover"
      PROVE  token[call[k].token].scopes = Pilot \/ call[k].edited \/ grant[Mine(k)].mixed
  <2>1. call[k].pc = "granted" /\ call[k].scopes = Pilot
    BY <1>0, <1>2 DEF ServerInv, ServeOK
  <2>2. CallOK(k)
    BY <1>0 DEF AgentInv
  <2> QED
    BY <2>1, <2>2 DEF CallOK, GrantOf, Mine
<1>3. ScopesHold
  BY <1>0, <1>2, AgentsHold DEF ScopesHold, PilotTokensOnly
<1>4. MTypeOK
  <2>1. \A k \in Call : Stage(k) \in {"none", "verify", "admit", "gate", "limit", "work", "size",
                                      "audit", "answer"}
    BY <1>0 DEF ServerInv, ServerTypes, ServeRow, Stage
  <2>2. \A k \in Call : Stage(k) # "none" => call[k].pc # "idle" /\ serve[k].method \in Methods
    BY <1>0 DEF ServerInv, ServeOK
  <2>3. /\ requests \in [Grant -> 0 .. McpLimit] /\ uses \in [Grant \X Bounded -> 0 .. McpLimit]
        /\ lately \subseteq Key /\ failing \subseteq Key /\ fresh \subseteq Key
    BY <1>0 DEF ServerInv, ServerTypes
  <2> QED
    BY <1>0, <2>1, <2>2, <2>3, AgentsHold DEF MTypeOK
<1>5. AccessFollowsRole
  BY <1>0, <1>4, AgentsHold, MembersHold DEF AccessFollowsRole
<1> QED
  BY <1>1, <1>3, <1>5

-----------------------------------------------------------------------------
(* What no step undoes.                                                     *)

LEMMA ClientsStayRevoked ==
    ASSUME AgentInv, \/ \E d \in Job : OwnerStep(d)
                     \/ UNCHANGED client,
           NEW c \in Client, client[c] = "revoked"
    PROVE  client'[c] = "revoked"
<1>1. CASE UNCHANGED client
  BY <1>1
<1>2. ASSUME NEW d \in Job, RegisterClient(d) \/ RevokeClient(d) PROVE client'[c] = "revoked"
  BY <1>2 DEF RegisterClient, RevokeClient, AgentInv, AgentTypes
<1> QED
  BY <1>1, <1>2 DEF OwnerStep, BeginGrant, InsertGrant, RevokeGrant, BeginScopes, WriteScopes,
     BeginIssue, InsertToken, RevokeToken, Abandon

LEMMA GrantsStayRevoked ==
    ASSUME AgentInv, \/ \E d \in Job : OwnerStep(d)
                     \/ Expire
                     \/ UNCHANGED grant,
           NEW g \in Grant, grant[g].status = "revoked"
    PROVE  grant'[g].status = "revoked"
<1>0. grant \in [Grant -> GrantRow]
  BY DEF AgentInv, AgentTypes
<1>1. CASE UNCHANGED grant
  BY <1>1
<1>2. ASSUME NEW d \in Job, RevokeClient(d) PROVE grant'[g].status = "revoked"
  <2>1. PICK c \in Client :
       LET gs == {h \in Grant : grant[h].client = c /\ grant[h].status = "active"} IN
          /\ client[c] = "active"
          /\ client' = [client EXCEPT ![c] = "revoked"]
          /\ grant' = [h \in Grant |-> IF h \in gs THEN [grant[h] EXCEPT !.status = "revoked"]
                                                   ELSE grant[h]]
          /\ token' = Revoking(Unrevoked(gs))
    BY <1>2, Zenon DEF RevokeClient
  <2>2. grant'[g] = grant[g]
    BY <2>1
  <2> QED BY <2>2
<1>3. ASSUME NEW d \in Job, InsertGrant(d) PROVE grant'[g].status = "revoked"
  BY <1>0, <1>3 DEF InsertGrant
<1>4. ASSUME NEW d \in Job, RevokeGrant(d) PROVE grant'[g].status = "revoked"
  BY <1>0, <1>4 DEF RevokeGrant, GrantRow
<1>5. ASSUME NEW d \in Job, BeginScopes(d) PROVE grant'[g].status = "revoked"
  <2>1. PICK h \in Grant : \E mixed : grant' = [grant EXCEPT ![h] = [grant[h] EXCEPT !.mixed = mixed]]
    BY <1>5 DEF BeginScopes
  <2> QED
    BY <1>0, <2>1 DEF GrantRow
<1>6. ASSUME NEW d \in Job, WriteScopes(d) PROVE grant'[g].status = "revoked"
  <2>1. grant' = [grant EXCEPT ![job[d].grant] = Rescoped(grant[job[d].grant], job[d])]
    BY <1>6 DEF WriteScopes, AgentInv, JobOK
  <2> QED
    BY <1>0, <2>1 DEF GrantRow, Rescoped
<1>7. CASE Expire
  BY <1>0, <1>7 DEF Expire, GrantRow
<1> QED
  BY <1>1, <1>2, <1>3, <1>4, <1>5, <1>6, <1>7 DEF OwnerStep, RegisterClient, BeginGrant, BeginIssue,
     InsertToken, RevokeToken, Abandon

LEMMA TokensStayRevoked ==
    ASSUME AgentInv, \/ \E d \in Job : OwnerStep(d)
                     \/ \E r \in Request : SweepTokens(r)
                     \/ UNCHANGED token,
           NEW t \in Token, token[t].revoked
    PROVE  token'[t].revoked
<1>0. token \in [Token -> TokenRow] /\ Issued(t)
  BY DEF AgentInv, AgentTypes, TokenOK
<1>1. CASE UNCHANGED token
  BY <1>1
<1>2. ASSUME NEW T, token' = Revoking(T) PROVE token'[t].revoked
  BY <1>0, <1>2 DEF Revoking, TokenRow
<1>3. ASSUME NEW d \in Job, InsertToken(d) PROVE token'[t].revoked
  <2>1. PICK u \in Token : ~Issued(u) /\ \E row : token' = [token EXCEPT ![u] = row]
    BY <1>3 DEF InsertToken
  <2> QED
    BY <1>0, <2>1
<1>4. ASSUME NEW d \in Job, RevokeClient(d) PROVE token'[t].revoked
  BY <1>2, <1>4, Zenon DEF RevokeClient
<1>5. ASSUME NEW d \in Job, RevokeGrant(d) \/ WriteScopes(d) \/ RevokeToken(d) PROVE token'[t].revoked
  BY <1>2, <1>5 DEF RevokeGrant, WriteScopes, RevokeToken
<1>6. ASSUME NEW r \in Request, SweepTokens(r) PROVE token'[t].revoked
  BY <1>2, <1>6 DEF SweepTokens
<1> QED
  BY <1>1, <1>3, <1>4, <1>5, <1>6 DEF OwnerStep, RegisterClient, BeginGrant, InsertGrant, BeginScopes,
     BeginIssue, Abandon

\* How a step of the whole looks to members, and to clients, grants and tokens.
LEMMA StepsOfMembers ==
    [CNext]_allvars =>
        \/ \E r \in Request : SignIn(r) \/ Manage(r) \/ AfterTokens(r)
        \/ EndSession \/ LockEnds \/ WindowEnds
        \/ UNCHANGED mvars
<1> SUFFICES ASSUME [CNext]_allvars
             PROVE  \/ \E r \in Request : SignIn(r) \/ Manage(r) \/ AfterTokens(r)
                    \/ EndSession \/ LockEnds \/ WindowEnds
                    \/ UNCHANGED mvars
  OBVIOUS
<1>1. CASE MNext /\ Others
  BY <1>1 DEF Others, MemberStep, SweepTokens, OwnerStep
<1>2. CASE UNCHANGED mvars
  BY <1>2
<1>3. UNCHANGED vars => UNCHANGED mvars
  BY DEF vars
<1>4. MNext => Others \/ UNCHANGED mvars
  BY DEF MNext
<1> QED
  BY <1>1, <1>2, <1>3, <1>4 DEF CNext, allvars

LEMMA StepsOfOwners ==
    [CNext]_allvars =>
        /\ (\E d \in Job : OwnerStep(d)) \/ UNCHANGED client
        /\ (\E d \in Job : OwnerStep(d)) \/ Expire \/ UNCHANGED grant
        /\ (\E d \in Job : OwnerStep(d)) \/ (\E r \in Request : SweepTokens(r)) \/ UNCHANGED token
<1> SUFFICES ASSUME [CNext]_allvars
             PROVE  /\ (\E d \in Job : OwnerStep(d)) \/ UNCHANGED client
                    /\ (\E d \in Job : OwnerStep(d)) \/ Expire \/ UNCHANGED grant
                    /\ \/ (\E d \in Job : OwnerStep(d)) \/ (\E r \in Request : SweepTokens(r))
                       \/ UNCHANGED token
  OBVIOUS
<1>1. CASE MNext /\ Others
  BY <1>1 DEF Others, MemberStep, SweepTokens, Expire, avars
<1>2. CASE UNCHANGED <<client, grant, token>>
  BY <1>2
<1>3. UNCHANGED vars => UNCHANGED <<client, grant, token>>
  BY DEF vars, avars
<1>4. ASSUME MNext PROVE Others \/ UNCHANGED <<client, grant, token>>
  <2>1. ASSUME NEW k \in Call, Rest(k) PROVE UNCHANGED <<client, grant, token>>
    BY <2>1 DEF Rest, Verify, BeginCall, ReadGrant, ReadClient, ReadMember, Look, ReadScopes, EndCall
  <2>2. ASSUME NEW k \in Call, Mcp(k) PROVE UNCHANGED <<client, grant, token>>
    BY <2>2 DEF Mcp, Accept, BeginCall, Authenticate, ReadGrant, ReadClient, ReadMember, Look, ReadScopes,
       Admit, Gate, Limit, Work, Size, Audit, Answer, Shared
  <2>3. Restart => UNCHANGED <<client, grant, token>>
    BY DEF Restart, Shared
  <2>4. UNCHANGED avars => UNCHANGED <<client, grant, token>>
    BY DEF avars
  <2> QED
    BY <1>4, <2>1, <2>2, <2>3, <2>4 DEF MNext
<1> QED
  BY <1>1, <1>2, <1>3, <1>4 DEF CNext, allvars

-----------------------------------------------------------------------------
(* The theorems.                                                            *)

\* What holds of members, agents and the end point always, and makes the rest true.
THEOREM AccessIsInvariant == CSpec => []AccessInv
<1> QED
  BY AccessInitial, AccessMoves, PTL DEF CSpec

\* Rows keep their types; a session in force and a token that is accepted were opened and
\* issued in the role their member has now, except while the change of the role is under way
\* or after it died before it reached the tokens (update_member, revoke_member_sessions,
\* revoke_member_agent_tokens).
THEOREM AccessAlwaysFollowsRole == CSpec => []AccessFollowsRole
<1> QED
  BY AccessIsInvariant, AccessHolds, PTL

\* A session in force was opened with the password its member has now, but for the exceptions
\* that the property names (set_member_password, change_password, the console commands).
THEOREM OldPasswordsAreOut == CSpec => []OldPasswordIsOut
<1>1. AccessInv => OldPasswordIsOut
  BY MembersHold DEF AccessInv
<1> QED
  BY <1>1, AccessIsInvariant, PTL

\* A token means the scopes it was issued under, whoever asks and whenever: to verify_token,
\* to a request under way, and to the pilot of the end point.
THEOREM ScopesAlwaysHold == CSpec => []ScopesHold
<1> QED
  BY AccessIsInvariant, AccessHolds, PTL

\* Nothing is answered without the row in the log that it needs (log_security_event).
THEOREM AnswersAreAlwaysAudited == CSpec => []AnswersAreAudited
<1> QED
  BY AccessIsInvariant, AccessHolds, PTL

\* An address fails no more often than the limit and what was let in before it was reached,
\* and nobody is locked out by fewer wrong passwords than the constant says (login,
\* verify_member_password, rate_limit).
THEOREM GuessingIsBounded == CSpec => GuessingBounded
<1>1. AccessInv => FailuresBounded
  BY MembersHold DEF AccessInv
<1>2. AccessInv /\ [CNext]_allvars
      => \A m \in Member :
            cred[m].lock # "now" /\ cred'[m].lock = "now" => wrong[m] + 1 >= MaxAttempts
  BY StepsOfMembers, LockedByCheck DEF AccessInv
<1> QED
  BY <1>1, <1>2, AccessIsInvariant, PTL DEF CSpec, GuessingBounded

\* What was revoked stays revoked, and what an agent asks afterwards gets nothing, whatever
\* its rows change to while they are read (revoke_agent_client, revoke_grant, revoke_token,
\* verify_token).
THEOREM RevocationAlwaysHolds == CSpec => RevocationHolds
<1>1. AccessInv => RevokedAuthorisesNothingNew
  BY AgentsHold DEF AccessInv
<1>2. AccessInv /\ [CNext]_allvars
      => /\ \A c \in Client : client[c] = "revoked" => client'[c] = "revoked"
         /\ \A g \in Grant : grant[g].status = "revoked" => grant'[g].status = "revoked"
         /\ \A t \in Token : token[t].revoked => token'[t].revoked
  BY StepsOfOwners, ClientsStayRevoked, GrantsStayRevoked, TokensStayRevoked DEF AccessInv
<1> QED
  BY <1>1, <1>2, AccessIsInvariant, PTL DEF CSpec, RevocationHolds

-----------------------------------------------------------------------------
(* The client's token file.  The chosen path always leads to a file that was *)
(* written, because the choice is written after the file: Chosen.  What a    *)
(* process under way has written is in Written, and what a process that is   *)
(* alone knows of the files in Known, which nobody else changes.             *)

Labels == {"idle", "check", "open", "write", "saved", "said", "remove"}

Doing == [pc : Labels, env : Named \cup {None}, option : File \cup {None},
          file : File \cup {None}, todo : Seq(Place), alone : BOOLEAN]

CliTypeOK ==
    /\ disk \in [Place -> Process \cup File \cup {None}]
    /\ \A f \in File : disk[f] \in Process \cup {None}
    /\ disk[Path] \in File \cup {None}
    /\ cli \in [Process -> Doing]
    /\ told \subseteq Named \cup {None}
    /\ removed \subseteq File

\* The file holds a token, or was deleted since it did.
Kept(f) == disk[f] \in Process \/ f \in removed

\* What a process writes, and in which order.
Both(s)   == cli[s].todo = <<cli[s].file, Path>>
Choice(s) == cli[s].todo = <<Path>>
Only(s)   == cli[s].todo = <<cli[s].file>>

Under(s) == ~Does(s, "idle")

\* The file of a process under way is the one it was told, or the one in use.
Aim(s) ==
    /\ cli[s].file \in File
    /\ cli[s].option # None => cli[s].file = cli[s].option
    /\ cli[s].option = None /\ cli[s].env # None => cli[s].file = cli[s].env
    /\ cli[s].option = None /\ cli[s].env = None => cli[s].file = DefaultFile \/ disk[Path] # None

Written(s) ==
    /\ Under(s) => Aim(s)
    /\ Does(s, "open") \/ Does(s, "write") =>
          \/ cli[s].option # None /\ Both(s)
          \/ cli[s].option # None /\ Choice(s) /\ Kept(cli[s].file)
          \/ cli[s].option = None /\ Only(s)
    /\ Does(s, "saved") \/ Does(s, "said") =>
          Kept(cli[s].file) /\ (cli[s].option # None => disk[Path] # None)

Chosen ==
    /\ disk[Path] # None => Kept(disk[Path])
    /\ \A env \in told : env # None => Kept(env)
    /\ None \in told /\ disk[Path] = None => Kept(DefaultFile)

Known(s) ==
    Under(s) /\ cli[s].alone =>
      /\ \A q \in Process \ {s} : ~Under(q)
      /\ cli[s].option = None => cli[s].file = TokenFile(cli[s].env)
      /\ (Does(s, "open") \/ Does(s, "write")) /\ Choice(s) => disk[cli[s].file] = s
      /\ Does(s, "saved") \/ Does(s, "said") =>
            disk[cli[s].file] = s /\ (cli[s].option # None => disk[Path] = cli[s].file)

CliInv == CliTypeOK /\ Chosen /\ \A s \in Process : Written(s) /\ Known(s)

-----------------------------------------------------------------------------
LEMMA CliInitial == CInit => CliInv
<1> SUFFICES ASSUME CInit PROVE CliInv
  OBVIOUS
<1>1. CliTypeOK
  BY CliAssumption DEF CInit, CliTypeOK, Resting, Doing, Labels, Place, Path
<1>2. Chosen
  BY DEF CInit, Chosen, Place, Path
<1>3. \A s \in Process : ~Under(s)
  BY DEF CInit, Under, Does, Resting
<1> QED
  BY <1>1, <1>2, <1>3, CliAssumption DEF CliInv, Written, Known, Under, Does, CInit, Resting

\* What a process knows of the files only changes with them and with itself.
LEMMA OthersStay ==
    ASSUME CliInv, NEW s \in Process,
           cli'[s] = cli[s] \/ (cli'[s] = [cli[s] EXCEPT !.alone = FALSE] /\ Under(s)),
           \A f \in File : Kept(f) => Kept(f)',
           disk[Path] # None => disk[Path]' # None
    PROVE  Written(s)'
<1>1. cli[s] \in Doing
  BY DEF CliInv, CliTypeOK
<1>2. /\ cli'[s].pc = cli[s].pc /\ cli'[s].env = cli[s].env /\ cli'[s].option = cli[s].option
      /\ cli'[s].file = cli[s].file /\ cli'[s].todo = cli[s].todo
  BY <1>1 DEF Doing
<1>3. Written(s)
  BY DEF CliInv
<1>4. Aim(s) => Aim(s)'
  BY <1>2 DEF Aim
<1>5. Kept(cli[s].file) /\ cli[s].file \in File => Kept(cli[s].file)'
  BY <1>2 DEF Kept
<1> QED
  BY <1>2, <1>3, <1>4, <1>5 DEF Written, Under, Does, Both, Choice, Only, Aim, Kept


\* A command starts.
LEMMA StartKeeps ==
    ASSUME CliInv, NEW p \in Process, NEW label \in {"check", "remove"}, Start(p, label)
    PROVE  CliInv'
<1> USE DEF CliInv
<1>1. PICK env \in Named \cup {None}, option \in File \cup {None} :
        cli' = [q \in Process |->
                    IF q # p THEN [cli[q] EXCEPT !.alone = FALSE]
                    ELSE [Resting EXCEPT !.pc = label, !.env = env, !.option = option,
                             !.alone = {r \in Process : ~Does(r, "idle")} = {},
                             !.file = IF option # None THEN option ELSE TokenFile(env)]]
  BY DEF Start
<1>2. UNCHANGED <<disk, told, removed>> /\ Does(p, "idle")
  BY DEF Start
<1>3. TokenFile(env) \in File
  BY CliAssumption DEF TokenFile, CliTypeOK
<1>4. /\ cli'[p].pc = label /\ cli'[p].env = env /\ cli'[p].option = option
      /\ cli'[p].file = (IF option # None THEN option ELSE TokenFile(env))
      /\ cli'[p].alone = ({r \in Process : ~Does(r, "idle")} = {})
  BY <1>1 DEF Resting
<1>5. CliTypeOK'
  <2>1. cli'[p] \in Doing
    <3>1. <<>> \in Seq(Place)
      OBVIOUS
    <3>2. Resting \in Doing
      BY <3>1 DEF Resting, Doing, Labels
    <3>3. cli'[p] = [Resting EXCEPT !.pc = label, !.env = env, !.option = option,
                        !.alone = {r \in Process : ~Does(r, "idle")} = {},
                        !.file = IF option # None THEN option ELSE TokenFile(env)]
      BY <1>1
    <3> QED
      BY <1>3, <3>2, <3>3 DEF Doing, Labels
  <2>2. \A q \in Process \ {p} : cli'[q] \in Doing
    BY <1>1 DEF Doing, CliTypeOK
  <2> QED
    BY <1>1, <1>2, <2>1, <2>2 DEF CliTypeOK
<1>6. Chosen'
  BY <1>2 DEF Chosen, Kept
<1>7. ASSUME NEW s \in Process PROVE Written(s)' /\ Known(s)'
  <2>1. CASE s = p
    <3>1. Written(s)'
      BY <1>2, <1>3, <1>4, <2>1, CliAssumption DEF Written, Aim, Under, Does, TokenFile
    <3>2. Known(s)'
      <4> SUFFICES ASSUME cli'[p].alone PROVE Known(s)'
        BY <2>1 DEF Known
      <4>1. \A q \in Process \ {p} : ~Under(q)'
        <5> SUFFICES ASSUME NEW q \in Process \ {p} PROVE ~Under(q)'
          OBVIOUS
        <5>1. cli'[q] = [cli[q] EXCEPT !.alone = FALSE] /\ cli[q] \in Doing
          BY <1>1 DEF CliTypeOK
        <5>3. cli'[q].pc = cli[q].pc
          BY <5>1 DEF Doing
        <5>2. Does(q, "idle")
          BY <1>4
        <5> QED
          BY <5>2, <5>3 DEF Under, Does
      <4> QED
        BY <1>2, <1>4, <2>1, <4>1 DEF Known, Does, TokenFile
    <3> QED BY <3>1, <3>2
  <2>2. CASE s # p
    <3>1. cli'[s] = [cli[s] EXCEPT !.alone = FALSE]
      BY <1>1, <2>2
    <3>2. cli'[s].alone = FALSE /\ cli[s] \in Doing
      BY <3>1 DEF CliTypeOK, Doing
    <3>3. Known(s)'
      BY <3>2 DEF Known
    <3>4. CASE Under(s)
      BY <1>2, <3>1, <3>4, OthersStay, <3>3 DEF Kept
    <3>5. CASE ~Under(s)
      BY <3>1, <3>2, <3>3, <3>5 DEF Written, Under, Does, Doing
    <3> QED BY <3>4, <3>5
  <2> QED BY <2>1, <2>2
<1> QED
  BY <1>5, <1>6, <1>7

LEMMA AcceptedKeeps ==
    ASSUME CliInv, NEW p \in Process, Accepted(p)
    PROVE  CliInv'
<1> USE DEF CliInv
<1>1. cli[p] \in Doing /\ Written(p) /\ Known(p) /\ Aim(p)
  BY DEF CliTypeOK, Accepted, Written, Under, Does
<1>2. /\ cli' = [cli EXCEPT ![p] = [cli[p] EXCEPT !.pc = "open", !.todo = Order(cli[p])]]
      /\ UNCHANGED <<disk, told, removed>> /\ Does(p, "check")
  BY DEF Accepted
<1>3. Order(cli[p]) \in Seq(Place)
  <2>1. cli[p].file \in Place /\ Path \in Place
    BY <1>1 DEF Aim, Place
  <2>2. <<cli[p].file, Path>> \in Seq(Place) /\ <<cli[p].file>> \in Seq(Place)
    BY <2>1
  <2> QED
    BY <2>2 DEF Order
<1>4. /\ cli'[p].pc = "open" /\ cli'[p].todo = Order(cli[p]) /\ cli'[p].env = cli[p].env
      /\ cli'[p].option = cli[p].option /\ cli'[p].file = cli[p].file /\ cli'[p].alone = cli[p].alone
  BY <1>1, <1>2 DEF CliTypeOK, Doing
<1>5. CliTypeOK'
  BY <1>1, <1>2, <1>3 DEF CliTypeOK, Doing, Labels
<1>6. Chosen'
  BY <1>2 DEF Chosen, Kept
<1>7. ASSUME NEW s \in Process PROVE Written(s)' /\ Known(s)'
  <2>1. CASE s = p
    <3>1. Written(s)'
      BY <1>1, <1>2, <1>4, <2>1 DEF Written, Aim, Under, Does, Both, Only, Order, TokenFile
    <3>2. ~Choice(p)'
      BY <1>1, <1>4, CliAssumption DEF Choice, Order, Aim, Path
    <3>3. Known(s)'
      BY <1>1, <1>2, <1>4, <2>1, <3>2 DEF Known, Under, Does, TokenFile, CliTypeOK
    <3> QED BY <3>1, <3>3
  <2>2. CASE s # p
    <3>1. cli'[s] = cli[s]
      BY <1>2, <2>2 DEF CliTypeOK
    <3>2. Written(s)'
      BY <1>2, <3>1, OthersStay DEF Kept
    <3>3. Known(s)'
      BY <1>2, <2>2, <3>1 DEF Known, Under, Does, Choice, TokenFile
    <3> QED BY <3>2, <3>3
  <2> QED BY <2>1, <2>2
<1> QED
  BY <1>5, <1>6, <1>7

LEMMA OpenKeeps ==
    ASSUME CliInv, NEW p \in Process, OpenTemporary(p)
    PROVE  CliInv'
<1> USE DEF CliInv
<1>1. cli[p] \in Doing /\ Written(p) /\ Known(p) /\ Aim(p)
  BY DEF CliTypeOK, OpenTemporary, Written, Under, Does
<1>2. /\ cli' = [cli EXCEPT ![p].pc = "write"]
      /\ UNCHANGED <<disk, told, removed>> /\ Does(p, "open")
  BY DEF OpenTemporary, Opened, Proceed
<1>3. /\ cli'[p].pc = "write" /\ cli'[p].todo = cli[p].todo /\ cli'[p].env = cli[p].env
      /\ cli'[p].option = cli[p].option /\ cli'[p].file = cli[p].file /\ cli'[p].alone = cli[p].alone
  BY <1>1, <1>2 DEF CliTypeOK, Doing
<1>4. CliTypeOK'
  BY <1>1, <1>2 DEF CliTypeOK, Doing, Labels
<1>5. Chosen'
  BY <1>2 DEF Chosen, Kept
<1>6. ASSUME NEW s \in Process PROVE Written(s)' /\ Known(s)'
  <2>1. CASE s = p
    <3>1. Written(s)'
      BY <1>1, <1>2, <1>3, <2>1 DEF Written, Aim, Under, Does, Both, Choice, Only, Kept
    <3>2. Known(s)'
      BY <1>1, <1>2, <1>3, <2>1 DEF Known, Under, Does, Choice, TokenFile, CliTypeOK
    <3> QED BY <3>1, <3>2
  <2>2. CASE s # p
    <3>1. cli'[s] = cli[s]
      BY <1>2, <2>2 DEF CliTypeOK
    <3>2. Written(s)'
      BY <1>2, <3>1, OthersStay DEF Kept
    <3>3. Known(s)'
      BY <1>2, <2>2, <3>1 DEF Known, Under, Does, Choice, TokenFile
    <3> QED BY <3>2, <3>3
  <2> QED BY <2>1, <2>2
<1> QED
  BY <1>4, <1>5, <1>6

LEMMA ReportKeeps ==
    ASSUME CliInv, NEW p \in Process, Report(p)
    PROVE  CliInv'
<1> USE DEF CliInv
<1>1. cli[p] \in Doing /\ Written(p) /\ Known(p) /\ Aim(p)
  BY DEF CliTypeOK, Report, Written, Under, Does
<1>2. /\ cli' = [cli EXCEPT ![p].pc = "said"] /\ told' = told \cup {Reaches(cli[p])}
      /\ UNCHANGED <<disk, removed>> /\ Does(p, "saved")
  BY DEF Report, Proceed
<1>3. /\ cli'[p].pc = "said" /\ cli'[p].todo = cli[p].todo /\ cli'[p].env = cli[p].env
      /\ cli'[p].option = cli[p].option /\ cli'[p].file = cli[p].file /\ cli'[p].alone = cli[p].alone
  BY <1>1, <1>2 DEF CliTypeOK, Doing
<1>4. CliTypeOK'
  BY <1>1, <1>2 DEF CliTypeOK, Doing, Labels, Reaches
<1>5. Chosen'
  <2>1. Kept(cli[p].file) /\ (cli[p].option # None => disk[Path] # None)
    BY <1>1, <1>2 DEF Written, Does
  <2>2. Reaches(cli[p]) # None => Kept(Reaches(cli[p]))
    BY <1>1, <2>1 DEF Reaches, Aim
  <2>3. Reaches(cli[p]) = None /\ disk[Path] = None => Kept(DefaultFile)
    BY <1>1, <2>1 DEF Reaches, Aim
  <2> QED
    BY <1>2, <2>2, <2>3 DEF Chosen, Kept
<1>6. ASSUME NEW s \in Process PROVE Written(s)' /\ Known(s)'
  <2>1. CASE s = p
    <3>1. Written(s)'
      BY <1>1, <1>2, <1>3, <2>1 DEF Written, Aim, Under, Does, Kept
    <3>2. Known(s)'
      BY <1>1, <1>2, <1>3, <2>1 DEF Known, Under, Does, TokenFile, CliTypeOK
    <3> QED BY <3>1, <3>2
  <2>2. CASE s # p
    <3>1. cli'[s] = cli[s]
      BY <1>2, <2>2 DEF CliTypeOK
    <3>2. Written(s)'
      BY <1>2, <3>1, OthersStay DEF Kept
    <3>3. Known(s)'
      BY <1>2, <2>2, <3>1 DEF Known, Under, Does, Choice, TokenFile
    <3> QED BY <3>2, <3>3
  <2> QED BY <2>1, <2>2
<1> QED
  BY <1>4, <1>5, <1>6

\* The process ends, by itself or not.
LEMMA EndKeeps ==
    ASSUME CliInv, NEW p \in Process, Exit(p) \/ Kill(p)
    PROVE  CliInv'
<1> USE DEF CliInv
<1>1. cli' = [cli EXCEPT ![p] = Resting] /\ UNCHANGED <<disk, told, removed>>
  BY DEF Exit, Kill
<1>2. Resting \in Doing /\ Resting.pc = "idle"
  <2>1. <<>> \in Seq(Place)
    OBVIOUS
  <2> QED
    BY <2>1 DEF Resting, Doing, Labels
<1>3. CliTypeOK'
  BY <1>1, <1>2 DEF CliTypeOK
<1>4. Chosen'
  BY <1>1 DEF Chosen, Kept
<1>5. ASSUME NEW s \in Process PROVE Written(s)' /\ Known(s)'
  <2>1. CASE s = p
    <3>1. cli'[s].pc = "idle"
      BY <1>1, <1>2, <2>1 DEF CliTypeOK
    <3> QED
      BY <3>1 DEF Written, Known, Under, Does
  <2>2. CASE s # p
    <3>1. cli'[s] = cli[s]
      BY <1>1, <2>2 DEF CliTypeOK
    <3>2. Written(s)'
      BY <1>1, <3>1, OthersStay DEF Kept
    <3>3. \A q \in Process : Under(q)' => Under(q)
      BY <1>1, <1>2 DEF Under, Does, CliTypeOK
    <3>4. Known(s)'
      BY <1>1, <3>1, <3>3 DEF Known, Under, Does, Choice, TokenFile
    <3> QED BY <3>2, <3>4
  <2> QED BY <2>1, <2>2
<1> QED
  BY <1>3, <1>4, <1>5

LEMMA RemoveKeeps ==
    ASSUME CliInv, NEW p \in Process, Remove(p)
    PROVE  CliInv'
<1> USE DEF CliInv
<1>1. cli[p] \in Doing /\ Under(p) /\ Aim(p)
  BY DEF CliTypeOK, Remove, Written, Under, Does
<1>2. /\ cli' = [cli EXCEPT ![p] = Resting]
      /\ disk' = [disk EXCEPT ![cli[p].file] = None]
      /\ removed' = removed \cup {cli[p].file} /\ told' = told
  BY DEF Remove
<1>3. cli[p].file \in File /\ cli[p].file # Path
  BY <1>1, CliAssumption DEF Aim, Path
<1>4. Resting \in Doing /\ Resting.pc = "idle"
  <2>1. <<>> \in Seq(Place)
    OBVIOUS
  <2> QED
    BY <2>1 DEF Resting, Doing, Labels
<1>5. disk'[Path] = disk[Path]
  BY <1>2, <1>3 DEF CliTypeOK, Place
<1>6. \A f \in File : Kept(f) => Kept(f)'
  BY <1>2, <1>3 DEF Kept, CliTypeOK, Place
<1>7. CliTypeOK'
  BY <1>2, <1>3, <1>4, <1>5 DEF CliTypeOK, Place
<1>8. Chosen'
  <2>1. disk[Path] # None => disk[Path] \in File
    BY DEF CliTypeOK
  <2>2. \A env \in told : env # None => env \in File
    BY CliAssumption DEF CliTypeOK
  <2> QED
    BY <1>2, <1>5, <1>6, <2>1, <2>2, CliAssumption DEF Chosen, Kept
<1>9. ASSUME NEW s \in Process PROVE Written(s)' /\ Known(s)'
  <2>1. CASE s = p
    <3>1. cli'[s].pc = "idle"
      BY <1>2, <1>4, <2>1 DEF CliTypeOK
    <3> QED
      BY <3>1 DEF Written, Known, Under, Does
  <2>2. CASE s # p
    <3>1. cli'[s] = cli[s]
      BY <1>2, <2>2 DEF CliTypeOK
    <3>2. Written(s)'
      BY <1>5, <1>6, <3>1, OthersStay
    <3>3. ~(Under(s) /\ cli[s].alone)
      BY <1>1, <2>2 DEF Known
    <3>4. Known(s)'
      BY <3>1, <3>3 DEF Known, Under, Does
    <3> QED BY <3>2, <3>4
  <2> QED BY <2>1, <2>2
<1> QED
  BY <1>7, <1>8, <1>9

\* What is replaced is the token's file, and the choice of it only after that.
LEMMA ReplaceKeeps ==
    ASSUME CliInv, NEW p \in Process, Replace(p)
    PROVE  CliInv'
<1> USE DEF CliInv
<1> DEFINE file == cli[p].file
           place == Head(cli[p].todo)
<1>1. cli[p] \in Doing /\ Written(p) /\ Known(p) /\ Under(p) /\ Aim(p) /\ Does(p, "write")
  BY DEF CliTypeOK, Replace, Written, Under, Does
<1>2. file \in File /\ file # Path
  BY <1>1, CliAssumption DEF Aim, Path
<1>3. /\ disk' = [disk EXCEPT ![place] = IF place = Path THEN file ELSE p]
      /\ removed' = removed \ {place} /\ told' = told
      /\ cli' = [cli EXCEPT ![p] = [cli[p] EXCEPT
                    !.pc = IF Len(cli[p].todo) > 1 THEN "open" ELSE "saved",
                    !.todo = Tail(cli[p].todo)]]
  BY DEF Replace
<1>4. \/ cli[p].option # None /\ Both(p) /\ place = file
      \/ cli[p].option # None /\ Choice(p) /\ place = Path /\ Kept(file)
      \/ cli[p].option = None /\ Only(p) /\ place = file
  BY <1>1 DEF Written, Both, Choice, Only
<1>5. Both(p) => Len(cli[p].todo) = 2 /\ Tail(cli[p].todo) = <<Path>>
  BY DEF Both
<1>6. Choice(p) \/ Only(p) => Len(cli[p].todo) = 1 /\ Tail(cli[p].todo) = <<>>
  <2>1. Choice(p) => Len(cli[p].todo) = 1 /\ Tail(cli[p].todo) = <<>>
    BY DEF Choice
  <2>2. Only(p) => Len(cli[p].todo) = 1 /\ Tail(cli[p].todo) = <<>>
    BY DEF Only
  <2> QED
    BY <2>1, <2>2
<1>7. /\ cli'[p].pc = (IF Len(cli[p].todo) > 1 THEN "open" ELSE "saved")
      /\ cli'[p].todo = Tail(cli[p].todo) /\ cli'[p].env = cli[p].env
      /\ cli'[p].option = cli[p].option /\ cli'[p].file = file /\ cli'[p].alone = cli[p].alone
  BY <1>1, <1>3 DEF CliTypeOK, Doing
<1>8. Tail(cli[p].todo) \in Seq(Place)
  <2>1. Path \in Place
    BY DEF Place
  <2>2. <<Path>> \in Seq(Place) /\ <<>> \in Seq(Place)
    BY <2>1
  <2> QED
    BY <1>4, <1>5, <1>6, <2>2
<1>9. disk'[Path] = (IF place = Path THEN file ELSE disk[Path])
  BY <1>3 DEF CliTypeOK, Place
<1>10. \A f \in File : disk'[f] = (IF f = place THEN p ELSE disk[f])
  BY <1>2, <1>3, <1>4, CliAssumption DEF CliTypeOK, Place, Path
<1>11. \A f \in File : Kept(f) => Kept(f)'
  BY <1>3, <1>10 DEF Kept
<1>12. disk[Path] # None => disk'[Path] # None
  BY <1>2, <1>9, CliAssumption
<1>13. CliTypeOK'
  <2>1. disk' \in [Place -> Process \cup File \cup {None}]
    BY <1>2, <1>3 DEF CliTypeOK
  <2>2. cli' \in [Process -> Doing]
    BY <1>1, <1>3, <1>8 DEF CliTypeOK, Doing, Labels
  <2> QED
    BY <1>2, <1>3, <1>9, <1>10, <2>1, <2>2 DEF CliTypeOK
<1>14. Chosen'
  <2>1. disk'[Path] # None => disk'[Path] \in File /\ Kept(disk[Path])'
    <3>1. CASE place = Path
      BY <1>2, <1>4, <1>9, <1>11, <3>1 DEF Kept
    <3>2. CASE place # Path
      BY <1>9, <1>11, <3>2 DEF Chosen, Kept, CliTypeOK
    <3> QED BY <3>1, <3>2
  <2>2. \A env \in told : env # None => Kept(env)'
    BY <1>11, CliAssumption DEF Chosen, CliTypeOK, Kept
  <2>3. None \in told /\ disk'[Path] = None => Kept(DefaultFile)'
    BY <1>11, <1>12, CliAssumption DEF Chosen, Kept
  <2>4. disk'[Path] = disk[Path]' /\ told' = told
    BY <1>3
  <2> QED
    BY <2>1, <2>2, <2>3, <2>4 DEF Chosen, Kept
<1>15. ASSUME NEW s \in Process PROVE Written(s)' /\ Known(s)'
  <2>1. CASE s = p
    <3>1. Aim(p)'
      BY <1>1, <1>7, <1>12 DEF Aim
    <3>2. Kept(file) => Kept(cli[p].file)'
      BY <1>2, <1>7, <1>11 DEF Kept
    <3>3. place = file => disk'[file] = p /\ Kept(cli[p].file)'
      BY <1>2, <1>7, <1>10 DEF Kept
    <3>4. Written(p)'
      BY <1>2, <1>4, <1>5, <1>6, <1>7, <1>9, <3>1, <3>2, <3>3, CliAssumption
      DEF Written, Does, Choice
    <3>5. Known(p)'
      <4> SUFFICES ASSUME cli[p].alone PROVE Known(p)'
        BY <1>7 DEF Known
      <4>1. \A q \in Process \ {p} : ~Under(q)'
        BY <1>1, <1>3 DEF Known, Under, Does, CliTypeOK
      <4>2. cli[p].option = None => file = TokenFile(cli[p].env)'
        BY <1>1, <1>4, <1>7, <1>9, <1>2 DEF Known, TokenFile
      <4>3. place = Path => disk[file] = p /\ disk'[file] = p /\ disk'[Path] = file
        BY <1>1, <1>2, <1>4, <1>9, <1>10 DEF Known
      <4> QED
        BY <1>2, <1>4, <1>5, <1>6, <1>7, <3>3, <4>1, <4>2, <4>3 DEF Known, Does, Choice
    <3> QED BY <2>1, <3>4, <3>5
  <2>2. CASE s # p
    <3>1. cli'[s] = cli[s]
      BY <1>3, <2>2 DEF CliTypeOK
    <3>2. Written(s)'
      BY <1>11, <1>12, <3>1, OthersStay
    <3>3. ~(Under(s) /\ cli[s].alone)
      BY <1>1, <2>2 DEF Known
    <3>4. Known(s)'
      BY <3>1, <3>3 DEF Known, Under, Does
    <3> QED BY <3>2, <3>4
  <2> QED BY <2>1, <2>2
<1> QED
  BY <1>13, <1>14, <1>15

-----------------------------------------------------------------------------
LEMMA CliStep == CliInv /\ [CNext]_allvars => CliInv'
<1> SUFFICES ASSUME CliInv, [CNext]_allvars PROVE CliInv'
  OBVIOUS
<1>1. CASE UNCHANGED cvars
  BY <1>1 DEF cvars, CliInv, CliTypeOK, Chosen, Written, Known, Aim, Under, Does, Both, Choice,
              Only, Kept, TokenFile
<1>2. CASE \E p \in Process : Command(p)
  <2>1. PICK p \in Process : Command(p)
    BY <1>2
  <2>2. CASE Login(p)
    BY <2>2, StartKeeps DEF Login
  <2>3. CASE Logout(p)
    BY <2>3, StartKeeps DEF Logout
  <2> QED
    BY <2>1, <2>2, <2>3, AcceptedKeeps, OpenKeeps, ReplaceKeeps, ReportKeeps, RemoveKeeps, EndKeeps
    DEF Command
<1> QED
  BY <1>1, <1>2 DEF CNext, allvars

LEMMA CliInvHolds == CliInv => LoginsHold
<1> SUFFICES ASSUME CliInv PROVE LoginsHold
  OBVIOUS
<1>1. ASSUME NEW s \in Process, Does(s, "said"), cli[s].alone
      PROVE  Resolved(Reaches(cli[s])) = s
  <2>1. Under(s) /\ Aim(s) /\ Known(s)
    BY <1>1 DEF CliInv, Written, Under, Does
  <2> QED
    BY <1>1, <2>1, CliAssumption DEF Known, Resolved, Reaches, TokenFile, Aim
<1>2. ASSUME NEW env \in told
      PROVE  TokenFile(env) \in File /\ Kept(TokenFile(env))
  BY <1>2, CliAssumption DEF CliInv, CliTypeOK, Chosen, TokenFile
<1> QED
  BY <1>1, <1>2 DEF LoginsHold, LoginTakesEffect, TokenStays, Resolved, Kept

\* A login that has succeeded holds: by itself at once, and among others and with failures
\* and kills in that a whole token stays until a logout (cli credentials, bootstrap).
THEOREM SuccessfulLoginsHold == CSpec => []LoginsHold
<1>1. CInit => CliInv
  BY CliInitial
<1>2. CliInv /\ [CNext]_allvars => CliInv'
  BY CliStep
<1>3. CliInv => LoginsHold
  BY CliInvHolds
<1> QED
  BY <1>1, <1>2, <1>3, PTL DEF CSpec

=============================================================================
