----------------------------- MODULE AgentAccess -----------------------------
(***************************************************************************)
(* Agent clients, their grants and tokens (services/agent_access,          *)
(* api/v1/agent_access), and the requests of agents that show a token      *)
(* (verify_token, auth_context, mcp_server/auth), beside the members and   *)
(* sessions of Members.                                                    *)
(*                                                                         *)
(* The owner's requests that compute what they write from what they read   *)
(* (create_grant, update_grant_scopes, issue_token) are two steps.  Those  *)
(* that only revoke are one: what is inserted between their reading and    *)
(* their commit might as well be inserted after it.  An agent's request    *)
(* reads token, grant, client and member with a statement each, commits    *)
(* the time of use, which makes SQLAlchemy forget what it read, and then   *)
(* reads the scopes.                                                       *)
(*                                                                         *)
(* Scopes are model values.  A token runs out with its grant, so that      *)
(* verify_token refuses it before it gets to mark the grant as expired.    *)
(***************************************************************************)
EXTENDS Members     \* a scene also bounds grants, tokens, versions and jobs

CONSTANTS
    Client, Grant, Token,   \* ids of rows
    Job,                    \* handler threads with a request of an owner
    Call,                   \* handler threads with a request of an agent
    ScopeSets               \* sets of scopes that a grant may have

ASSUME AgentAssumption ==
    /\ None \notin Grant \cup Token
    /\ \A sc \in Scenes : sc.versions \in Nat \ {0}

VARIABLES
    client,     \* agent_clients: none, active or revoked
    grant,      \* agent_grants: status, version, scopes, client, member, over;
                \* history: mixed, two changes of its scopes overlapped
    token,      \* agent_tokens: grant, version, revoked; history: the scopes it was issued
                \* under, the role its member had
    unswept,    \* history: members whose role changed and whose tokens stayed
    job,        \* what each request of an owner is doing
    call        \* what each request of an agent is doing

avars == <<client, grant, token, unswept, job, call>>

NoJob  == [pc |-> "idle", client |-> None, grant |-> None, member |-> None, scopes |-> None,
           version |-> 0, tokens |-> {}]
NoCall == [pc |-> "idle", token |-> None, scopes |-> None,
           void |-> FALSE, edited |-> FALSE]
NoGrant == [status |-> "none", version |-> 0, scopes |-> None, client |-> None,
            member |-> None, over |-> FALSE, mixed |-> FALSE]
NoToken == [grant |-> None, version |-> 0, revoked |-> FALSE, scopes |-> None, as |-> "none"]

AInit ==
    /\ Init
    /\ client = [c \in Client |-> "none"]
    /\ grant = [g \in Grant |-> NoGrant]
    /\ token = [t \in Token |-> NoToken]
    /\ unswept = {}
    /\ job = [d \in Job |-> NoJob]
    /\ call = [k \in Call |-> NoCall]

Issued(t)  == token[t].grant # None
GrantOf(t) == grant[token[t].grant]

\* Mutant: the version is not compared.
GrantActive(t) == GrantOf(t).status = "active"

\* What verify_token asks of each row.
TokenGood(t)  == ~token[t].revoked /\ ~GrantOf(t).over
GrantGood(t)  == GrantOf(t).status = "active" /\ token[t].version = GrantOf(t).version
ClientGood(t) == client[GrantOf(t).client] = "active"
MemberGood(t) == ~disabled[GrantOf(t).member]

\* What makes a token good, whoever asks and in whatever order.
Good(t) ==
    /\ ~token[t].revoked /\ ~GrantOf(t).over
    /\ GrantOf(t).status = "active" /\ token[t].version = GrantOf(t).version
    /\ client[GrantOf(t).client] = "active" /\ ~disabled[GrantOf(t).member]

\* The tokens that loops over grant.tokens find and revoke.
Unrevoked(gs)  == {t \in Token : token[t].grant \in gs /\ ~token[t].revoked}
Revoking(ts)   == [t \in Token |-> IF t \in ts THEN [token[t] EXCEPT !.revoked = TRUE] ELSE token[t]]

AnOwner == \E s \in Session : OwnerSession(s)
Ready(d, kind) ==
    /\ Asked(kind) /\ job[d].pc = "idle" /\ AnOwner
    /\ Cardinality({e \in Job : job[e].pc # "idle"}) < scene.jobs           \* bound

-----------------------------------------------------------------------------
(* The owner's side.                                                        *)

\* register_agent_client
RegisterClient(d) ==
    /\ Ready(d, "client")
    /\ \E c \in Client : client[c] = "none" /\ client' = [client EXCEPT ![c] = "active"]
    /\ UNCHANGED <<grant, token, unswept, job, call>>

\* revoke_agent_client: with its active grants and their tokens.
RevokeClient(d) ==
    /\ Ready(d, "revokeClient")
    /\ \E c \in Client :
       LET gs == {g \in Grant : grant[g].client = c /\ grant[g].status = "active"} IN
          /\ client[c] = "active"
          /\ client' = [client EXCEPT ![c] = "revoked"]
          /\ grant' = [g \in Grant |-> IF g \in gs THEN [grant[g] EXCEPT !.status = "revoked"]
                                                   ELSE grant[g]]
          /\ token' = Revoking(Unrevoked(gs))
    /\ UNCHANGED <<unswept, job, call>>

\* create_grant: what it checks ...
BeginGrant(d) ==
    /\ Ready(d, "grant")
    /\ \E c \in Client, m \in Member, scopes \in ScopeSets :
          /\ client[c] = "active" /\ Exists(m)
          /\ job' = [job EXCEPT ![d] = [NoJob EXCEPT !.pc = "insertGrant", !.client = c,
                                        !.member = m, !.scopes = scopes]]
    /\ UNCHANGED <<client, grant, token, unswept, call>>

\* ... and the new row.
InsertGrant(d) ==
    /\ job[d].pc = "insertGrant"
    /\ \E g \in Grant :
          /\ grant[g].status = "none"
          /\ Cardinality({h \in Grant : grant[h].status # "none"}) < scene.grants    \* bound
          /\ grant' = [grant EXCEPT ![g] =
                [NoGrant EXCEPT !.status = "active", !.version = 1, !.scopes = job[d].scopes,
                                !.client = job[d].client, !.member = job[d].member]]
    /\ job' = [job EXCEPT ![d] = NoJob]
    /\ UNCHANGED <<client, token, unswept, call>>

\* revoke_grant
RevokeGrant(d) ==
    /\ Ready(d, "revokeGrant")
    /\ \E g \in Grant :
          /\ grant[g].status # "none"
          /\ grant' = [grant EXCEPT ![g].status = "revoked"]
          /\ token' = Revoking(Unrevoked({g}))
    /\ UNCHANGED <<client, unswept, job, call>>

\* update_grant_scopes with other scopes: the version and the tokens it sees ...
BeginScopes(d) ==
    /\ Ready(d, "scopes")
    /\ \E g \in Grant, scopes \in ScopeSets :
          /\ grant[g].status = "active" /\ scopes # grant[g].scopes
          /\ grant[g].version < scene.versions                                       \* bound
          /\ job' = [job EXCEPT ![d] = [NoJob EXCEPT !.pc = "writeScopes", !.grant = g,
                        !.scopes = scopes, !.version = grant[g].version + 1,
                        !.tokens = Unrevoked({g})]]
          /\ grant' = [grant EXCEPT ![g].mixed =
                @ \/ \E e \in Job : job[e].pc = "writeScopes" /\ job[e].grant = g]
    /\ UNCHANGED <<client, token, unswept, call>>

\* Mutants: the version stays; the whole row is written back.
RescopedSameVersion(row, j) == [row EXCEPT !.scopes = j.scopes]

RescopedWholeRow(row, j) ==
    [row EXCEPT !.version = j.version, !.scopes = j.scopes, !.status = "active"]

\* ... and the columns it changes, the status not among them.
Rescoped(row, j) == [row EXCEPT !.version = j.version, !.scopes = j.scopes]

WriteScopes(d) ==
    LET g == job[d].grant IN
    /\ job[d].pc = "writeScopes"
    /\ grant' = [grant EXCEPT ![g] = Rescoped(@, job[d])]
    /\ token' = Revoking(job[d].tokens)
    /\ call' = [k \in Call |-> IF call[k].token # None /\ token[call[k].token].grant = g
                               THEN [call[k] EXCEPT !.edited = TRUE] ELSE call[k]]
    /\ job' = [job EXCEPT ![d] = NoJob]
    /\ UNCHANGED <<client, unswept>>

\* issue_token: what it checks and the version that it binds the token to ...
BeginIssue(d) ==
    /\ Ready(d, "issue")
    /\ \E g \in Grant :
          /\ grant[g].status = "active" /\ ~grant[g].over /\ client[grant[g].client] = "active"
          /\ job' = [job EXCEPT ![d] = [NoJob EXCEPT !.pc = "insertToken", !.grant = g,
                        !.version = grant[g].version, !.scopes = grant[g].scopes]]
    /\ UNCHANGED <<client, grant, token, unswept, call>>

\* ... and the new row.
InsertToken(d) ==
    /\ job[d].pc = "insertToken"
    /\ \E t \in Token :
          /\ ~Issued(t) /\ Cardinality({u \in Token : Issued(u)}) < scene.tokens  \* bound
          /\ token' = [token EXCEPT ![t] =
                [grant |-> job[d].grant, version |-> job[d].version, revoked |-> FALSE,
                 scopes |-> job[d].scopes, as |-> role[grant[job[d].grant].member]]]
    /\ job' = [job EXCEPT ![d] = NoJob]
    /\ UNCHANGED <<client, grant, unswept, call>>

\* revoke_token
RevokeToken(d) ==
    /\ Ready(d, "revokeToken")
    /\ \E t \in Token : Issued(t) /\ token' = Revoking({t})
    /\ UNCHANGED <<client, grant, unswept, job, call>>

\* The server dies, or the request fails, before its commit.
Abandon(d) ==
    /\ job[d].pc # "idle"
    /\ job' = [job EXCEPT ![d] = NoJob]
    /\ UNCHANGED <<client, grant, token, unswept, call>>

Expire ==
    /\ Asked("expire")
    /\ \E g \in Grant : grant[g].status # "none" /\ ~grant[g].over
                          /\ grant' = [grant EXCEPT ![g].over = TRUE]
    /\ UNCHANGED <<client, token, unswept, job, call>>

\* Mutant: the grants that the member approved, not those that are the member's own.
ApprovedGrants(m) == {g \in Grant : role[m] = "owner" /\ grant[g].status = "active"}

\* revoke_member_agent_tokens
SweptGrants(m) == {g \in Grant : grant[g].member = m /\ grant[g].status = "active"}

SweepTokens(r) ==
    /\ AfterTokens(r)
    /\ token' = Revoking(Unrevoked(SweptGrants(req[r].member)))
    /\ unswept' = unswept \ {req[r].member}
    /\ UNCHANGED <<client, grant, job, call>>

-----------------------------------------------------------------------------
(* The agent's side.                                                        *)

\* The first look, at the token.
BeginCall(k) ==
    /\ call[k].pc = "idle"
    /\ \E t \in Token :
          /\ Issued(t) /\ TokenGood(t)
          /\ call' = [call EXCEPT ![k] = [NoCall EXCEPT !.pc = "grant", !.token = t,
                                                        !.void = ~Good(t)]]
    /\ UNCHANGED <<client, grant, token, unswept, job>>

\* What follows looks at the next row and goes on, or refuses.
Look(k, here, good, next) ==
    /\ call[k].pc = here
    /\ call' = [call EXCEPT ![k] = IF good THEN [@ EXCEPT !.pc = next] ELSE NoCall]
    /\ UNCHANGED <<client, grant, token, unswept, job>>

ReadGrant(k)  == Look(k, "grant", GrantGood(call[k].token), "client")
ReadClient(k) == Look(k, "client", ClientGood(call[k].token), "member")
ReadMember(k) == Look(k, "member", MemberGood(call[k].token), "scopes")

\* The time of use is committed and the grant read again for its scopes.
ReadScopes(k) ==
    /\ call[k].pc = "scopes"
    /\ call' = [call EXCEPT ![k].pc = "granted",
                            ![k].scopes = GrantOf(call[k].token).scopes]
    /\ UNCHANGED <<client, grant, token, unswept, job>>

EndCall(k) ==
    /\ call[k].pc = "granted"
    /\ call' = [call EXCEPT ![k] = NoCall]
    /\ UNCHANGED <<client, grant, token, unswept, job>>

Verify(k) ==
    \/ Asked("call") /\ BeginCall(k)
    \/ ReadGrant(k) \/ ReadClient(k) \/ ReadMember(k) \/ ReadScopes(k)

-----------------------------------------------------------------------------
(* Beside the members.  A member who is no longer disabled makes a call     *)
(* good that was begun before.                                              *)

MemberStep(r) ==
    /\ SignIn(r) \/ Manage(r)
    /\ unswept' = IF At(r, "tokens") /\ req'[r].pc = "idle"
                  THEN unswept \cup {req[r].member} ELSE unswept
    /\ call' = [k \in Call |->
                  IF call[k].token # None /\ ~MemberGood(call[k].token)
                       /\ ~disabled'[GrantOf(call[k].token).member]
                  THEN [call[k] EXCEPT !.void = FALSE] ELSE call[k]]
    /\ UNCHANGED <<client, grant, token, job>>

OwnerStep(d) ==
    /\ \/ RegisterClient(d) \/ RevokeClient(d) \/ BeginGrant(d) \/ InsertGrant(d)
       \/ RevokeGrant(d) \/ BeginScopes(d) \/ WriteScopes(d) \/ BeginIssue(d) \/ InsertToken(d)
       \/ RevokeToken(d) \/ Abandon(d)
    /\ UNCHANGED mvars

Others ==
    \/ \E r \in Request : MemberStep(r) \/ SweepTokens(r)
    \/ (EndSession \/ LockEnds \/ WindowEnds) /\ UNCHANGED avars
    \/ \E d \in Job : OwnerStep(d)
    \/ Expire /\ UNCHANGED mvars

ANext ==
    /\ Others \/ \E k \in Call : (Verify(k) \/ EndCall(k)) /\ UNCHANGED mvars
    /\ UNCHANGED scene

ASpec == AInit /\ [][ANext]_<<mvars, avars>>

-----------------------------------------------------------------------------
(* Properties.                                                              *)

ATypeOK ==
    /\ TypeOK
    /\ client \in [Client -> {"none", "active", "revoked"}]
    /\ \A g \in Grant :
          /\ grant[g].status \in {"none", "active", "revoked"}
          /\ grant[g].version \in 0 .. scene.versions
          /\ grant[g].status # "none" => grant[g].client \in Client /\ grant[g].member \in Member
    /\ \A t \in Token : Issued(t) => token[t].grant \in Grant /\ token[t].version > 0
    /\ unswept \subseteq Member
    /\ \A d \in Job : job[d].tokens \subseteq Token
    /\ \A k \in Call : call[k].pc # "idle" => Issued(call[k].token)

\* A request that an agent sends after its token, grant or client was revoked, the scopes
\* of its grant were changed or its member was disabled gets nothing, whatever its rows
\* change to while verify_token reads them one by one.  A grant whose scopes two requests
\* changed at once is an exception: both wrote the same version.
RevokedAuthorisesNothingNew ==
    \A k \in Call : call[k].pc = "granted" /\ call[k].void => GrantOf(call[k].token).mixed

\* A token that verify_token accepts stands for the scopes it was issued under, although
\* it holds the version that its issue had read and the scopes may change before it is
\* stored.
ScopesAsIssued ==
    \A t \in Token : Issued(t) /\ Good(t) /\ ~GrantOf(t).mixed => token[t].scopes = GrantOf(t).scopes

\* The same where two changes of the scopes overlap.
ScopesAlwaysAsIssued ==
    \A t \in Token : Issued(t) /\ Good(t) => token[t].scopes = GrantOf(t).scopes

\* A request during which no change of the scopes commits acts with the scopes of its token.
QuietScopes ==
    \A k \in Call : call[k].pc = "granted" /\ ~call[k].edited =>
        GrantOf(call[k].token).mixed \/ call[k].scopes = token[call[k].token].scopes

\* A token that is accepted was issued to the member in the role he has now, also when the
\* issue and the change of the role overlap (update_member, revoke_member_agent_tokens).
\* The exceptions: the change is under way, or died before it revoked the tokens.
TokensFollowRole ==
    \A t \in Token :
       Issued(t) /\ Good(t) /\ token[t].as # role[GrantOf(t).member] =>
          \/ GrantOf(t).member \in unswept
          \/ \E r \in Request : At(r, "tokens") /\ req[r].member = GrantOf(t).member

\* Revoking takes effect for all that is asked afterwards, and for good: what was revoked
\* stays so, whatever was read before it and is written after.
RevocationHolds ==
    [][/\ RevokedAuthorisesNothingNew'
       /\ \A c \in Client : client[c] = "revoked" => client'[c] = "revoked"
       /\ \A g \in Grant : grant[g].status = "revoked" => grant'[g].status = "revoked"
       /\ \A t \in Token : token[t].revoked => token'[t].revoked]_<<mvars, avars>>
=============================================================================
