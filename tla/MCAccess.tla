------------------------------ MODULE MCAccess ------------------------------
(* Scenes: one question at a time over one set of rows.                      *)
EXTENDS CliLogin, TLC

CONSTANTS s1, s2, r1, r2, c1, g1, g2, t1, d1, d2, k1, pilot, full, home, other, p1, p2

MCMethods == {"server/discover", "tools/list", "tools/call", "resources/read", "other"}

Alone  == 1 :> "owner" @@ 2 :> "none"
Two    == 1 :> "owner" @@ 2 :> "member"
NoneYet == 1 :> "none" @@ 2 :> "none"

SignInScene(roles, asks) ==
    [roles |-> roles, signed |-> None, grants |-> 0, tokens |-> 0, versions |-> 1,
     jobs |-> 0, methods |-> {}, asks |-> asks]

AgentScene(grants, versions, jobs, methods, asks) ==
    [roles |-> Two, signed |-> 1, grants |-> grants, tokens |-> 1, versions |-> versions,
     jobs |-> jobs, methods |-> methods, asks |-> {"client", "grant", "issue"} \cup asks]

MCScenes ==
    { SignInScene(Alone, {"login", "guess", "reset"}),
      SignInScene(Alone, {"login", "guess", "change"}),
      SignInScene(Two, {"login", "role"}),
      SignInScene(Two, {"login", "disable"}),
      SignInScene(NoneYet, {"login", "add", "init"}),
      SignInScene(Alone, {"login", "admin"}),
      SignInScene(NoneYet, {"add", "admin", "login"}),
      [SignInScene(Two, {"role", "admin"}) EXCEPT !.signed = 1],
      SignInScene(NoneYet, {"cli"}),
      AgentScene(1, 2, 2, {}, {"call", "scopes", "revokeToken"}),
      AgentScene(1, 2, 2, {}, {"scopes", "revokeGrant"}),
      AgentScene(2, 1, 2, {}, {"revokeClient", "revokeGrant", "expire"}),
      AgentScene(1, 1, 2, {}, {"call", "revokeClient", "revokeGrant", "expire"}),
      AgentScene(1, 1, 1, {}, {"role"}),
      AgentScene(1, 1, 1, {}, {"call", "disable"}),
      AgentScene(1, 2, 1, {"tools/call"}, {"mcp", "scopes"}),
      AgentScene(1, 1, 1, {"resources/read", "other"}, {"mcp"}),
      AgentScene(1, 1, 1, {"tools/list", "server/discover"}, {"mcp"}) }

Sym == Permutations(Request) \cup Permutations(Session)
        \cup Permutations(Job) \cup Permutations(Process)
=============================================================================
