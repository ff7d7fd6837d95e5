------------------------------ MODULE McpServer ------------------------------
(***************************************************************************)
(* The MCP end point (mcp_server/server, mcp_post), its rate limits        *)
(* (services/rate_limit) and its audit log (services/security_audit).      *)
(*                                                                         *)
(* mcp_post is a coroutine whose only await is the reading of the body, so *)
(* that one process works on one MCP request at a time, while the requests *)
(* of owners run in threads.  Buckets and the tables of the log are in     *)
(* memory and are gone after a restart.  What is malformed or comes from   *)
(* the wrong place is refused before the token is looked at, and a refusal *)
(* is logged if possible: neither changes anything.                        *)
(***************************************************************************)
EXTENDS AgentAccess

CONSTANTS
    Methods,        \* of MCP; "other" is a method the server does not know
    Household,      \* grants made with the data scope household_shared
    Pilot,          \* the set of scopes that is books:read alone
    McpLimit        \* mcp_rate_limit_per_minute

ASSUME McpAssumption ==
    /\ Methods = {"server/discover", "tools/list", "tools/call", "resources/read", "other"}
    /\ Household \subseteq Grant /\ Pilot \in ScopeSets /\ McpLimit \in Nat \ {0}
    /\ \A sc \in Scenes : sc.methods \subseteq Methods

VARIABLES
    serve,      \* what becomes of each MCP request: pc, method, row (its trace in the log)
    requests,   \* bucket of requests of each grant
    uses,       \* buckets of uses of a tool and of resources of each grant
    lately,     \* _suppressed: keys of the log that were written lately
    failing,    \* _failed_recently: keys whose last writing failed a moment ago
    fresh       \* history: keys with a row that is younger than the time of suppression

svars == <<serve, requests, uses, lately, failing, fresh>>
vars  == <<mvars, avars, svars>>

Bounded == {"tools/call", "resources/read"}

Key == Client \X Methods        \* of the events with outcome allow
NoServe == [pc |-> "none", method |-> "none", row |-> "none"]

MInit ==
    /\ AInit
    /\ serve = [k \in Call |-> NoServe]
    /\ requests = [g \in Grant |-> 0]
    /\ uses = [b \in Grant \X Bounded |-> 0]
    /\ lately = {} /\ failing = {} /\ fresh = {}

Mine(k)    == token[call[k].token].grant
UseOf(k)   == <<Mine(k), serve[k].method>>
KeyOf(k)   == <<grant[Mine(k)].client, serve[k].method>>
Stage(k)   == serve[k].pc
Advance(k, label) == serve' = [serve EXCEPT ![k].pc = label]
\* The request is answered without data.
Refused(k) == /\ serve' = [serve EXCEPT ![k] = NoServe]
              /\ call' = [call EXCEPT ![k] = NoCall]
Continue(k, label) == Advance(k, label) /\ UNCHANGED call

Shared == <<client, grant, token, unswept, job>>
Memory == <<requests, uses, lately, failing, fresh>>

\* rate_limit.check of one bucket
Within(buckets, b)  == buckets[b] < McpLimit

Counted(buckets, b) == [buckets EXCEPT ![b] = @ + 1]

-----------------------------------------------------------------------------
Accept(k) ==
    /\ Asked("mcp")
    /\ \A j \in Call : Stage(j) = "none"
    /\ BeginCall(k)
    /\ \E method \in scene.methods :
          serve' = [serve EXCEPT ![k] = [NoServe EXCEPT !.pc = "verify", !.method = method]]
    /\ UNCHANGED Memory

\* build_agent_principal
Authenticate(k) ==
    /\ Stage(k) = "verify"
    /\ ReadGrant(k) \/ ReadClient(k) \/ ReadMember(k) \/ ReadScopes(k)
    /\ serve' = [serve EXCEPT ![k] = CASE call'[k].pc = "idle"    -> NoServe
                                       [] call'[k].pc = "granted" -> [@ EXCEPT !.pc = "admit"]
                                       [] OTHER                   -> @]
    /\ UNCHANGED Memory

\* The limit of requests, and where the method leads.
Admit(k) ==
    /\ Stage(k) = "admit"
    /\ requests' = IF Within(requests, Mine(k)) THEN Counted(requests, Mine(k)) ELSE requests
    /\ IF Within(requests, Mine(k)) /\ serve[k].method # "other"
       THEN Continue(k, IF serve[k].method = "server/discover" THEN "audit" ELSE "gate")
       ELSE Refused(k)
    /\ UNCHANGED <<Shared, uses, lately, failing, fresh>>

\* The scopes are books:read alone and the grant is made for the household's data.
Gate(k) ==
    /\ Stage(k) = "gate"
    /\ IF call[k].scopes = Pilot /\ Mine(k) \in Household
       THEN Continue(k, IF serve[k].method = "tools/list" THEN "audit" ELSE "limit")
       ELSE Refused(k)
    /\ UNCHANGED <<Shared, Memory>>

\* The limit of the tool, or of resources/read.
Limit(k) ==
    /\ Stage(k) = "limit"
    /\ uses' = IF Within(uses, UseOf(k)) THEN Counted(uses, UseOf(k)) ELSE uses
    /\ IF Within(uses, UseOf(k)) THEN Continue(k, "work") ELSE Refused(k)
    /\ UNCHANGED <<Shared, requests, lately, failing, fresh>>

\* The tool reads, or fails; the size of a resource is looked at before it is logged.
Work(k) ==
    /\ Stage(k) = "work"
    /\ \/ Refused(k)
       \/ Continue(k, IF serve[k].method = "tools/call" THEN "audit" ELSE "size")
    /\ UNCHANGED <<Shared, Memory>>

Size(k) ==
    /\ Stage(k) = "size"
    /\ \/ Refused(k)
       \/ Continue(k, IF serve[k].method = "tools/call" THEN "answer" ELSE "audit")
    /\ UNCHANGED <<Shared, Memory>>

\* log_security_event: every tools/call is written.
Sampled(k) == serve[k].method # "tools/call"

Suppressed(k) == Sampled(k) /\ KeyOf(k) \in lately

\* Mutant: it counts as done when it is tried.
RegisteredFirst(written, key) ==
    IF written THEN [lately |-> lately \cup {key}, failing |-> failing \ {key}]
               ELSE [lately |-> lately \cup {key}, failing |-> failing]

\* The tables after a writing: it counts as done when it was committed.
Registered(written, key) ==
    IF written THEN [lately |-> lately \cup {key}, failing |-> failing \ {key}]
               ELSE [lately |-> lately, failing |-> failing \cup {key}]

AfterAudit(k) == IF serve[k].method = "tools/call" THEN "size" ELSE "answer"

Audit(k) ==
    /\ Stage(k) = "audit"
    /\ \/ /\ Suppressed(k)
          /\ serve' = [serve EXCEPT ![k].pc = AfterAudit(k),
                                    ![k].row = IF KeyOf(k) \in fresh THEN "earlier" ELSE @]
          /\ UNCHANGED <<call, lately, failing, fresh>>
       \/ /\ ~Suppressed(k) /\ KeyOf(k) \in failing
          /\ Refused(k)
          /\ UNCHANGED <<lately, failing, fresh>>
       \/ \E written \in BOOLEAN :
          /\ ~Suppressed(k) /\ KeyOf(k) \notin failing
          /\ lately' = Registered(written, KeyOf(k)).lately
          /\ failing' = Registered(written, KeyOf(k)).failing
          /\ fresh' = IF written THEN fresh \cup {KeyOf(k)} ELSE fresh
          /\ IF written
             THEN /\ serve' = [serve EXCEPT ![k].pc = AfterAudit(k), ![k].row = "own"]
                  /\ UNCHANGED call
             ELSE Refused(k)
    /\ UNCHANGED <<Shared, requests, uses>>

Answer(k) ==
    /\ Stage(k) = "answer"
    /\ Refused(k)
    /\ UNCHANGED <<Shared, Memory>>

-----------------------------------------------------------------------------
(* Time and restarts.                                                       *)

BucketEnds ==
    /\ \/ /\ \E g \in Grant : requests[g] > 0 /\ requests' = [requests EXCEPT ![g] = 0]
          /\ UNCHANGED uses
       \/ /\ \E b \in Grant \X Bounded : uses[b] > 0 /\ uses' = [uses EXCEPT ![b] = 0]
          /\ UNCHANGED requests
    /\ UNCHANGED <<serve, lately, failing, fresh>>

KeyAges ==
    /\ \E key \in Key :
          \/ key \in lately /\ lately' = lately \ {key} /\ UNCHANGED failing
          \/ key \in failing /\ failing' = failing \ {key} /\ UNCHANGED lately
    /\ fresh' = fresh \cap lately'
    /\ UNCHANGED <<serve, requests, uses>>

Restart ==
    /\ \E k \in Call : Stage(k) # "none"
    /\ serve' = [k \in Call |-> NoServe]
    /\ call' = [k \in Call |-> NoCall]
    /\ requests' = [g \in Grant |-> 0] /\ uses' = [b \in Grant \X Bounded |-> 0]
    /\ lately' = {} /\ failing' = {} /\ fresh' = {}
    /\ UNCHANGED Shared

Rest(k) ==
    /\ Stage(k) = "none"
    /\ Verify(k) \/ EndCall(k)
    /\ UNCHANGED svars

Mcp(k) ==
    Accept(k) \/ Authenticate(k) \/ Admit(k) \/ Gate(k) \/ Limit(k) \/ Work(k) \/ Size(k)
    \/ Audit(k) \/ Answer(k)

MNext ==
    /\ \/ Others /\ UNCHANGED svars
       \/ (\E k \in Call : Rest(k) \/ Mcp(k)) /\ UNCHANGED mvars
       \/ Restart /\ UNCHANGED mvars
       \/ (BucketEnds \/ KeyAges) /\ UNCHANGED <<mvars, avars>>
    /\ UNCHANGED scene

MSpec == MInit /\ [][MNext]_vars

-----------------------------------------------------------------------------
(* Properties.                                                              *)

MTypeOK ==
    /\ ATypeOK
    /\ \A k \in Call :
          /\ Stage(k) \in {"none", "verify", "admit", "gate", "limit", "work", "size", "audit",
                           "answer"}
          /\ Stage(k) # "none" => call[k].pc # "idle" /\ serve[k].method \in Methods
    /\ requests \in [Grant -> 0 .. McpLimit] /\ uses \in [Grant \X Bounded -> 0 .. McpLimit]
    /\ lately \subseteq Key /\ failing \subseteq Key /\ fresh \subseteq Key

\* What a tool read is only handed out when a row about this very request is in the log; any
\* other answer when there is a row about one like it that is not too old.  Failed writings,
\* the pause after them and the sampling leave no gap (log_security_event, mcp_post).
AnswersAreAudited ==
    \A k \in Call : Stage(k) = "answer" =>
        serve[k].row \in IF serve[k].method = "tools/call" THEN {"own"} ELSE {"own", "earlier"}

\* Data of the household go to tokens issued for reading books alone; a token of another
\* time does not profit from a later narrowing of its grant, nor is it narrowed.  A change
\* of the scopes that commits within the request is an exception.
PilotTokensOnly ==
    \A k \in Call : Stage(k) = "answer" /\ serve[k].method # "server/discover" =>
        \/ token[call[k].token].scopes = Pilot
        \/ call[k].edited \/ grant[Mine(k)].mixed

\* A token means the scopes it was issued under, to whoever asks and whenever.
ScopesHold == ScopesAsIssued /\ QuietScopes /\ PilotTokensOnly

\* Rows keep their types, and what a role opened ends with the role.
AccessFollowsRole == MTypeOK /\ SessionsFollowRole /\ TokensFollowRole
=============================================================================
