-------------------------------- MODULE Mcp --------------------------------
(***************************************************************************)
(* Tools of MCP servers: the registry's resolve and dispatch               *)
(* (crates/harness-plugins/src/registry.rs), McpPlugin and McpHttpClient   *)
(* (src/mcp/plugin.rs, src/mcp/client.rs), the OAuth requests behind them  *)
(* (src/mcp/oauth.rs) and the token store they share with the `auth`       *)
(* command.                                                                *)
(*                                                                         *)
(* Three kinds of tasks: warm connects every configured server before the  *)
(* listener is bound (crates/harness-server/src/main.rs); a turn calls one *)
(* tool; a login is one run of the `auth` command.  A call suspends at     *)
(*   context  the read lock, for the server's OAuth context                *)
(*   refresh  the token endpoint                                           *)
(*   storing  the put of the new token                                     *)
(*   lock     the write lock                                               *)
(*   post, init, note, repost                                              *)
(*            tools/call, and on a 404 initialize, its notification and    *)
(*            tools/call again, all with the write lock held               *)
(*                                                                         *)
(* A server that answers 401 or 404 has not executed the call.             *)
(***************************************************************************)
EXTENDS TokenStore, Sequences, SequencesExt, FiniteSets

CONSTANTS Configured,  \* plugins.mcp.servers, in order
          OAuth,       \* servers with auth = "oauth"
          Sessions,    \* servers that issue a session id
          Callers,     \* turns that call a tool
          Target(_),   \* the servers a turn may call
          Logins,      \* runs of the `auth` command
          LoginTarget(_),
          MaxTokens,   \* bound: refresh tokens issued
          MaxActors    \* bound: calls and logins in a behaviour

Nobody == "nobody"

\* Server names are distinct: they are the keys of clients, contexts and tokens.
ASSUME McpAssumption ==
  /\ Servers # {} /\ OAuth \subseteq Servers /\ Sessions \subseteq Servers
  /\ Configured \in Seq(Servers)
  /\ \A i, j \in DOMAIN Configured : Configured[i] = Configured[j] => i = j
  /\ Writers = Callers \cup Logins /\ Callers \cap Logins = {} /\ Nobody \notin Writers
  /\ \A c \in Callers : Target(c) \subseteq Servers
  /\ \A l \in Logins : LoginTarget(l) \in Servers
  /\ {MaxTokens, MaxActors} \subseteq Nat

VARIABLES boot,      \* warm: where it is, and the server it is at
          listed,    \* servers in `clients` and `specs`
          session,   \* the clients whose session_id is Some
          holder,    \* the call that holds the write lock of `state`
          call,      \* the call of every turn
          login,     \* the step every login is at
          valid,     \* refresh tokens each authorization server accepts
          issued,    \* refresh tokens issued so far
          cut,       \* history: servers whose last re-initialization came to nothing
          mishap,    \* history: servers whose new token never came or was never saved
          reused     \* history: servers that revoked everything over a token used twice

callVars == <<call, holder>>
authVars == <<valid, issued, mishap, reused>>
sessionVars == <<session, cut>>
vars == <<storeVars, boot, listed, callVars, login, authVars, sessionVars>>

NoCall(c) == [at |-> "idle", server |-> CHOOSE s \in Servers : TRUE, token |-> 0, first |-> TRUE,
              executed |-> 0, posts |-> 0, refreshes |-> 0]

Init ==
  /\ \E known \in SUBSET OAuth :
       /\ file = [s \in Servers |-> IF s \in known THEN 1 ELSE 0]
       /\ valid = [s \in Servers |-> IF s \in known THEN {1} ELSE {}]
  /\ StoreInit
  /\ issued = 1 /\ mishap = {} /\ reused = {}
  /\ boot = [at |-> "next", done |-> 0]
  /\ listed = {}
  /\ session = {} /\ cut = {}
  /\ holder = Nobody
  /\ call = [c \in Callers |-> NoCall(c)]
  /\ login = [l \in Logins |-> "idle"]

NewSession(s) == session \cup ({s} \cap Sessions)
NoSession(s) == session \ {s}

\* A server that issues sessions serves no request without one.  Any server may forget
\* a session, and answer 404, at any time.
Serves(s) == s \in Sessions => s \in session

-----------------------------------------------------------------------------
(* warm and connect.                                                       *)

WarmStep == UNCHANGED <<storeVars, callVars, login, authVars, cut>>
Warming == Configured[boot.done + 1]
WarmGoto(at) == boot' = [boot EXCEPT !.at = at]
WarmSkip == boot' = [at |-> "next", done |-> boot.done + 1]

WarmNext ==
  /\ boot.at = "next"
  /\ IF boot.done = Len(Configured)
     THEN WarmGoto("listening")
     ELSE WarmGoto(IF Warming \in OAuth THEN "probe" ELSE "init")
  /\ UNCHANGED <<listed, session>>
  /\ WarmStep

\* probe_and_discover; then the token as it is stored, however old.
WarmDiscovers ==
  /\ boot.at = "probe"
  /\ IF Get(Warming) = 0 THEN WarmSkip ELSE WarmGoto("init")
  /\ UNCHANGED <<listed, session>>
  /\ WarmStep

\* initialize begins without a session.  The answer to its notification is ignored, but
\* a 404 there takes the new session away again.
WarmInitializes ==
  /\ boot.at \in {"init", "reinit"}
  /\ session' \in {NewSession(Warming), NoSession(Warming)}
  /\ WarmGoto(IF boot.at = "init" THEN "list" ELSE "relist")
  /\ UNCHANGED listed
  /\ WarmStep

WarmExpired ==
  /\ boot.at = "list"
  /\ session' = NoSession(Warming)
  /\ WarmGoto("reinit")
  /\ UNCHANGED listed
  /\ WarmStep

WarmLists ==
  /\ boot.at \in {"list", "relist"}
  /\ Serves(Warming)
  /\ listed' = listed \cup {Warming}
  /\ WarmSkip
  /\ UNCHANGED session
  /\ WarmStep

\* Every failure skips the server: it has no client, and no tools, until a restart.
WarmFails ==
  /\ boot.at \in {"probe", "init", "list", "reinit", "relist"}
  /\ WarmSkip
  /\ UNCHANGED <<listed, session>>
  /\ WarmStep

\* An error whose body never ends, or notifications that never end.
WarmStalls ==
  /\ boot.at \in {"init", "list", "reinit", "relist"}
  /\ WarmGoto("stalled")
  /\ UNCHANGED <<listed, session>>
  /\ WarmStep

Warm == WarmNext \/ WarmDiscovers \/ WarmInitializes \/ WarmExpired \/ WarmLists \/ WarmFails

-----------------------------------------------------------------------------
(* A call, up to the request.                                              *)

ServerOf(c) == call[c].server
At(c, place) == call[c].at = place
Goto(c, place) == call' = [call EXCEPT ![c].at = place]
Ended(c) == [NoCall(c) EXCEPT !.at = "done", !.executed = call[c].executed]
Return(c) == call' = [call EXCEPT ![c] = Ended(c)]

Begun == {c \in Callers : ~At(c, "idle")} \cup {l \in Logins : login[l] # "idle"}
MayBegin == Cardinality(Begun) < MaxActors

CallStep == UNCHANGED <<boot, listed, login>>

\* dispatch resolves the tool by a try_read: a busy lock looks like no tools at all.
Unknown(c, s) ==
  /\ boot.at = "listening" /\ At(c, "idle") /\ MayBegin
  /\ s \in listed => holder # Nobody
  /\ Return(c)
  /\ UNCHANGED <<storeVars, holder, authVars, sessionVars>>
  /\ CallStep

\* bearer_for: a fixed key, a token that is still good, or one that needs a refresh.
Dispatch(c, s) ==
  /\ boot.at = "listening" /\ At(c, "idle") /\ MayBegin
  /\ s \in listed /\ holder = Nobody
  /\ \E next \in IF s \notin OAuth THEN {"lock"}
                  ELSE IF Get(s) = 0 THEN {"done"} ELSE {"lock", "context"} :
       call' = [call EXCEPT ![c].at = next, ![c].server = s,
                            ![c].token = IF next = "context" THEN Get(s) ELSE 0]
  /\ UNCHANGED <<storeVars, holder, authVars, sessionVars>>
  /\ CallStep

ReadContext(c) ==
  /\ At(c, "context")
  /\ holder = Nobody
  /\ IF call[c].token = NoRefresh
     THEN Return(c)
     ELSE call' = [call EXCEPT ![c].at = "refresh", ![c].refreshes = @ + 1]
  /\ UNCHANGED <<storeVars, holder, authVars, sessionVars>>
  /\ CallStep

-----------------------------------------------------------------------------
(* The refresh.  The authorization server rotates refresh tokens.          *)

Rotate(s, token) ==
  /\ issued < MaxTokens /\ issued' = issued + 1
  /\ valid' = [valid EXCEPT ![s] = (@ \ {token}) \cup {issued + 1}]

Accepted(c) == At(c, "refresh") /\ call[c].token \in valid[ServerOf(c)]

\* The response's token is stored as it is.
Refreshed(c) ==
  /\ Accepted(c)
  /\ Rotate(ServerOf(c), call[c].token)
  /\ BeginPut(c, ServerOf(c), issued + 1)
  /\ Goto(c, "storing")
  /\ UNCHANGED <<holder, mishap, reused, sessionVars>>
  /\ CallStep

\* A response without a refresh token means that the old one stays good; it is dropped.
RefreshedWithoutToken(c) ==
  /\ Accepted(c)
  /\ BeginPut(c, ServerOf(c), NoRefresh)
  /\ Goto(c, "storing")
  /\ UNCHANGED <<holder, authVars, sessionVars>>
  /\ CallStep

\* A token used before is refused, and may cost its successors.
RefreshRefused(c) ==
  /\ At(c, "refresh")
  /\ call[c].token \notin valid[ServerOf(c)]
  /\ \/ UNCHANGED <<valid, reused>>
     \/ valid' = [valid EXCEPT ![ServerOf(c)] = {}] /\ reused' = reused \cup {ServerOf(c)}
  /\ Return(c)
  /\ UNCHANGED <<storeVars, holder, issued, mishap, sessionVars>>
  /\ CallStep

\* No answer within ten seconds, or the turn is aborted: the token may have been rotated.
RefreshLost(c) ==
  /\ At(c, "refresh")
  /\ \/ UNCHANGED authVars
     \/ /\ Accepted(c)
        /\ Rotate(ServerOf(c), call[c].token)
        /\ mishap' = mishap \cup {ServerOf(c)} /\ UNCHANGED reused
  /\ Return(c)
  /\ UNCHANGED <<storeVars, holder, sessionVars>>
  /\ CallStep

Stored(c) ==
  /\ At(c, "storing")
  /\ put[c].at \in {"ok", "failed"}
  /\ IF put[c].at = "ok"
     THEN call' = [call EXCEPT ![c].at = "lock", ![c].token = 0] /\ UNCHANGED mishap
     ELSE Return(c) /\ mishap' = mishap \cup {ServerOf(c)}
  /\ EndPut(c)
  /\ UNCHANGED <<holder, valid, issued, reused, sessionVars>>
  /\ CallStep

-----------------------------------------------------------------------------
(* The request, under the write lock.                                      *)

RpcStep == UNCHANGED <<storeVars, authVars>> /\ CallStep

Lock(c) ==
  /\ At(c, "lock")
  /\ holder = Nobody
  /\ holder' = c
  /\ call' = [call EXCEPT ![c].at = "post", ![c].posts = @ + 1]
  /\ UNCHANGED <<session, cut>>
  /\ RpcStep

Posting(c) == call[c].at \in {"post", "repost"}

Executes(c) == call' = [call EXCEPT ![c] = [Ended(c) EXCEPT !.executed = @ + 1]]

Result(c) ==
  /\ Posting(c)
  /\ Serves(ServerOf(c))
  /\ Executes(c)
  /\ holder' = Nobody
  /\ UNCHANGED <<session, cut>>
  /\ RpcStep

\* (Slip) A request without an answer is taken for an expired session.
RequestFailsRetried(c) ==
  /\ Posting(c)
  /\ \/ Goto(c, "init")
     \/ Serves(ServerOf(c)) /\ call' = [call EXCEPT ![c].at = "init", ![c].executed = @ + 1]
  /\ UNCHANGED <<holder, session, cut>>
  /\ RpcStep

\* No answer in time, an error status, a broken or unreadable answer, a JSON-RPC error.
RequestFails(c) ==
  /\ Posting(c)
  /\ \/ Return(c)
     \/ Serves(ServerOf(c)) /\ Executes(c)
  /\ holder' = Nobody
  /\ UNCHANGED <<session, cut>>
  /\ RpcStep

\* 401, also to an initialize: once per call, a refresh and the request again.
Unauthorized(c) ==
  /\ Posting(c) \/ At(c, "init")
  /\ IF call[c].first /\ ServerOf(c) \in OAuth /\ Get(ServerOf(c)) # 0
     THEN call' = [call EXCEPT ![c].at = "context", ![c].first = FALSE,
                               ![c].token = Get(ServerOf(c))]
     ELSE Return(c)
  /\ holder' = Nobody
  /\ cut' = IF At(c, "init") THEN cut \cup {ServerOf(c)} ELSE cut
  /\ UNCHANGED session
  /\ RpcStep

\* (Slip) A 404 is reported to the model, and the next call is to initialize.
ExpiredReported(c) ==
  /\ Posting(c)
  /\ session' = NoSession(ServerOf(c))
  /\ Return(c) /\ holder' = Nobody
  /\ UNCHANGED cut
  /\ RpcStep

\* 404: once per request, a new session and the request again.
Expired(c) ==
  /\ Posting(c)
  /\ session' = NoSession(ServerOf(c))
  /\ IF At(c, "post")
     THEN Goto(c, "init") /\ UNCHANGED <<holder, cut>>
     ELSE Return(c) /\ holder' = Nobody /\ cut' = cut \cup {ServerOf(c)}
  /\ RpcStep

Initialized(c) ==
  /\ At(c, "init")
  /\ session' = NewSession(ServerOf(c))
  /\ Goto(c, "note")
  /\ cut' = cut \ {ServerOf(c)}
  /\ UNCHANGED holder
  /\ RpcStep

\* The session id of an answer counts, also when the rest of it does not come or is an error.
InitializeFails(c) ==
  /\ At(c, "init")
  /\ session' \in {session, NewSession(ServerOf(c))}
  /\ Return(c) /\ holder' = Nobody
  /\ cut' = cut \cup {ServerOf(c)}
  /\ RpcStep

\* Its answer is ignored, but a 404 takes the new session away again.
Notified(c) ==
  /\ At(c, "note")
  /\ \/ UNCHANGED <<session, cut>>
     \/ session' = NoSession(ServerOf(c)) /\ cut' = cut \cup {ServerOf(c)}
  /\ call' = [call EXCEPT ![c].at = "repost", ![c].posts = @ + 1]
  /\ UNCHANGED holder
  /\ RpcStep

\* The call ends where it is: at TOOL_TIMEOUT, which runs while the lock is held, or
\* because its turn is aborted.
Stop(c) ==
  /\ Return(c)
  /\ holder' = IF holder = c THEN Nobody ELSE holder
  /\ session' \in IF At(c, "init") THEN {session, NewSession(ServerOf(c))} ELSE {session}
  /\ cut' = IF At(c, "init") THEN cut \cup {ServerOf(c)} ELSE cut
  /\ RpcStep

\* (Slip) Only the request itself is timed, not the new session before it.
TimesOutPosting(c) == holder = c /\ Posting(c) /\ Stop(c)

TimesOut(c) == holder = c /\ Stop(c)

Aborts(c) == call[c].at \in {"context", "lock"} /\ Stop(c)

-----------------------------------------------------------------------------
(* run_authorization_flow.                                                 *)

LoginStep == UNCHANGED <<boot, listed, callVars, sessionVars, mishap, reused>>
LoginGoto(l, at) == login' = [login EXCEPT ![l] = at]

LoginBegins(l) ==
  /\ login[l] = "idle" /\ MayBegin
  /\ LoginGoto(l, "discover")
  /\ UNCHANGED <<storeVars, valid, issued>>
  /\ LoginStep

\* The metadata, the loopback listener and the client id.
LoginAsks(l) ==
  /\ login[l] = "discover"
  /\ LoginGoto(l, "redirect")
  /\ UNCHANGED <<storeVars, valid, issued>>
  /\ LoginStep

\* The one redirect it accepts carries the state it sent, and a code.
LoginRedirected(l) ==
  /\ login[l] = "redirect"
  /\ LoginGoto(l, "exchange")
  /\ UNCHANGED <<storeVars, valid, issued>>
  /\ LoginStep

LoginExchanges(l) ==
  /\ login[l] = "exchange"
  /\ issued < MaxTokens /\ issued' = issued + 1
  /\ valid' = [valid EXCEPT ![LoginTarget(l)] = @ \cup {issued + 1}]
  /\ BeginPut(l, LoginTarget(l), issued + 1)
  /\ LoginGoto(l, "storing")
  /\ LoginStep

LoginStored(l) ==
  /\ login[l] = "storing"
  /\ put[l].at \in {"ok", "failed"}
  /\ LoginGoto(l, "done")
  /\ EndPut(l)
  /\ UNCHANGED <<valid, issued>>
  /\ LoginStep

\* Every wait has a limit, the one for the user too.
LoginFails(l) ==
  /\ login[l] \in {"discover", "redirect", "exchange"}
  /\ LoginGoto(l, "done")
  /\ UNCHANGED <<storeVars, valid, issued>>
  /\ LoginStep

\* The process is killed, maybe in the middle of put.
LoginKilled(l) ==
  /\ login[l] = "storing"
  /\ LoginGoto(l, "done")
  /\ EndPut(l)
  /\ UNCHANGED <<valid, issued>>
  /\ LoginStep

-----------------------------------------------------------------------------
Store(w) == StoreStep(w) /\ UNCHANGED <<boot, listed, callVars, login, authVars, sessionVars>>

Refresh(c) == Refreshed(c) \/ RefreshedWithoutToken(c) \/ RefreshRefused(c) \/ RefreshLost(c)

Rpc(c) ==
  \/ Result(c) \/ RequestFails(c) \/ Unauthorized(c) \/ Expired(c)
  \/ Initialized(c) \/ InitializeFails(c) \/ Notified(c)

Call(c) ==
  \/ \E s \in Target(c) : Unknown(c, s) \/ Dispatch(c, s)
  \/ ReadContext(c) \/ Refresh(c) \/ Stored(c)
  \/ Lock(c) \/ Rpc(c) \/ TimesOut(c) \/ Aborts(c)

Login(l) ==
  \/ LoginBegins(l) \/ LoginAsks(l) \/ LoginRedirected(l) \/ LoginExchanges(l)
  \/ LoginStored(l) \/ LoginFails(l) \/ LoginKilled(l)

Over ==
  /\ boot.at \in {"listening", "stalled"}
  /\ \A c \in Callers : call[c].at \in {"idle", "done"}
  /\ \A l \in Logins : login[l] \in {"idle", "done"}
  /\ UNCHANGED vars

Next ==
  \/ Warm \/ WarmStalls
  \/ \E c \in Callers : Call(c)
  \/ \E l \in Logins : Login(l)
  \/ \E w \in Writers : Store(w)
  \/ Over

Spec == Init /\ [][Next]_vars

(* Every request has a limit: 10 s for discovery and tokens, 15 s for the  *)
(* answer to a request, 60 s for all of a call under the lock, 300 s for   *)
(* the redirect.  The lock is given in the order it is asked for (SF).     *)
(* Nothing is assumed of the servers.                                      *)
Proceeds(c) == RefreshLost(c) \/ Store(c) \/ Stored(c) \/ TimesOut(c)

LoginProceeds(l) == LoginFails(l) \/ Store(l) \/ LoginStored(l)

Fairness ==
  /\ WF_vars(Warm)
  /\ \A c \in Callers : WF_vars(Proceeds(c)) /\ SF_vars(ReadContext(c) \/ Lock(c))
  /\ \A l \in Logins : WF_vars(LoginProceeds(l))

FairSpec == Spec /\ Fairness

-----------------------------------------------------------------------------
\* However a 401, a 404 and a refresh follow each other (plugin.rs:308-352,
\* client.rs:170-189), a call is executed at most once by a server that refuses before
\* it executes, sends at most four tools/call requests, and asks for at most two tokens.
OncePerCall ==
  \A c \in Callers : call[c].executed <= 1 /\ call[c].posts <= 4 /\ call[c].refreshes <= 2

\* What the store has for a server is a token its authorization server accepts, or one
\* that came without a refresh token (plugin.rs:131-141, oauth.rs:105-134): a rotation is
\* stored, a put for one server keeps the others' tokens, and a login that is killed in
\* the middle of its put, or fails, leaves the file whole.  The ways in which the code does
\* lose a token are the histories: two puts at once, a rotation lost with its response or
\* in a failed put, and a server that revokes over a token it was presented twice.
StoredTokenIsGood ==
  \A s \in stored :
    \/ overlapped \/ s \in mishap \cup reused
    \/ \E c \in Callers : At(c, "storing") /\ ServerOf(c) = s
    \/ file[s] \in valid[s] \cup {NoRefresh}

\* A client whose session expired has a new one before another call can use it
\* (client.rs:170-189, plugin.rs:308-327), unless its last handshake itself failed or was
\* cut off by the tool timeout, after which calls go without a session and are refused.
SessionIsRenewed ==
  \A s \in Sessions \cap listed :
    s \notin session => s \in cut \/ \E c \in Callers : holder = c /\ ServerOf(c) = s

\* Every call and every login ends, the wait for a lock that is held over the network
\* included (plugin.rs:280-356, oauth.rs:623-660): a call ends at the tool timeout, however
\* long the answer to its request or its new session takes.
CallsAndLoginsEnd ==
  /\ \A c \in Callers : call[c].at # "idle" ~> At(c, "done")
  /\ \A l \in Logins : login[l] # "idle" ~> login[l] = "done"

\* The server listens at last, whatever the configured MCP servers do: "Every network
\* wait is timeout-bounded" (client.rs:3), "one dead server never blocks boot"
\* (plugin.rs:138-139).
StartEnds == <>(boot.at = "listening")

=============================================================================
