----------------------------- MODULE GatewayEdge -----------------------------
(***************************************************************************)
(* internal/gateway/server.go: what stands between a bearer token and the  *)
(* MCP server.  Two tables are kept in memory, each behind a mutex of its  *)
(* own: the request counts of the identity limiter, and the binding of     *)
(* every MCP session to the token that created it.  They share nothing, so *)
(* each has a next-state relation of its own; the second one sees the      *)
(* requests the first one let through.                                     *)
(*                                                                         *)
(* The MCP SDK is external: it keeps the sessions (sdk), answers with the  *)
(* session's ID in a header, ends a session on DELETE and after SessionTTL *)
(* without a request.                                                      *)
(*                                                                         *)
(* Bounds: the clock (MaxEdgeTime for the limiter, MaxBinderTime for the   *)
(* binder) and the sessions ever created.                                  *)
(***************************************************************************)
EXTENDS Integers, FiniteSets, Sequences

CONSTANTS
    Bearer,          \* IDs of the tokens that authenticate
    McpSession, HttpRequest,
    RateLimit,       \* 120 in a minute
    RateWindow,      \* a minute
    MaxWindows,      \* 1024
    MaxBound,        \* maxBoundMCPSessions
    MaxConcurrent, SessionTTL, MaxEdgeTime, MaxBinderTime, NoSession

ASSUME EdgeAssumption ==
    /\ {RateLimit, RateWindow, MaxWindows, MaxBound, MaxConcurrent, SessionTTL} \subseteq Nat \ {0}
    /\ MaxEdgeTime \in Nat /\ MaxBinderTime \in 0..MaxEdgeTime
    /\ NoSession \notin McpSession

VARIABLES
    windows,     \* the limiter: token -> [started, count]
    admitted,    \* history: token -> the times of the requests let through
    bindings,    \* the binder: session -> [token, seen]
    sdk,         \* the SDK's sessions: session -> [token, last]
    opened,      \* sessions ever created
    serving,     \* request -> [at, token, session, method]
    unbound,     \* history: session -> why it has lost its binding, or never got one
    edgeNow

limiterVars == <<windows, admitted>>
binderVars == <<bindings, sdk, opened, serving, unbound>>
edgeVars == <<limiterVars, binderVars, edgeNow>>

Idle == [at |-> "idle", token |-> NoSession, session |-> NoSession, method |-> "none"]

EdgeInit ==
    /\ windows = << >> /\ admitted = [b \in Bearer |-> << >>]
    /\ bindings = << >> /\ sdk = << >> /\ opened = {} /\ unbound = << >>
    /\ serving = [r \in HttpRequest |-> Idle]
    /\ edgeNow = 0

EdgeTick ==
    /\ edgeNow < MaxEdgeTime /\ edgeNow' = edgeNow + 1
    /\ UNCHANGED <<limiterVars, binderVars>>

Put(f, x, value) == [y \in DOMAIN f \union {x} |-> IF y = x THEN value ELSE f[y]]
Drop(f, X) == [y \in DOMAIN f \ X |-> f[y]]

(***************************************************************************)
(* The identity limiter.                                                   *)
(***************************************************************************)
CurrentWindow(b) ==
    IF b \in DOMAIN windows /\ edgeNow - windows[b].started < RateWindow
    THEN windows[b] ELSE [started |-> edgeNow, count |-> 0]

Pruned(w) ==
    IF Cardinality(DOMAIN w) > MaxWindows
    THEN Drop(w, {b \in DOMAIN w : edgeNow - w[b].started >= 2 * RateWindow})
    ELSE w

Allow(b) ==
    LET window == CurrentWindow(b) IN
    /\ IF window.count >= RateLimit
       THEN windows' = Put(windows, b, window) /\ UNCHANGED admitted
       ELSE /\ windows' = Pruned(Put(windows, b, [window EXCEPT !.count = @ + 1]))
            /\ admitted' = [admitted EXCEPT ![b] = Append(@, edgeNow)]
    /\ UNCHANGED <<binderVars, edgeNow>>

LimiterNext == EdgeTick \/ \E b \in Bearer : Allow(b)

(***************************************************************************)
(* The session binder and the handler around it.                           *)
(***************************************************************************)
Expired == {s \in DOMAIN bindings : edgeNow - bindings[s].seen >= SessionTTL}
LiveBindings == Drop(bindings, Expired)
Forgotten(sessions, why) ==
    [s \in DOMAIN unbound \union sessions |-> IF s \in sessions THEN why ELSE unbound[s]]

Full == Cardinality(DOMAIN LiveBindings) >= MaxBound

Goes(r, at) == serving' = [serving EXCEPT ![r].at = at]

\* authenticateMCP with a session ID: Authorize prunes, compares and refreshes
AuthorizeAnyToken(r, b, s, method) == \* Fault: the token is not compared
    /\ serving[r] = Idle
    /\ IF s \in DOMAIN LiveBindings
       THEN /\ bindings' = [LiveBindings EXCEPT ![s].seen = edgeNow]
            /\ serving' = [serving EXCEPT ![r] = [at |-> "authorized", token |-> b,
                                                 session |-> s, method |-> method]]
       ELSE bindings' = LiveBindings /\ UNCHANGED serving
    /\ unbound' = Forgotten(Expired, "idle")
    /\ UNCHANGED <<sdk, opened, limiterVars, edgeNow>>

Authorize(r, b, s, method) ==
    /\ serving[r] = Idle
    /\ IF s \in DOMAIN LiveBindings /\ LiveBindings[s].token = b
       THEN /\ bindings' = [LiveBindings EXCEPT ![s].seen = edgeNow]
            /\ serving' = [serving EXCEPT ![r] = [at |-> "authorized", token |-> b,
                                                 session |-> s, method |-> method]]
       ELSE bindings' = LiveBindings /\ UNCHANGED serving
    /\ unbound' = Forgotten(Expired, "idle")
    /\ UNCHANGED <<sdk, opened, limiterVars, edgeNow>>

\* and without one
CanCreate(r, b) ==
    /\ serving[r] = Idle
    /\ bindings' = LiveBindings
    /\ serving' = IF Full THEN serving
                  ELSE [serving EXCEPT ![r] = [at |-> "authorized", token |-> b,
                                              session |-> NoSession, method |-> "POST"]]
    /\ unbound' = Forgotten(Expired, "idle")
    /\ UNCHANGED <<sdk, opened, limiterVars, edgeNow>>

Inside == {r \in HttpRequest : serving[r].at \in {"inside", "answered"}}

\* A slot, or 429: the inner handler is not called, the code after it is.
limitConcurrent(r) ==
    /\ serving[r].at = "authorized"
    /\ Goes(r, IF Cardinality(Inside) < MaxConcurrent THEN "inside" ELSE "refused")
    /\ UNCHANGED <<bindings, sdk, opened, unbound, limiterVars, edgeNow>>

\* The SDK creates a session for a request that names none ...
ServeNew(r) ==
    /\ serving[r].at = "inside" /\ serving[r].session = NoSession
    /\ \E s \in McpSession \ opened :
        /\ opened' = opened \union {s}
        /\ sdk' = Put(sdk, s, [token |-> serving[r].token, last |-> edgeNow])
        /\ serving' = [serving EXCEPT ![r].session = s, ![r].at = "answered"]
    /\ UNCHANGED <<bindings, unbound, limiterVars, edgeNow>>

\* ... and carries out one that does, unless the session has gone meanwhile.
Serve(r) ==
    /\ serving[r].at = "inside" /\ serving[r].session # NoSession
    /\ LET s == serving[r].session IN
       IF s \notin DOMAIN sdk THEN Goes(r, "left") /\ UNCHANGED sdk
       ELSE IF serving[r].method = "DELETE" THEN Goes(r, "left") /\ sdk' = Drop(sdk, {s})
       ELSE Goes(r, "answered") /\ sdk' = [sdk EXCEPT ![s].last = edgeNow]
    /\ UNCHANGED <<bindings, opened, unbound, limiterVars, edgeNow>>

\* bindingWriter: the answer carries the session's ID
Bind(r) ==
    /\ serving[r].at = "answered"
    /\ LET s == serving[r].session
           other == s \in DOMAIN LiveBindings /\ LiveBindings[s].token # serving[r].token
       IN /\ bindings' = IF other \/ Full THEN LiveBindings
                         ELSE Put(LiveBindings, s, [token |-> serving[r].token, seen |-> edgeNow])
          /\ unbound' = LET lost == Forgotten(Expired, "idle") IN
                        IF s \in DOMAIN bindings' THEN Drop(lost, {s}) ELSE Put(lost, s, "full")
    /\ Goes(r, "left")
    /\ UNCHANGED <<sdk, opened, limiterVars, edgeNow>>

DeletedBy(r) == IF serving[r].method = "DELETE" THEN {serving[r].session} ELSE {}

\* The end of authenticateMCP: the binding goes with a DELETE, also when the
\* concurrency limit has kept it from the SDK.
Leave(r) ==
    /\ serving[r].at \in {"left", "refused"}
    /\ bindings' = Drop(bindings, DeletedBy(r))
    /\ unbound' = IF serving[r].at = "refused" THEN Forgotten(DeletedBy(r), "refused")
                  ELSE unbound
    /\ serving' = [serving EXCEPT ![r] = Idle]
    /\ UNCHANGED <<sdk, opened, limiterVars, edgeNow>>

\* SessionTimeout of the SDK
IdleOut(s) ==
    /\ edgeNow - sdk[s].last >= SessionTTL
    /\ ~\E r \in Inside : serving[r].session = s
    /\ sdk' = Drop(sdk, {s})
    /\ UNCHANGED <<bindings, opened, serving, unbound, limiterVars, edgeNow>>

BinderNext ==
    \/ edgeNow < MaxBinderTime /\ EdgeTick
    \/ \E r \in HttpRequest, b \in Bearer :
        \/ CanCreate(r, b)
        \/ \E s \in opened, method \in {"POST", "DELETE"} : Authorize(r, b, s, method)
    \/ \E r \in HttpRequest : limitConcurrent(r) \/ ServeNew(r) \/ Serve(r) \/ Bind(r) \/ Leave(r)
    \/ \E s \in DOMAIN sdk : IdleOut(s)

\* The limiter and the binder together.
EdgeSpec == EdgeInit /\ [][LimiterNext \/ BinderNext]_edgeVars

-----------------------------------------------------------------------------

\* Every variable of the gateway's edge has its type, and the table of
\* bindings never grows past its limit.
EdgeTypeOK ==
    /\ DOMAIN windows \subseteq Bearer
    /\ \A b \in DOMAIN windows : windows[b].count \in 0..RateLimit
    /\ DOMAIN bindings \subseteq opened /\ DOMAIN sdk \subseteq opened /\ opened \subseteq McpSession
    /\ Cardinality(DOMAIN bindings) <= MaxBound
    /\ Cardinality(Inside) <= MaxConcurrent
    /\ \A r \in HttpRequest :
        serving[r].at \in {"idle", "authorized", "inside", "answered", "refused", "left"}

\* A token gets no more than two limits' worth of requests through in any
\* stretch as long as a window (the one after them comes a window later than
\* the first): windows begin with a request, and pruning the table of windows
\* never gives a token a new one early.
RateBounded ==
    \A b \in Bearer : \A i \in 1..(Len(admitted[b]) - 2 * RateLimit) :
        admitted[b][i + 2 * RateLimit] >= admitted[b][i] + RateWindow

\* Nothing is carried out in a session for another token than the one that
\* created it, through expiry, deletion, and an answer that binds the session
\* again after its deletion.
SessionIsolation ==
    \A r \in Inside : serving[r].session \in DOMAIN sdk =>
        sdk[serving[r].session].token = serving[r].token

\* A session of the SDK that no token can reach any more got there in one of
\* three ways: the table was full when it was created, its DELETE met the
\* concurrency limit, or its binding expired.
SessionsReachable ==
    \A s \in DOMAIN sdk \ DOMAIN bindings :
        \/ \E r \in HttpRequest : serving[r].at = "answered" /\ serving[r].session = s
        \/ s \in DOMAIN unbound

\* The two tables of the server keep what they are for, at their limits and
\* through expiry and deletion: the rate of a token and the owner of a session.
EdgeSafe == RateBounded /\ SessionIsolation /\ SessionsReachable

=============================================================================
