----------------------------- MODULE ApiAccess -----------------------------
(***************************************************************************)
(* From the environment of the process to the service call a request       *)
(* reaches: Load of internal/config/config.go, run of                      *)
(* cmd/libvirt-rest-api/main.go as far as it starts the server, and the    *)
(* chain cors, routeRegistry, requireScope and the handlers' decoding of   *)
(* internal/api/server.go.                                                 *)
(*                                                                         *)
(* The chain keeps no state between requests, so that serving a request is *)
(* one step.  Strings are abstracted to what the code tells apart: a token *)
(* is a value, unset, or a value with white space in it; a listen address  *)
(* is a loopback or another IP address, a host name or invalid; an origin  *)
(* in CORS_ORIGINS is well formed, malformed or empty.                     *)
(***************************************************************************)
EXTENDS Naturals, Sequences

CONSTANTS
    Tokens,         \* token values without white space
    SpacedTokens,   \* token values with white space
    Unset,          \* an environment variable or a header that is not there
    Origins,        \* well formed origins
    Environments,   \* the environments the process may be started in
    Messages(_)     \* the requests clients send to a process, by its environment

Variables == {"API_BEARER_TOKEN", "API_READ_TOKEN", "API_CONTROL_TOKEN",
              "API_ADMIN_TOKEN"}
Flags == {"unset", "true", "false", "junk"}
Scopes == 0..3      \* scopePublic, scopeRead, scopeControl, scopeAdmin
Methods == {"GET", "HEAD", "POST", "PATCH", "DELETE", "OPTIONS"}
Inputs == {"absent", "valid", "malformed", "trailing", "invalid"}

ASSUME AccessAssumption ==
    /\ Tokens \cap SpacedTokens = {}
    /\ Unset \notin Tokens \cup SpacedTokens \cup Origins
    /\ \A e \in Environments :
        /\ e.token \in [Variables -> Tokens \cup SpacedTokens \cup {Unset}]
        /\ e.listen \in {"unset", "loopback", "address", "hostname", "bad"}
        /\ e.insecure \in Flags /\ e.insecureLoopback \in Flags
        /\ e.origins \in Seq(Origins \cup {"", "malformed"})
    /\ \A e \in Environments : \A q \in Messages(e) :
        /\ q.method \in Methods
        /\ q.origin \in Origins \cup {Unset}
        /\ q.scheme \in {"", "Bearer", "other"}
        /\ q.token \in Tokens \cup {Unset}
        /\ q.input \in Inputs

VARIABLES
    phase,      \* "starting", "serving" or "exited"
    env,        \* the environment variables
    last,       \* the request being served, Unset between two requests
    answer      \* how it is answered

accessVars == <<phase, env, last, answer>>

AccessInit ==
    /\ phase = "starting"
    /\ env \in Environments
    /\ last = Unset
    /\ answer = Unset

-----------------------------------------------------------------------------
(***************************************************************************)
(* config.Load.                                                            *)
(***************************************************************************)

(* Mutant of TokensValid: one value may serve two variables.               *)
TokensMayRepeat(e) == \A v \in Variables : e.token[v] \notin SpacedTokens

(* validateTokens: no white space, no value twice.                         *)
TokensValid(e) ==
    /\ \A v \in Variables : e.token[v] \notin SpacedTokens
    /\ \A v, w \in Variables :
        (v # w /\ e.token[v] # Unset) => e.token[v] # e.token[w]

(* parseOrigins: no empty part and no malformed origin; the allowed        *)
(* origins are the parts.  A blank CORS_ORIGINS has no parts.              *)
OriginsValid(e) == \A i \in 1..Len(e.origins) : e.origins[i] \in Origins
AllowedOrigins(e) == {e.origins[i] : i \in 1..Len(e.origins)}

(* boolEnv                                                                 *)
FlagValid(f) == f # "junk"
FlagSet(f) == f = "true"

(* valueOrDefault, validateListenAddr and isLoopbackListenAddr; the        *)
(* default address is 127.0.0.1:8080, and a host name is never loopback.   *)
ListenValid(e) == e.listen # "bad"
Loopback(e) == e.listen \in {"unset", "loopback"}

HasCredentials(e) == \E v \in Variables : e.token[v] # Unset

(* Mutant of Permitted: the loopback override permits any listener.        *)
PermittedAnywhere(e) ==
    HasCredentials(e) \/ FlagSet(e.insecure) \/ FlagSet(e.insecureLoopback)

(* Credentials, or one of the two explicit overrides.                      *)
Permitted(e) ==
    \/ HasCredentials(e)
    \/ FlagSet(e.insecure)
    \/ Loopback(e) /\ FlagSet(e.insecureLoopback)

Loads(e) ==
    /\ OriginsValid(e)
    /\ TokensValid(e)
    /\ ListenValid(e)
    /\ FlagValid(e.insecure) /\ FlagValid(e.insecureLoopback)
    /\ Permitted(e)

-----------------------------------------------------------------------------
(***************************************************************************)
(* The routes of New: a path, a method, the scope it requires and the call *)
(* its handler makes.  A path stands for its pattern; the calls that only  *)
(* read are named "read".                                                  *)
(***************************************************************************)

Route(p, m, s, c) == [path |-> p, method |-> m, scope |-> s, call |-> c]

PublicPaths == {"healthz", "readyz"}
ReadPaths == {"host", "host/stats", "vms", "events", "vm", "vm/stats", "interfaces",
              "autostart", "snapshots", "xml", "viewer", "screenshot"}

ActionRoutes ==
    {Route("start", "POST", 2, "Start"), Route("shutdown", "POST", 2, "Shutdown"),
     Route("reboot", "POST", 2, "Reboot"), Route("pause", "POST", 2, "Pause"),
     Route("resume", "POST", 2, "Resume"), Route("reset", "POST", 3, "Reset"),
     Route("stop", "POST", 3, "Stop")}

Routes ==
    {Route(p, "GET", 0, "read") : p \in PublicPaths}
    \cup {Route(p, "GET", 1, "read") : p \in ReadPaths}
    \cup ActionRoutes
    \cup {Route("autostart", "PATCH", 3, "SetAutostart"),
          Route("snapshots", "POST", 3, "CreateSnapshot"),
          Route("revert", "POST", 3, "RevertSnapshot"),
          Route("snapshot", "DELETE", 3, "DeleteSnapshot")}

Registered(q) == \E x \in Routes : x.path = q.path

(* routeRegistry.handle: HEAD is served by the handler of GET.             *)
Matching(q) ==
    {x \in Routes : /\ x.path = q.path
                    /\ x.method = IF q.method = "HEAD" THEN "GET" ELSE q.method}

-----------------------------------------------------------------------------
(***************************************************************************)
(* The chain.                                                              *)
(***************************************************************************)

(* cors                                                                    *)
Forbidden(e, q) == q.origin # Unset /\ q.origin \notin AllowedOrigins(e)
Preflight(q) == q.origin # Unset /\ q.method = "OPTIONS"

(* scopeForToken, over the variables that hold the token in the order of   *)
(* its candidates; it answers with the first.                              *)
Candidates == <<"API_READ_TOKEN", "API_CONTROL_TOKEN", "API_BEARER_TOKEN",
                "API_ADMIN_TOKEN">>
GrantOf(v) == CASE v = "API_READ_TOKEN" -> 1
                [] v = "API_CONTROL_TOKEN" -> 2
                [] OTHER -> 3
Hits(e, t) == {i \in 1..4 : t # Unset /\ e.token[Candidates[i]] = t}
First(S) == CHOOSE i \in S : \A j \in S : i <= j

(* requireScope: the answer before the handler, or "next".                 *)
RequireScope(e, q, required) ==
    IF required = 0 \/ ~HasCredentials(e) THEN "next"
    ELSE IF q.scheme # "Bearer" \/ q.token = Unset \/ Hits(e, q.token) = {}
         THEN "unauthorized"
         ELSE IF GrantOf(Candidates[First(Hits(e, q.token))]) < required
              THEN "insufficient_scope"
              ELSE "next"

(* The inputs the handlers refuse before they call the service.  Only      *)
(* decodeJSON, which the snapshot handlers use, refuses a second JSON      *)
(* value; listVMs, vmInterfaces and deleteVMSnapshot read a query, no      *)
(* body.                                                                   *)
DecodePowerModeRefuses == {"malformed", "invalid"}
SetVMAutostartRefuses == {"absent", "malformed", "invalid"}
CreateVMSnapshotRefuses == {"absent", "malformed", "trailing", "invalid"}
RevertVMSnapshotRefuses == {"malformed", "trailing", "invalid"}
DeleteVMSnapshotRefuses == {"invalid"}
ParseFilterRefuses == {"invalid"}

Refused(x) ==
    CASE x.call = "CreateSnapshot" -> CreateVMSnapshotRefuses
      [] x.call = "RevertSnapshot" -> RevertVMSnapshotRefuses
      [] x.call = "DeleteSnapshot" -> DeleteVMSnapshotRefuses
      [] x.call = "SetAutostart" -> SetVMAutostartRefuses
      [] x.call \in {"Shutdown", "Reboot"} -> DecodePowerModeRefuses
      [] x.call = "read" /\ x.path \in {"vms", "interfaces"} -> ParseFilterRefuses
      [] OTHER -> {}

(* The answer to a request: an error code, or the call its handler makes.  *)
Handle(e, q, x) ==
    IF RequireScope(e, q, x.scope) # "next" THEN RequireScope(e, q, x.scope)
    ELSE IF q.input \in Refused(x) THEN "invalid_request" ELSE x.call

Respond(e, q) ==
    IF Forbidden(e, q) THEN "origin_forbidden"
    ELSE IF Preflight(q) THEN "no_content"
    ELSE IF ~Registered(q) THEN "not_found"
    ELSE IF Matching(q) = {} THEN "method_not_allowed"
    ELSE Handle(e, q, CHOOSE x \in Matching(q) : TRUE)

-----------------------------------------------------------------------------
(***************************************************************************)
(* The process.                                                            *)
(***************************************************************************)

(* run: Load, Connect and ListenAndServe; each may end the process.        *)
StartServing ==
    /\ phase = "starting"
    /\ Loads(env)
    /\ phase' = "serving"
    /\ UNCHANGED <<env, last, answer>>

Exit ==
    /\ phase = "starting"
    /\ phase' = "exited"
    /\ UNCHANGED <<env, last, answer>>

Serve ==
    /\ phase = "serving" /\ last = Unset
    /\ \E q \in Messages(env) : last' = q /\ answer' = Respond(env, q)
    /\ UNCHANGED <<phase, env>>

Served ==
    /\ last # Unset
    /\ last' = Unset /\ answer' = Unset
    /\ UNCHANGED <<phase, env>>

AccessNext == StartServing \/ Exit \/ Serve \/ Served

AccessSpec == AccessInit /\ [][AccessNext]_accessVars

-----------------------------------------------------------------------------
(***************************************************************************)
(* Properties.                                                             *)
(***************************************************************************)

OrdinaryCalls == {"Start", "Shutdown", "Reboot", "Pause", "Resume"}
AdminCalls == {"Reset", "Stop", "SetAutostart", "CreateSnapshot", "RevertSnapshot",
               "DeleteSnapshot"}
Calls == {"read"} \cup OrdinaryCalls \cup AdminCalls

(* The variables whose value the request presents as its bearer token.     *)
Presented == {v \in Variables : /\ last.scheme = "Bearer"
                                /\ last.token # Unset
                                /\ env.token[v] = last.token}

(* A request that presents no configured token changes nothing and reads   *)
(* nothing of the hypervisor beyond its health, unless the operator set    *)
(* ALLOW_INSECURE_LISTEN, or ALLOW_INSECURE_LOOPBACK_LISTEN and a loopback *)
(* listener, and configured no token at all.                               *)
OpenOnlyByOverride ==
    (last # Unset /\ answer \in Calls /\ last.path \notin PublicPaths /\ Presented = {})
        => /\ \A v \in Variables : env.token[v] = Unset
           /\ \/ env.insecure = "true"
              \/ env.insecureLoopback = "true" /\ env.listen \in {"unset", "loopback"}

(* The requests for "ordinary VM lifecycle controls" and for "destructive  *)
(* administration", as the README calls them, by their method and path.    *)
AsksControl(q) ==
    q.method = "POST" /\ q.path \in {"start", "shutdown", "reboot", "pause", "resume"}
AsksAdmin(q) ==
    \/ q.method = "POST" /\ q.path \in {"stop", "reset", "snapshots", "revert"}
    \/ q.method = "PATCH" /\ q.path = "autostart"
    \/ q.method = "DELETE" /\ q.path = "snapshot"

Grants(v, q) ==
    CASE v = "API_READ_TOKEN"    -> ~AsksControl(q) /\ ~AsksAdmin(q)
      [] v = "API_CONTROL_TOKEN" -> ~AsksAdmin(q)
      [] OTHER                   -> TRUE

(* The README: "Scoped credentials are hierarchical: admin includes        *)
(* control and read, while control includes read".  A request that         *)
(* presents a configured token, and whose origin is allowed, is refused by *)
(* scope exactly when the variable the operator put the token in does not  *)
(* grant its method and path: every token reads everything, GET of         *)
(* autostart and of snapshots included, and no scoped token is shadowed by *)
(* another variable of the same value.                                     *)
HierarchyExact ==
    (last # Unset /\ answer # "origin_forbidden") =>
        \A v \in Presented :
            /\ answer # "unauthorized"
            /\ answer = "insufficient_scope" <=> ~Grants(v, last)

(* The comment on Config: "An empty APIToken is accepted only when an      *)
(* explicit insecure-listen override is enabled."                          *)
EmptyTokenOnlyByOverride ==
    (phase = "serving" /\ env.token["API_BEARER_TOKEN"] = Unset) =>
        env.insecure = "true" \/ env.insecureLoopback = "true"
=============================================================================
