-------------------------- MODULE ApiAccessProofs --------------------------
(***************************************************************************)
(* The access rules, for every set of tokens, origins and environments and *)
(* for every request.                                                      *)
(***************************************************************************)
EXTENDS ApiAccess, TLAPS

(* A process that serves has loaded its environment, and the request being *)
(* served is answered by the chain.                                        *)
AccessIInv ==
    /\ env \in Environments
    /\ phase = "serving" => Loads(env)
    /\ last # Unset => /\ phase = "serving"
                       /\ last \in Messages(env)
                       /\ answer = Respond(env, last)

(* The chain keeps no state: what holds of a request holds of every one.   *)
THEOREM AccessInvariant == AccessSpec => []AccessIInv
<1>1. AccessInit => AccessIInv BY DEF AccessInit, AccessIInv
<1>2. AccessIInv /\ [AccessNext]_accessVars => AccessIInv'
  <2> SUFFICES ASSUME AccessIInv, [AccessNext]_accessVars PROVE AccessIInv'
    OBVIOUS
  <2> USE DEF AccessIInv
  <2>1. CASE StartServing BY <2>1 DEF StartServing
  <2>2. CASE Exit BY <2>2 DEF Exit
  <2>3. CASE Serve BY <2>3 DEF Serve
  <2>4. CASE Served BY <2>4 DEF Served
  <2>5. CASE UNCHANGED accessVars BY <2>5 DEF accessVars
  <2> QED BY <2>1, <2>2, <2>3, <2>4, <2>5 DEF AccessNext
<1> QED BY <1>1, <1>2, PTL DEF AccessSpec

-----------------------------------------------------------------------------
(***************************************************************************)
(* The route table, and what follows from an answer.                       *)
(***************************************************************************)

(* Each route of New demands the scope its method and path deserve.        *)
LEMMA RouteScopes ==
    ASSUME NEW x \in Routes
    PROVE  /\ x.scope \in Scopes /\ x.call \in Calls
           /\ x.scope = 0 => x.path \in PublicPaths
           /\ x.method # "HEAD"
           /\ x.scope = 2 <=> AsksControl(x)
           /\ x.scope = 3 <=> AsksAdmin(x)
<1> USE DEF Route, Scopes, Calls, OrdinaryCalls, AdminCalls, AsksControl, AsksAdmin
<1>1. CASE x \in {Route(p, "GET", 0, "read") : p \in PublicPaths}
  BY <1>1
<1>2. CASE x \in {Route(p, "GET", 1, "read") : p \in ReadPaths}
  BY <1>2
<1>3. CASE x \in ActionRoutes
  BY <1>3 DEF ActionRoutes
<1>4. CASE x \in {Route("autostart", "PATCH", 3, "SetAutostart"),
                  Route("snapshots", "POST", 3, "CreateSnapshot"),
                  Route("revert", "POST", 3, "RevertSnapshot"),
                  Route("snapshot", "DELETE", 3, "DeleteSnapshot")}
  BY <1>4
<1> QED BY <1>1, <1>2, <1>3, <1>4 DEF Routes

(* What is reserved has a route.                                           *)
LEMMA ReservedHaveRoutes ==
    ASSUME NEW q, AsksControl(q) \/ AsksAdmin(q)
    PROVE  Matching(q) # {} /\ q.method # "OPTIONS"
<1>1. q.method \in {"POST", "PATCH", "DELETE"} BY DEF AsksControl, AsksAdmin
<1>2. \E x \in Routes : x.path = q.path /\ x.method = q.method
  <2>1. /\ ActionRoutes \subseteq Routes
        /\ Route("autostart", "PATCH", 3, "SetAutostart") \in Routes
        /\ Route("snapshots", "POST", 3, "CreateSnapshot") \in Routes
        /\ Route("revert", "POST", 3, "RevertSnapshot") \in Routes
        /\ Route("snapshot", "DELETE", 3, "DeleteSnapshot") \in Routes
    BY DEF Routes
  <2>2. /\ Route("start", "POST", 2, "Start") \in ActionRoutes
        /\ Route("shutdown", "POST", 2, "Shutdown") \in ActionRoutes
        /\ Route("reboot", "POST", 2, "Reboot") \in ActionRoutes
        /\ Route("pause", "POST", 2, "Pause") \in ActionRoutes
        /\ Route("resume", "POST", 2, "Resume") \in ActionRoutes
        /\ Route("reset", "POST", 3, "Reset") \in ActionRoutes
        /\ Route("stop", "POST", 3, "Stop") \in ActionRoutes
    BY DEF ActionRoutes
  <2>3. \A path, m, n, c : /\ Route(path, m, n, c).path = path
                           /\ Route(path, m, n, c).method = m
    BY DEF Route
  <2>4. CASE AsksControl(q) BY <2>1, <2>2, <2>3, <2>4 DEF AsksControl
  <2>5. CASE AsksAdmin(q) BY <2>1, <2>2, <2>3, <2>5 DEF AsksAdmin
  <2> QED BY <2>4, <2>5
<1> QED BY <1>1, <1>2 DEF Matching

(* What cors and the registry answer themselves is no call and no refusal  *)
(* by scope; every other answer comes from the handler of one route of the *)
(* request's path that asks for what the request asks for.  A request for  *)
(* something reserved gets as far unless its origin is refused.            *)
LEMMA ChainAnswers ==
    ASSUME NEW e, NEW q
    PROVE  \/ /\ Respond(e, q) \in {"origin_forbidden", "no_content", "not_found",
                                    "method_not_allowed"}
              /\ Respond(e, q) # "origin_forbidden" => ~AsksControl(q) /\ ~AsksAdmin(q)
           \/ \E x \in Routes :
                /\ x.path = q.path /\ Respond(e, q) = Handle(e, q, x)
                /\ AsksControl(x) <=> AsksControl(q)
                /\ AsksAdmin(x) <=> AsksAdmin(q)
<1>1. CASE Matching(q) # {}
  <2>1. PICK x \in Matching(q) : x = (CHOOSE y \in Matching(q) : TRUE)
    BY <1>1
  <2>2. /\ x \in Routes /\ x.path = q.path
        /\ x.method = IF q.method = "HEAD" THEN "GET" ELSE q.method
    BY DEF Matching
  <2>3. /\ AsksControl(x) <=> AsksControl(q)
        /\ AsksAdmin(x) <=> AsksAdmin(q)
    BY <2>2 DEF AsksControl, AsksAdmin
  <2>4. Preflight(q) => ~AsksControl(q) /\ ~AsksAdmin(q)
    BY DEF Preflight, AsksControl, AsksAdmin
  <2>5. Registered(q) BY <2>2 DEF Registered
  <2> QED BY <1>1, <2>1, <2>2, <2>3, <2>4, <2>5 DEF Respond
<1>2. CASE Matching(q) = {} BY <1>2, ReservedHaveRoutes DEF Respond
<1> QED BY <1>1, <1>2

(* The handler of a route is reached only past requireScope.               *)
LEMMA HandlerAnswers ==
    ASSUME NEW e, NEW q, NEW x \in Routes
    PROVE  /\ Handle(e, q, x) \in Calls =>
                RequireScope(e, q, x.scope) = "next" /\ Handle(e, q, x) = x.call
           /\ Handle(e, q, x) \in {"unauthorized", "insufficient_scope"} =>
                RequireScope(e, q, x.scope) = Handle(e, q, x)
<1>1. RequireScope(e, q, x.scope) \in {"next", "unauthorized", "insufficient_scope"}
  BY DEF RequireScope
<1>2. x.call \in Calls BY RouteScopes
<1> QED BY <1>1, <1>2 DEF Handle, Calls, OrdinaryCalls, AdminCalls

-----------------------------------------------------------------------------

(* The candidates of scopeForToken are the four variables, each once.      *)
LEMMA CandidatesAre ==
    /\ Candidates[1] = "API_READ_TOKEN" /\ Candidates[2] = "API_CONTROL_TOKEN"
    /\ Candidates[3] = "API_BEARER_TOKEN" /\ Candidates[4] = "API_ADMIN_TOKEN"
    /\ \A i \in 1..4 : Candidates[i] \in Variables
    /\ \A v \in Variables : \E i \in 1..4 : Candidates[i] = v
<1>1. /\ Candidates[1] = "API_READ_TOKEN" /\ Candidates[2] = "API_CONTROL_TOKEN"
      /\ Candidates[3] = "API_BEARER_TOKEN" /\ Candidates[4] = "API_ADMIN_TOKEN"
  BY DEF Candidates
<1>2. \A i \in 1..4 : i = 1 \/ i = 2 \/ i = 3 \/ i = 4 OBVIOUS
<1> QED BY <1>1, <1>2 DEF Variables

(* A request that presents no token passes requireScope only where no      *)
(* scope is needed or no token is configured.                              *)
LEMMA PassWithoutToken ==
    ASSUME Presented = {}, NEW n, RequireScope(env, last, n) = "next"
    PROVE  n = 0 \/ ~HasCredentials(env)
<1> SUFFICES ASSUME n # 0, HasCredentials(env) PROVE FALSE
  OBVIOUS
<1>1. last.scheme = "Bearer" /\ last.token # Unset /\ Hits(env, last.token) # {}
  BY DEF RequireScope
<1>2. PICK i \in 1..4 : env.token[Candidates[i]] = last.token
  BY <1>1 DEF Hits
<1>3. Candidates[i] \in Presented BY <1>1, <1>2, CandidatesAre DEF Presented
<1> QED BY <1>3

(* With validateTokens passed, scopeForToken grants what the variable of   *)
(* the presented token grants, whatever its place among the candidates.    *)
LEMMA GrantIsExact ==
    ASSUME TokensValid(env), NEW v \in Presented, NEW n \in 1..3
    PROVE  RequireScope(env, last, n) =
               IF GrantOf(v) < n THEN "insufficient_scope" ELSE "next"
<1>1. /\ v \in Variables /\ last.scheme = "Bearer" /\ last.token # Unset
      /\ env.token[v] = last.token
  BY DEF Presented
<1>2. HasCredentials(env) BY <1>1 DEF HasCredentials
<1>3. PICK i \in 1..4 : Candidates[i] = v BY <1>1, CandidatesAre
<1>4. ASSUME NEW j \in Hits(env, last.token) PROVE j = i
  <2>1. j \in 1..4 /\ env.token[Candidates[j]] = last.token BY <1>4 DEF Hits
  <2>2. Candidates[j] = v BY <2>1, <1>1, CandidatesAre DEF TokensValid
  <2> QED BY <2>1, <2>2, <1>3, CandidatesAre
<1>5. i \in Hits(env, last.token) BY <1>1, <1>3 DEF Hits
<1>6. First(Hits(env, last.token)) = i
  <2>1. \A j \in Hits(env, last.token) : i <= j
    <3> SUFFICES ASSUME NEW j \in Hits(env, last.token) PROVE i <= j
      OBVIOUS
    <3>1. j = i BY <1>4
    <3> QED BY <3>1
  <2>2. First(Hits(env, last.token)) \in Hits(env, last.token) BY <1>5, <2>1 DEF First
  <2> QED BY <2>2, <1>4
<1>7. n # 0 OBVIOUS
<1> QED BY <1>1, <1>2, <1>3, <1>5, <1>6, <1>7 DEF RequireScope

-----------------------------------------------------------------------------

(* Load and requireScope together: no call of the hypervisor without a     *)
(* configured token, unless an explicit override admits every request.     *)
THEOREM OpenByOverride == AccessSpec => []OpenOnlyByOverride
<1>1. AccessIInv => OpenOnlyByOverride
  <2> SUFFICES ASSUME AccessIInv, last # Unset, answer \in Calls,
                      last.path \notin PublicPaths, Presented = {}
               PROVE  /\ \A v \in Variables : env.token[v] = Unset
                      /\ \/ env.insecure = "true"
                         \/ env.insecureLoopback = "true" /\ env.listen \in {"unset", "loopback"}
    BY DEF OpenOnlyByOverride
  <2>1. answer = Respond(env, last) /\ Loads(env) BY DEF AccessIInv
  <2>2. PICK x \in Routes : x.path = last.path /\ answer = Handle(env, last, x)
    BY <2>1, ChainAnswers DEF Calls, OrdinaryCalls, AdminCalls
  <2>3. RequireScope(env, last, x.scope) = "next" /\ answer = x.call
    BY <2>2, HandlerAnswers
  <2>4. x.scope # 0 BY <2>2, RouteScopes
  <2>5. ~HasCredentials(env) BY <2>3, <2>4, PassWithoutToken
  <2> QED BY <2>1, <2>5 DEF HasCredentials, Loads, Permitted, FlagSet, Loopback
<1> QED BY <1>1, AccessInvariant, PTL

(* Scopes are exact for every token, whichever variable holds it, and for  *)
(* every method and path: past cors, a request is refused by scope if and  *)
(* only if the variable of its token does not grant what it asks for.      *)
THEOREM ScopesAreExact == AccessSpec => []HierarchyExact
<1>1. AccessIInv => HierarchyExact
  <2> SUFFICES ASSUME AccessIInv, last # Unset, answer # "origin_forbidden",
                      NEW v \in Presented
               PROVE  /\ answer # "unauthorized"
                      /\ answer = "insufficient_scope" <=> ~Grants(v, last)
    BY DEF HierarchyExact
  <2>1. answer = Respond(env, last) /\ TokensValid(env) BY DEF AccessIInv, Loads
  <2>2. v \in Variables BY DEF Presented
  <2>3. CASE /\ answer \in {"no_content", "not_found", "method_not_allowed"}
             /\ ~AsksControl(last) /\ ~AsksAdmin(last)
    BY <2>3 DEF Grants
  <2>4. ASSUME NEW x \in Routes, answer = Handle(env, last, x),
               AsksControl(x) <=> AsksControl(last), AsksAdmin(x) <=> AsksAdmin(last)
        PROVE  /\ answer # "unauthorized"
               /\ answer = "insufficient_scope" <=> ~Grants(v, last)
    <3>1. /\ GrantOf(v) \in 1..3 /\ x.scope \in 0..3 /\ x.call \in Calls
          /\ x.scope = 2 <=> AsksControl(last)
          /\ x.scope = 3 <=> AsksAdmin(last)
      BY <2>4, RouteScopes DEF GrantOf, Scopes
    <3>2. RequireScope(env, last, x.scope) =
            IF GrantOf(v) < x.scope THEN "insufficient_scope" ELSE "next"
      <4>1. CASE x.scope = 0
        <5>1. RequireScope(env, last, 0) = "next" BY DEF RequireScope
        <5> QED BY <3>1, <4>1, <5>1
      <4>2. CASE x.scope \in 1..3 BY <4>2, <2>1, GrantIsExact
      <4> QED BY <3>1, <4>1, <4>2
    <3>3. answer = "insufficient_scope" <=> GrantOf(v) < x.scope
      BY <2>4, <3>1, <3>2 DEF Handle, Calls, OrdinaryCalls, AdminCalls
    <3>4. answer # "unauthorized"
      BY <2>4, <3>1, <3>2 DEF Handle, Calls, OrdinaryCalls, AdminCalls
    <3>5. GrantOf(v) < x.scope <=> ~Grants(v, last)
      <4>1. CASE v = "API_READ_TOKEN" BY <3>1, <4>1 DEF GrantOf, Grants
      <4>2. CASE v = "API_CONTROL_TOKEN" BY <3>1, <4>2 DEF GrantOf, Grants
      <4>3. CASE v \in {"API_BEARER_TOKEN", "API_ADMIN_TOKEN"} BY <3>1, <4>3 DEF GrantOf, Grants
      <4> QED BY <2>2, <4>1, <4>2, <4>3 DEF Variables
    <3> QED BY <3>3, <3>4, <3>5
  <2> QED BY <2>1, <2>3, <2>4, ChainAnswers
<1> QED BY <1>1, AccessInvariant, PTL
=============================================================================
