---------------------------- MODULE MCApiAccess ----------------------------
(***************************************************************************)
(* ApiAccess for TLC.  One set of environments varies everything that Load *)
(* looks at and is met by few requests; the other is two sound             *)
(* environments, met by every kind of request.                             *)
(***************************************************************************)
EXTENDS ApiAccess

CONSTANTS t1, t2, ta, tb, tc, td, spaced, o1, o2

Env(t, l, a, b, s) ==
    [token |-> t, listen |-> l, insecure |-> a, insecureLoopback |-> b, origins |-> s]

VariedEnvironments ==
    {Env(t, l, a, b, s) :
        t \in [Variables -> {t1, t2, spaced, Unset}],
        l \in {"unset", "loopback", "address", "hostname", "bad"},
        a \in Flags, b \in Flags,
        s \in {<<>>, <<o1>>, <<o1, "">>, <<"malformed", o1>>}}

Message(m, p, o, s, t, i) ==
    [method |-> m, path |-> p, origin |-> o, scheme |-> s, token |-> t, input |-> i]

FewMessages ==
    {Message(x[1], x[2], Unset, "Bearer", t, "valid") :
        x \in {<<"GET", "vms">>, <<"POST", "start">>, <<"POST", "stop">>},
        t \in {t1, Unset}}

ScopedTokens ==
    [v \in Variables |-> CASE v = "API_READ_TOKEN" -> ta [] v = "API_CONTROL_TOKEN" -> tb
                           [] v = "API_BEARER_TOKEN" -> tc [] OTHER -> Unset]

SoundEnvironments ==
    {Env(ScopedTokens, "address", "unset", "unset", <<o1>>),
     Env([v \in Variables |-> Unset], "loopback", "false", "true", <<>>)}

EveryMessage ==
    {Message(m, p, o, s, t, i) :
        m \in Methods, p \in {x.path : x \in Routes} \cup {"unknown"},
        o \in {Unset, o1, o2}, s \in {"", "Bearer", "other"},
        t \in {ta, tb, tc, td, Unset}, i \in Inputs}

AnyEnvironment == VariedEnvironments \cup SoundEnvironments
MCMessages(e) == IF e \in SoundEnvironments THEN EveryMessage ELSE FewMessages
=============================================================================
