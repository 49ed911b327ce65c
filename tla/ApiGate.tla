------------------------------ MODULE ApiGate ------------------------------
(***************************************************************************)
(* What one API process does with a request before and around an analysis  *)
(* (api/app.py): the middleware's size and rate limits, the idempotency    *)
(* cache of /v1/analysis and the answers of /v1/analysis/equity.  The      *)
(* event loop may run other requests while one waits for its body; what    *)
(* follows the body runs without a pause.                                  *)
(***************************************************************************)
EXTENDS Integers, FiniteSets

CONSTANTS
    Clients,     \* sessions or hosts: the keys of rate_limit_state
    Keys,        \* Idempotency-Key headers
    NoKey,       \* no such header
    Scenarios,   \* heads-up scenarios with a villain hand or range
    Requests,    \* the requests in flight
    Limit,       \* rate_limit_per_minute; 0 turns the limit off
    Window,      \* the minute, in ticks
    MaxTime,     \* bound on the clock
    MaxComputed  \* bound on the analyses computed

\* What an instance assumes of its constants.
GateAssumption == Limit \in Nat /\ Window \in Nat \ {0} /\ NoKey \notin Keys

VARIABLES
    now,      \* time.monotonic()
    stamps,   \* rate_limit_state: the times kept of a client, numbered as they came
    cache,    \* idempotency_cache: the scenario and the result of a key
    request,  \* the requests whose body is awaited
    computed, \* the analyses computed so far, which number the results
    admitted, \* history: every stamp a client was ever given
    answers,  \* history: the analyses answered
    statuses  \* history: the HTTP status codes sent

gateVars == <<now, stamps, cache, request, computed, admitted, answers, statuses>>

NoRequest == [route |-> "none"]
NoEntry == [scenario |-> "none", result |-> 0]

GateInit ==
    /\ now = Window
    /\ stamps = [c \in Clients |-> {}]
    /\ cache = [k \in Keys |-> NoEntry]
    /\ request = [r \in Requests |-> NoRequest]
    /\ computed = 0
    /\ admitted = [c \in Clients |-> {}]
    /\ answers = {}
    /\ statuses = {}

Tick ==
    /\ now < MaxTime
    /\ now' = now + 1
    /\ UNCHANGED <<stamps, cache, request, computed, admitted, answers, statuses>>
-----------------------------------------------------------------------------
(* request_id_middleware and _allow_request                                *)

\* mutant: the stamps of a minute ago are gone one tick early
Recent_Early(c) == {s \in stamps[c] : s.at > now - Window + 1}
Recent(c) == {s \in stamps[c] : s.at > now - Window}
Allowed(c) == Limit = 0 \/ Cardinality(Recent(c)) < Limit

Stamp(c) == [no |-> Cardinality(admitted[c]) + 1, at |-> now]

\* The declared length is over max_request_bytes: the rate is not even looked at.
TooLarge(r) ==
    /\ request[r] = NoRequest
    /\ statuses' = statuses \cup {413}
    /\ UNCHANGED <<now, stamps, cache, request, computed, admitted, answers>>

Admit(r, c, body) ==
    /\ request[r] = NoRequest
    /\ Allowed(c)
    /\ stamps' = IF Limit = 0 THEN stamps ELSE [stamps EXCEPT ![c] = Recent(c) \cup {Stamp(c)}]
    /\ admitted' = IF Limit = 0 THEN admitted ELSE [admitted EXCEPT ![c] = @ \cup {Stamp(c)}]
    /\ request' = [request EXCEPT ![r] = body]
    /\ UNCHANGED <<now, cache, computed, answers, statuses>>

TooMany(r, c) ==
    /\ request[r] = NoRequest
    /\ ~Allowed(c)
    /\ stamps' = [stamps EXCEPT ![c] = Recent(c)]
    /\ statuses' = statuses \cup {429}
    /\ UNCHANGED <<now, cache, request, computed, admitted, answers>>
-----------------------------------------------------------------------------
(* /v1/analysis: look the key up, analyse, remember the result.            *)

Answer(r, status) ==
    /\ request' = [request EXCEPT ![r] = NoRequest]
    /\ statuses' = statuses \cup {status}
    /\ UNCHANGED <<now, stamps, admitted>>

Keyed(r) == request[r].route = "analysis" /\ request[r].key # NoKey
Known(r) == Keyed(r) /\ cache[request[r].key] # NoEntry
Reply(r, n) == [key |-> request[r].key, scenario |-> request[r].scenario, result |-> n]

Conflict(r) == Known(r) /\ cache[request[r].key].scenario # request[r].scenario

Reject(r) ==
    /\ Conflict(r)
    /\ Answer(r, 409)
    /\ UNCHANGED <<cache, computed, answers>>

Replay(r) ==
    /\ Known(r)
    /\ ~Conflict(r)
    /\ answers' = answers \cup {Reply(r, cache[request[r].key].result)}
    /\ Answer(r, 200)
    /\ UNCHANGED <<cache, computed>>

Analyse(r) ==
    /\ request[r].route = "analysis"
    /\ ~Known(r)
    /\ computed < MaxComputed
    /\ computed' = computed + 1
    /\ cache' = IF Keyed(r)
                THEN [cache EXCEPT ![request[r].key] =
                        [scenario |-> request[r].scenario, result |-> computed + 1]]
                ELSE cache
    /\ answers' = answers \cup {Reply(r, computed + 1)}
    /\ Answer(r, 200)

\* An illegal history, an invalid input or a timeout: nothing is remembered.

AnalyseFails(r) ==
    /\ request[r].route = "analysis"
    /\ ~Known(r)
    /\ \E status \in {408, 422} : Answer(r, status)
    /\ UNCHANGED <<cache, computed, answers>>

(* /v1/analysis/equity.  A multiway scenario has no heads-up equity; its   *)
(* answer reads elapsed_ms, which is assigned further down: the coroutine  *)
(* raises UnboundLocalError.                                               *)
EquityStatus == [headsUp |-> 200, none |-> 422, multiway |-> 500]

Equity(r) ==
    /\ request[r].route = "equity"
    /\ Answer(r, EquityStatus[request[r].villains])
    /\ UNCHANGED <<cache, computed, answers>>

Bodies ==
    [route : {"analysis"}, key : Keys \cup {NoKey}, scenario : Scenarios]
    \cup [route : {"equity"}, villains : DOMAIN EquityStatus]

GateNext ==
    \/ Tick
    \/ \E r \in Requests :
        \/ TooLarge(r)
        \/ \E c \in Clients :
            \/ \E body \in Bodies : Admit(r, c, body)
            \/ TooMany(r, c)
        \/ Reject(r)
        \/ Replay(r)
        \/ Analyse(r)
        \/ AnalyseFails(r)
        \/ Equity(r)

GateSpec == GateInit /\ [][GateNext]_gateVars
-----------------------------------------------------------------------------
(* The limiter keeps at most Limit stamps of a client, none in the future. *)
GateTyped ==
    /\ \A c \in Clients : /\ stamps[c] \subseteq [no : Nat \ {0}, at : 1 .. now]
                          /\ Cardinality(stamps[c]) <= Limit
    /\ \A k \in Keys : cache[k] # NoEntry =>
        cache[k] \in [scenario : Scenarios, result : 1 .. computed]
    /\ \A r \in Requests : request[r] \in Bodies \cup {NoRequest}

Since(c, start) == {s \in admitted[c] : start < s.at}

(* No minute, wherever it begins, sees more than Limit requests of one     *)
(* client admitted.                                                        *)
AtMostLimitPerMinute == Limit # 0 =>
    \A c \in Clients, start \in 0 .. MaxTime :
        Cardinality({s \in Since(c, start) : s.at <= start + Window}) <= Limit

(* A request is refused only when Limit requests were admitted within the  *)
(* last minute: refused ones do not prolong the wait.                      *)
RefusedOnlyWhenFull ==
    \A c \in Clients : ~Allowed(c) => Cardinality(Since(c, now - Window)) >= Limit

(* All the answers given for one idempotency key are of one scenario and   *)
(* one computation, whatever requests overlap or fail in between.          *)
OneAnswerPerKey == \A a, b \in answers :
    a.key = b.key /\ a.key # NoKey => a = b

(* The limit holds for every minute and for nothing else, and a repeated   *)
(* request has the first one's answer.                                     *)
GateSound == GateTyped /\ AtMostLimitPerMinute /\ RefusedOnlyWhenFull /\ OneAnswerPerKey

(* A valid scenario, multiway or not, is never answered with an internal   *)
(* error (the application's description: "2-8 seat multiway analysis").    *)
NoInternalError == 500 \notin statuses
=============================================================================
