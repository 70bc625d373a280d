---------------------------- MODULE RequestGate ----------------------------
(***************************************************************************)
(* Who is let in: the bearer checks of the REST and the MCP surface        *)
(* (auth.py, readonly_server.py), the per-user keys and the cache of       *)
(* rejected ones that both share (client_tokens.py), the request windows   *)
(* of the REST surface (rate_limit.py) and the window of failed attempts   *)
(* of the MCP surface.  A step is one request: each surface answers its    *)
(* requests on one event loop up to here.  Not in the environment "local", *)
(* where requests from the loopback address skip the windows.              *)
(***************************************************************************)
EXTENDS Integers, Sequences, FiniteSetsExt

CONSTANTS
    Clients,      \* addresses
    LimitOf,      \* class of path -> requests a window: 5, 20, 100
    Window,       \* _RATE_LIMIT_WINDOW, _WINDOW_SEC: 60 s
    MaxAttempts,  \* _MAX_ATTEMPTS: 5
    Lockout,      \* _LOCKOUT_SEC: 300 s
    NegativeFor,  \* for how long a rejected key stays cached: 60 s
    MaxClock      \* bound: the clock

Classes == DOMAIN LimitOf
Never == 0 - Window - NegativeFor

VARIABLES
    wall,      \* the clock
    counts,    \* _counts: class and client -> times of admitted requests
    attempts,  \* _failed_attempts: client -> times
    key,       \* the one per-user key: "none", "active" or "revoked"
    down,      \* the token store is out
    lastDown,  \* when it was last out
    rejected,  \* _neg_cache: until when the key counts as bad
    passed,    \* class and client -> times of the window's admitted requests
    denied,    \* client -> times of the window's 401s of the MCP surface
    answer     \* to the last request, until something else happens

gateVars == <<wall, counts, attempts, key, down, lastDown, rejected, passed, denied, answer>>

\* A failed attempt is remembered for as long as it counts, and a window or a rejection
\* lasts some time.
GateTimes ==
    /\ Window \in Nat /\ Lockout \in Nat /\ NegativeFor \in Nat
    /\ Window >= 1 /\ Window <= Lockout /\ NegativeFor >= 1
    /\ MaxAttempts \in Nat
    /\ LimitOf \in [Classes -> Nat]

NoAnswer == [credential |-> "none", outcome |-> "none"]

GateInit ==
    /\ wall = 0
    /\ counts = [w \in Classes \X Clients |-> <<>>]
    /\ attempts = [c \in Clients |-> <<>>]
    /\ key = "none" /\ down = FALSE /\ lastDown = Never /\ rejected = Never
    /\ passed = counts
    /\ denied = attempts
    /\ answer = NoAnswer

\* What a window keeps of times in order: popleft drops those before the first that counts,
\* and so does the comprehension of readonly_server.py.
Since(times, t) ==
    LET first == Min({i \in DOMAIN times : times[i] >= t} \cup {Len(times) + 1})
    IN  SubSeq(times, first, Len(times))
After(times, t) == Since(times, t + 1)

GateTick ==
    /\ wall < MaxClock
    /\ wall' = wall + 1
    /\ passed' = [w \in DOMAIN passed |-> Since(passed[w], wall' - Window)]
    /\ denied' = [c \in Clients |-> After(denied[c], wall' - Window)]
    /\ lastDown' = IF down THEN wall' ELSE lastDown
    /\ answer' = NoAnswer
    /\ UNCHANGED <<counts, attempts, key, down, rejected>>

(***************************************************************************)
(* Keys                                                                    *)
(***************************************************************************)
CreateUserKey == key = "none" /\ key' = "active"
RevokeUserKey == key = "active" /\ ~down /\ key' = "revoked"

Keys ==
    /\ CreateUserKey \/ RevokeUserKey
    /\ answer' = NoAnswer
    /\ UNCHANGED <<wall, counts, attempts, down, lastDown, rejected, passed, denied>>

Outage ==
    /\ down' = ~down
    /\ lastDown' = IF down THEN lastDown ELSE wall
    /\ answer' = NoAnswer
    /\ UNCHANGED <<wall, counts, attempts, key, rejected, passed, denied>>

\* resolve_user_token: a key is bad while it is cached as bad, else as the store says; a
\* store that is out says bad.
KeyResolved == wall >= rejected /\ ~down /\ key = "active"
RejectedRenewed(good) == IF good THEN rejected ELSE wall + NegativeFor
RejectedUntil(good) == IF good \/ wall < rejected THEN rejected ELSE wall + NegativeFor

\* The credentials a request may carry: the shared token, the key, something else.
Credentials == {"shared", "other"} \cup IF key = "none" THEN {} ELSE {"key"}
Good(credential) == credential = "shared" \/ (credential = "key" /\ KeyResolved)

Answer(credential, outcome) ==
    /\ answer' = [credential |-> credential, outcome |-> outcome]
    /\ rejected' = IF credential = "key" THEN RejectedUntil(Good("key")) ELSE rejected

(***************************************************************************)
(* The REST surface: AuthMiddleware, then RateLimitMiddleware              *)
(***************************************************************************)
RecentLoose(times) == After(times, wall - Window)
Recent(times) == Since(times, wall - Window)

Windowed(w, credential) ==
    /\ IF Len(Recent(counts[w])) >= LimitOf[w[1]]
       THEN /\ Answer(credential, "limited")
            /\ counts' = [counts EXCEPT ![w] = Recent(@)]
            /\ UNCHANGED passed
       ELSE /\ Answer(credential, "served")
            /\ counts' = [counts EXCEPT ![w] = Append(Recent(@), wall)]
            /\ passed' = [passed EXCEPT ![w] = Append(@, wall)]
    /\ UNCHANGED <<wall, attempts, key, down, lastDown, denied>>

\* A path of the API; a request that is turned away here counts nowhere.
Rest(c, class, credential) ==
    IF Good(credential) THEN Windowed(<<class, c>>, credential)
    ELSE /\ Answer(credential, "unauthorized")
         /\ UNCHANGED <<wall, counts, attempts, key, down, lastDown, passed, denied>>

\* The public paths, and the admin API, which asks for a token of its own further on.
RestOpen(c, class) == Windowed(<<class, c>>, "none")

(***************************************************************************)
(* The MCP surface: BearerTokenAuthMiddleware, up to the token bucket      *)
(***************************************************************************)
Locked(times) == Len(After(times, wall - Window)) >= MaxAttempts

Mcp(c, credential) ==
    LET kept == After(attempts[c], wall - Lockout)
    IN  /\ IF Locked(kept)
           THEN /\ answer' = [credential |-> credential, outcome |-> "locked"]
                /\ attempts' = [attempts EXCEPT ![c] = kept]
                /\ UNCHANGED <<rejected, denied>>
           ELSE IF Good(credential)
           THEN /\ Answer(credential, "served")
                /\ attempts' = [attempts EXCEPT ![c] = kept]
                /\ UNCHANGED denied
           ELSE /\ Answer(credential, "unauthorized")
                /\ attempts' = [attempts EXCEPT ![c] = Append(kept, wall)]
                /\ denied' = [denied EXCEPT ![c] = Append(@, wall)]
        /\ UNCHANGED <<wall, counts, key, down, lastDown, passed>>

GateNext ==
    \/ GateTick \/ Keys \/ Outage
    \/ \E c \in Clients, class \in Classes : RestOpen(c, class)
    \/ \E c \in Clients, credential \in Credentials :
          \/ \E class \in Classes : Rest(c, class, credential)
          \/ Mcp(c, credential)

GateSpec == GateInit /\ [][GateNext]_gateVars

(***************************************************************************)
(* Properties                                                              *)
(***************************************************************************)
\* No client is served more by the REST surface than its class allows in any closed window
\* (rate_limit.py:21), nor answered 401 by the MCP surface more than MaxAttempts times in any
\* window ("max 5 per 60s", readonly_server.py:1404), in whatever order the requests come.
\* The 401s of the REST surface have no bound, and a client that waited for a window is let
\* in again, long before Lockout is over.
WindowBound ==
    /\ \A w \in DOMAIN passed : Len(passed[w]) <= LimitOf[w[1]]
    /\ \A c \in Clients : Len(denied[c]) <= MaxAttempts

\* The cache of rejected keys never lets a revoked key in, and keeps an active one out only
\* as long after an outage of the store as an entry lives: asking again does not prolong it.
KeyAnswers ==
    answer.credential = "key" =>
        /\ answer.outcome \in {"served", "limited"} => key = "active"
        /\ answer.outcome = "unauthorized" => key # "active" \/ wall < lastDown + NegativeFor
=============================================================================
