--------------------------- MODULE RefreshRotation ---------------------------
(***************************************************************************)
(* POST /api/bank/auth/refresh and /logout: refresh tokens, each exchanged *)
(* for its successor, and the denylist in Redis that makes a token unusable*)
(* once it has been exchanged or logged out.                               *)
(*                                                                         *)
(* Time runs in half seconds: tokens expire and keys live in whole         *)
(* seconds, calls happen in between.  A refresh names the token it issues. *)
(***************************************************************************)
EXTENDS Integers

CONSTANTS
  Call,          \* calls of /refresh and /logout
  First,         \* refresh tokens issued by logins at time 0
  Life,          \* seconds a refresh token is valid (7 days in the code)
  LastTick,      \* bound: half seconds the clock runs
  RedisMayFail,  \* TRUE: Redis stops and comes back, with its keys or without
  Absent

ASSUME RotationAssumption ==
  /\ Life \in Nat \ {0} /\ LastTick \in Nat
  /\ RedisMayFail \in BOOLEAN
  /\ Call \cap First = {} /\ Absent \notin Call \cup First /\ Absent \notin Nat

Token == Call \cup First

VARIABLES
  now,       \* half seconds since the start
  redisUp,   \* Redis answers
  key,       \* tick at which the key of a token expires, 0 if there is none
  lost,      \* tokens whose key Redis lost
  exp,       \* exp claim of each token, in seconds; Absent if not issued
  step,      \* next step of each call
  kind,      \* "refresh" or "logout"
  token,     \* the refresh token sent
  at,        \* tick at which the call put the token on the denylist
  answer     \* status of the response

redisVars == <<redisUp, key, lost>>
callVars  == <<step, kind, token, at, answer>>
rotationVars == <<now, redisVars, exp, callVars>>

InCall == {"check", "analyst", "deny", "issue"}

\* Tokens a client holds: a response that got lost gives it none.
Held == First \cup {c \in Call : answer[c] = "ok" /\ exp[c] # Absent}

RotationInit ==
  /\ now = 0
  /\ redisUp = TRUE /\ lost = {}
  /\ key = [t \in Token |-> 0]
  /\ exp = [t \in Token |-> IF t \in First THEN Life ELSE Absent]
  /\ step = [c \in Call |-> "new"]
  /\ kind \in [Call -> {"refresh", "logout"}]
  /\ token = [c \in Call |-> Absent]
  /\ at = [c \in Call |-> Absent]
  /\ answer = [c \in Call |-> "none"]

Proceed(c, from, to) == step[c] = from /\ step' = [step EXCEPT ![c] = to]

End(c, status) ==
  /\ step' = [step EXCEPT ![c] = "done"]
  /\ answer' = [answer EXCEPT ![c] = status]

Tick ==
  /\ now < LastTick
  /\ now' = now + 1
  /\ UNCHANGED <<redisVars, exp, callVars>>

\* EXISTS refresh_denylist:<jti>
Denied(t) == now < key[t]

RedisStops ==
  /\ RedisMayFail /\ redisUp
  /\ redisUp' = FALSE
  /\ UNCHANGED <<now, key, lost, exp, callVars>>

\* Redis comes back with the keys it had, or with none.
RedisStarts ==
  /\ ~redisUp
  /\ redisUp' = TRUE
  /\ \/ UNCHANGED <<key, lost>>
     \/ /\ key' = [t \in Token |-> 0]
        /\ lost' = lost \cup {t \in Token : Denied(t)}
  /\ UNCHANGED <<now, exp, callVars>>

\* jwt_service.decode: the library compares whole seconds.
Decodes(t) == now \div 2 <= exp[t]

\* Mutant: min for max.
Ttl_min(t) == IF 2 * exp[t] - now >= 4 THEN 1 ELSE (2 * exp[t] - now) \div 2

\* max(1, int((expires_at - now).total_seconds())); int() drops the half.
Ttl(t) == IF 2 * exp[t] - now >= 4 THEN (2 * exp[t] - now) \div 2 ELSE 1

Present(c, t) ==
  /\ step[c] = "new"
  /\ token' = [token EXCEPT ![c] = t]
  /\ \/ /\ Decodes(t)
        /\ step' = [step EXCEPT ![c] = IF kind[c] = "refresh" THEN "check" ELSE "deny"]
        /\ UNCHANGED answer
     \/ /\ ~Decodes(t)
        /\ End(c, IF kind[c] = "refresh" THEN "401" ELSE "ok")
  /\ UNCHANGED <<now, redisVars, exp, kind, at>>

\* is_denied, the fast path.
CheckDenied(c) ==
  /\ step[c] = "check"
  /\ \/ ~redisUp /\ End(c, "500")
     \/ redisUp /\ Denied(token[c]) /\ End(c, "401")
     \/ redisUp /\ ~Denied(token[c]) /\ Proceed(c, "check", "analyst") /\ UNCHANGED answer
  /\ UNCHANGED <<now, redisVars, exp, kind, token, at>>

\* get_by_id: an analyst who is gone or inactive is refused.
LoadAnalyst(c) ==
  /\ step[c] = "analyst"
  /\ \/ End(c, "401")
     \/ Proceed(c, "analyst", "deny") /\ UNCHANGED answer
  /\ UNCHANGED <<now, redisVars, exp, kind, token, at>>

\* Mutant: SET EX without NX.
SetKey_always(c) ==
  /\ redisUp
  /\ key' = [key EXCEPT ![token[c]] = now + 2 * Ttl(token[c])]
  /\ at' = [at EXCEPT ![c] = now]

\* SET NX EX sets the key, or finds it set; logout does not look at the result.
SetKey(c) ==
  /\ redisUp /\ ~Denied(token[c])
  /\ key' = [key EXCEPT ![token[c]] = now + 2 * Ttl(token[c])]
  /\ at' = [at EXCEPT ![c] = now]

Deny(c) ==
  /\ step[c] = "deny"
  /\ SetKey(c)
  /\ IF kind[c] = "refresh" THEN Proceed(c, "deny", "issue") /\ UNCHANGED answer
                            ELSE End(c, "ok")
  /\ UNCHANGED <<now, redisUp, lost, exp, kind, token>>

DenyTwice(c) ==
  /\ step[c] = "deny" /\ redisUp /\ Denied(token[c])
  /\ End(c, IF kind[c] = "refresh" THEN "401" ELSE "ok")
  /\ UNCHANGED <<now, redisVars, exp, kind, token, at>>

\* Redis does not answer: it did not get the command, or it did.
DenyFails(c) ==
  /\ step[c] = "deny" /\ RedisMayFail
  /\ \/ ~redisUp /\ UNCHANGED <<key, at>>
     \/ SetKey(c)
  /\ End(c, "500")
  /\ UNCHANGED <<now, redisUp, lost, exp, kind, token>>

\* The new pair leaves with the response.
Issue(c) ==
  /\ step[c] = "issue"
  /\ exp' = [exp EXCEPT ![c] = (now \div 2) + Life]
  /\ End(c, "ok")
  /\ UNCHANGED <<now, redisVars, kind, token, at>>

\* The worker dies, or the connection to the client breaks.
CallFails(c) ==
  /\ step[c] \in InCall
  /\ End(c, "500")
  /\ UNCHANGED <<now, redisVars, exp, kind, token, at>>

RotationNext ==
  \/ Tick \/ RedisStops \/ RedisStarts
  \/ \E c \in Call :
       \/ \E t \in Held : Present(c, t)
       \/ CheckDenied(c) \/ LoadAnalyst(c) \/ Deny(c) \/ DenyTwice(c)
       \/ DenyFails(c) \/ Issue(c) \/ CallFails(c)

RotationSpec == RotationInit /\ [][RotationNext]_rotationVars
-----------------------------------------------------------------------------
\* The type invariant: instants are natural numbers, an answer is one of the
\* statuses /refresh and /logout send.
RotationTypeOK ==
  /\ now \in Nat
  /\ redisUp \in BOOLEAN /\ key \in [Token -> Nat] /\ lost \subseteq Token
  /\ exp \in [Token -> Nat \cup {Absent}]
  /\ step \in [Call -> {"new", "done"} \cup InCall]
  /\ kind \in [Call -> {"refresh", "logout"}]
  /\ token \in [Call -> Token \cup {Absent}]
  /\ at \in [Call -> Nat \cup {Absent}]
  /\ answer \in [Call -> {"none", "ok", "401", "500"}]

\* Calls that put token t on the denylist, and those that exchanged it.
Deniers(t)    == {c \in Call : token[c] = t /\ at[c] # Absent}
Exchangers(t) == {c \in Deniers(t) : exp[c] # Absent}

\* The last second before exp and the one in which exp falls.
InTail(c, t) == at[c] >= 2 * exp[t] - 1

\* Of the calls that put one token on the denylist the later ones found its
\* key lost with Redis, or the token about to expire.  The check, the reading
\* of the analyst and SET NX are separate steps of concurrent calls.
DeniedOncePerLife ==
  \A t \in Token : \A c, d \in Deniers(t) :
    c = d \/ t \in lost \/ InTail(c, t) \/ InTail(d, t)

\* A token that a logout put on the denylist is not exchanged afterwards,
\* unless Redis lost the key or the token is about to expire.
LoggedOutTokenIsDead ==
  \A t \in Token : \A c \in Deniers(t), d \in Exchangers(t) :
    kind[c] = "logout" /\ answer[c] = "ok"
      => t \in lost \/ InTail(d, t) \/ at[d] < at[c]

\* Why DeniedOncePerLife holds.  A call under way holds a token that was
\* issued, and has issued none itself; a token once on the denylist is there,
\* unless Redis lost it, until its last second.
CallsHoldTokens ==
  /\ \A t \in First : exp[t] # Absent
  /\ \A c \in Call :
       /\ step[c] \in InCall \/ at[c] # Absent => token[c] \in Token /\ exp[token[c]] # Absent
       /\ step[c] \in {"new"} \cup InCall => exp[c] = Absent
       /\ step[c] \in {"new", "check", "analyst", "deny"} => at[c] = Absent

KeyOutlivesCalls ==
  \A t \in Token : Deniers(t) # {} /\ t \notin lost
    => key[t] >= 2 * exp[t] - 1 \/ now >= 2 * exp[t] - 1

RotationInv ==
  /\ RotationTypeOK
  /\ CallsHoldTokens
  /\ KeyOutlivesCalls
  /\ DeniedOncePerLife
=============================================================================
