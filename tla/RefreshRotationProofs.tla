----------------------- MODULE RefreshRotationProofs -----------------------
(***************************************************************************)
(* Theorems about RefreshRotation, for any calls, any first tokens and any *)
(* lifetime, with a Redis that may stop, restart and lose its keys.        *)
(***************************************************************************)
EXTENDS RefreshRotation, TLAPS

\* A key set now lives at least until half a second before exp, whatever the
\* truncation to seconds and the clamp to one second do.
LEMMA KeyReachesTail ==
  ASSUME NEW t \in Token, exp[t] \in Nat, now \in Nat
  PROVE  /\ Ttl(t) \in Nat
         /\ now + 2 * Ttl(t) >= 2 * exp[t] - 1
  BY DEF Ttl

\* The types are kept, and calls go on holding tokens that were issued.
LEMMA TypeStep ==
  /\ RotationInit => RotationTypeOK /\ CallsHoldTokens
  /\ RotationTypeOK /\ CallsHoldTokens /\ [RotationNext]_rotationVars => RotationTypeOK' /\ CallsHoldTokens'
<1> USE RotationAssumption DEF RotationAssumption, RotationTypeOK, CallsHoldTokens,
                               Token, InCall, Proceed, End
<1>1. RotationInit => RotationTypeOK /\ CallsHoldTokens
  BY DEF RotationInit
<1>2. RotationTypeOK /\ CallsHoldTokens /\ [RotationNext]_rotationVars => RotationTypeOK' /\ CallsHoldTokens'
  <2> SUFFICES ASSUME RotationTypeOK, CallsHoldTokens, [RotationNext]_rotationVars
               PROVE  RotationTypeOK' /\ CallsHoldTokens'
    OBVIOUS
  <2> USE DEF redisVars, callVars, rotationVars
  <2>0. ASSUME NEW c \in Call, SetKey(c), step[c] = "deny"
        PROVE  /\ key' \in [Token -> Nat]
               /\ at' \in [Call -> Nat \cup {Absent}]
    <3>1. token[c] \in Token /\ exp[token[c]] \in Nat
      BY <2>0
    <3>2. Ttl(token[c]) \in Nat
      BY <3>1, KeyReachesTail
    <3>3. now + 2 * Ttl(token[c]) \in Nat
      BY <3>2
    <3>4. QED
      BY <2>0, <3>3 DEF SetKey
  <2>1. CASE Tick
    BY <2>1 DEF Tick
  <2>2. CASE RedisStops
    BY <2>2 DEF RedisStops
  <2>3. CASE RedisStarts
    BY <2>3 DEF RedisStarts
  <2>4. ASSUME NEW c \in Call, NEW t \in Held, Present(c, t)
        PROVE  RotationTypeOK' /\ CallsHoldTokens'
    BY <2>4 DEF Present, Held
  <2>5. ASSUME NEW c \in Call, CheckDenied(c) PROVE RotationTypeOK' /\ CallsHoldTokens'
    BY <2>5 DEF CheckDenied
  <2>6. ASSUME NEW c \in Call, LoadAnalyst(c) PROVE RotationTypeOK' /\ CallsHoldTokens'
    BY <2>6 DEF LoadAnalyst
  <2>7. ASSUME NEW c \in Call, Deny(c) PROVE RotationTypeOK' /\ CallsHoldTokens'
    <3>1. /\ key' \in [Token -> Nat]
          /\ at' \in [Call -> Nat \cup {Absent}]
      BY <2>7, <2>0 DEF Deny
    <3>2. RotationTypeOK'
      BY <2>7, <3>1 DEF Deny
    <3>3. CallsHoldTokens'
      BY <2>7 DEF Deny, SetKey
    <3>4. QED
      BY <3>2, <3>3
  <2>8. ASSUME NEW c \in Call, DenyTwice(c) PROVE RotationTypeOK' /\ CallsHoldTokens'
    BY <2>8 DEF DenyTwice
  <2>9. ASSUME NEW c \in Call, DenyFails(c) PROVE RotationTypeOK' /\ CallsHoldTokens'
    <3>1. /\ key' \in [Token -> Nat]
          /\ at' \in [Call -> Nat \cup {Absent}]
      BY <2>9, <2>0 DEF DenyFails
    <3>2. RotationTypeOK'
      BY <2>9, <3>1 DEF DenyFails
    <3>3. CallsHoldTokens'
      BY <2>9 DEF DenyFails, SetKey
    <3>4. QED
      BY <3>2, <3>3
  <2>10. ASSUME NEW c \in Call, Issue(c) PROVE RotationTypeOK' /\ CallsHoldTokens'
    BY <2>10 DEF Issue
  <2>11. ASSUME NEW c \in Call, CallFails(c) PROVE RotationTypeOK' /\ CallsHoldTokens'
    BY <2>11 DEF CallFails
  <2>12. CASE UNCHANGED rotationVars
    BY <2>12
  <2>13. QED
    BY <2>1, <2>2, <2>3, <2>4, <2>5, <2>6, <2>7, <2>8, <2>9, <2>10, <2>11,
       <2>12 DEF RotationNext
<1>3. QED
  BY <1>1, <1>2

\* The type invariant holds of every behaviour: no handler computes a lifetime
\* from a token that was not issued.
THEOREM TypeCorrect == RotationSpec => []RotationTypeOK
  BY TypeStep, PTL DEF RotationSpec
-----------------------------------------------------------------------------
\* A step that leaves the denylist alone keeps the invariant: it neither adds
\* a denier of a token nor changes the expiry of one that has deniers.
LEMMA FrameStep ==
  ASSUME RotationInv, RotationTypeOK', CallsHoldTokens',
         now' >= now, key' = key, lost' = lost, at' = at,
         \A c \in Call : at[c] # Absent => token'[c] = token[c],
         \A t \in Token : exp[t] # Absent => exp'[t] = exp[t]
  PROVE  RotationInv'
<1>1. ASSUME NEW t \in Token
      PROVE  /\ Deniers(t)' = Deniers(t)
             /\ Deniers(t) # {} => exp[t] \in Nat /\ exp'[t] = exp[t]
  BY DEF RotationInv, CallsHoldTokens, Deniers, RotationTypeOK
<1>2. KeyOutlivesCalls'
  BY <1>1 DEF RotationInv, KeyOutlivesCalls, RotationTypeOK
<1>3. DeniedOncePerLife'
  <2> SUFFICES ASSUME NEW t \in Token, NEW c \in Deniers(t)', NEW d \in Deniers(t)',
                      c # d, t \notin lost'
               PROVE  InTail(c, t)' \/ InTail(d, t)'
    BY DEF DeniedOncePerLife
  <2>1. c \in Deniers(t) /\ d \in Deniers(t) /\ exp'[t] = exp[t]
    BY <1>1
  <2>2. InTail(c, t) \/ InTail(d, t)
    BY <2>1 DEF RotationInv, DeniedOncePerLife
  <2>3. QED
    BY <2>1, <2>2 DEF InTail
<1>4. QED
  BY <1>2, <1>3 DEF RotationInv

\* A call that puts a token on the denylist found no live key.  If the token
\* had been denied before and Redis has not lost it, its last second has come.
LEMMA SetKeyStep ==
  ASSUME RotationInv, RotationTypeOK', CallsHoldTokens',
         NEW c \in Call, step[c] = "deny", SetKey(c),
         now' = now, lost' = lost, token' = token, exp' = exp
  PROVE  RotationInv'
<1> DEFINE t0 == token[c]
<1>1. /\ t0 \in Token /\ exp[t0] \in Nat /\ now \in Nat /\ at[c] = Absent
  BY DEF RotationInv, CallsHoldTokens, RotationTypeOK, InCall
<1>2. /\ now >= key[t0] /\ key[t0] \in Nat
      /\ key'[t0] >= 2 * exp[t0] - 1
      /\ \A t \in Token : t # t0 => key'[t] = key[t]
      /\ at'[c] = now
      /\ \A d \in Call : d # c => at'[d] = at[d]
  BY <1>1, KeyReachesTail DEF RotationInv, RotationTypeOK, SetKey, Denied
<1>3. \A t \in Token : Deniers(t)' \subseteq Deniers(t) \cup {c}
  BY <1>2 DEF Deniers
<1>4. \A t \in Token : t # t0 => Deniers(t)' = Deniers(t)
  BY <1>2 DEF Deniers
<1>5. KeyOutlivesCalls'
  BY <1>1, <1>2, <1>4 DEF RotationInv, KeyOutlivesCalls
<1>6. ASSUME NEW d \in Deniers(t0), t0 \notin lost
      PROVE  InTail(c, t0)'
  <2>1. key[t0] >= 2 * exp[t0] - 1 \/ now >= 2 * exp[t0] - 1
    BY <1>1, <1>6 DEF RotationInv, KeyOutlivesCalls
  <2>2. now >= 2 * exp[t0] - 1
    BY <2>1, <1>1, <1>2
  <2>3. QED
    BY <2>2, <1>2 DEF InTail
<1>7. DeniedOncePerLife'
  <2> SUFFICES ASSUME NEW t \in Token, NEW e \in Deniers(t)', NEW d \in Deniers(t)',
                      e # d, t \notin lost'
               PROVE  InTail(e, t)' \/ InTail(d, t)'
    BY DEF DeniedOncePerLife
  <2>1. CASE e # c /\ d # c
    <3>1. e \in Deniers(t) /\ d \in Deniers(t) /\ e \in Call /\ d \in Call
      BY <2>1, <1>3 DEF Deniers
    <3>2. InTail(e, t) \/ InTail(d, t)
      BY <3>1 DEF RotationInv, DeniedOncePerLife
    <3>3. QED
      BY <3>1, <3>2, <2>1, <1>2 DEF InTail
  <2>2. CASE e = c
    BY <2>2, <1>3, <1>6 DEF Deniers
  <2>3. CASE d = c
    BY <2>3, <1>3, <1>6 DEF Deniers
  <2>4. QED
    BY <2>1, <2>2, <2>3
<1>8. QED
  BY <1>5, <1>7 DEF RotationInv

\* Every step keeps the invariant.
LEMMA RotationStep == RotationInv /\ [RotationNext]_rotationVars => RotationInv'
<1> SUFFICES ASSUME RotationInv, [RotationNext]_rotationVars PROVE RotationInv'
  OBVIOUS
<1>0. RotationTypeOK' /\ CallsHoldTokens'
  BY TypeStep DEF RotationInv
<1> USE <1>0 DEF redisVars, callVars
<1>1. CASE Tick
  BY <1>1, FrameStep DEF Tick, RotationInv, RotationTypeOK
<1>2. CASE RedisStops
  BY <1>2, FrameStep DEF RedisStops, RotationInv, RotationTypeOK
<1>3. CASE RedisStarts
  <2>1. CASE UNCHANGED <<key, lost>>
    BY <1>3, <2>1, FrameStep DEF RedisStarts, RotationInv, RotationTypeOK
  <2>2. CASE lost' = lost \cup {t \in Token : Denied(t)}
    <3>1. \A t \in Token : Deniers(t)' = Deniers(t) /\ exp'[t] = exp[t]
      BY <1>3 DEF RedisStarts, Deniers
    <3>2. KeyOutlivesCalls'
      <4> SUFFICES ASSUME NEW t \in Token, Deniers(t) # {}, t \notin lost'
                   PROVE  now >= 2 * exp[t] - 1
        BY <1>3, <3>1 DEF RedisStarts, KeyOutlivesCalls
      <4>1. t \notin lost /\ ~Denied(t)
        BY <2>2
      <4>2. key[t] >= 2 * exp[t] - 1 \/ now >= 2 * exp[t] - 1
        BY <4>1 DEF RotationInv, KeyOutlivesCalls
      <4>3. exp[t] \in Nat /\ key[t] \in Nat /\ now \in Nat
        BY DEF RotationInv, CallsHoldTokens, RotationTypeOK, Deniers
      <4>4. QED
        BY <4>1, <4>2, <4>3 DEF Denied
    <3>3. DeniedOncePerLife'
      BY <1>3, <2>2, <3>1
         DEF RedisStarts, RotationInv, DeniedOncePerLife, InTail
    <3>4. QED
      BY <3>2, <3>3 DEF RotationInv
  <2>3. QED
    BY <1>3, <2>1, <2>2 DEF RedisStarts
<1>4. ASSUME NEW c \in Call, NEW t \in Held, Present(c, t) PROVE RotationInv'
  <2>1. at[c] = Absent
    BY <1>4 DEF Present, RotationInv, CallsHoldTokens
  <2>2. \A d \in Call : at[d] # Absent => token'[d] = token[d]
    BY <1>4, <2>1 DEF Present, RotationInv, RotationTypeOK
  <2>3. QED
    BY <1>4, <2>2, FrameStep DEF Present, RotationInv, RotationTypeOK
<1>5. ASSUME NEW c \in Call, CheckDenied(c) PROVE RotationInv'
  BY <1>5, FrameStep DEF CheckDenied, RotationInv, RotationTypeOK
<1>6. ASSUME NEW c \in Call, LoadAnalyst(c) PROVE RotationInv'
  BY <1>6, FrameStep DEF LoadAnalyst, RotationInv, RotationTypeOK
<1>7. ASSUME NEW c \in Call, Deny(c) PROVE RotationInv'
  BY <1>7, SetKeyStep DEF Deny
<1>8. ASSUME NEW c \in Call, DenyTwice(c) PROVE RotationInv'
  BY <1>8, FrameStep DEF DenyTwice, RotationInv, RotationTypeOK
<1>9. ASSUME NEW c \in Call, DenyFails(c) PROVE RotationInv'
  <2>1. CASE UNCHANGED <<key, at>>
    BY <1>9, <2>1, FrameStep DEF DenyFails, RotationInv, RotationTypeOK
  <2>2. CASE SetKey(c)
    BY <1>9, <2>2, SetKeyStep DEF DenyFails
  <2>3. QED
    BY <1>9, <2>1, <2>2 DEF DenyFails
<1>10. ASSUME NEW c \in Call, Issue(c) PROVE RotationInv'
  <2>1. exp[c] = Absent
    BY <1>10 DEF Issue, RotationInv, CallsHoldTokens, InCall
  <2>2. \A t \in Token : exp[t] # Absent => exp'[t] = exp[t]
    BY <1>10, <2>1 DEF Issue, RotationInv, RotationTypeOK
  <2>3. QED
    BY <1>10, <2>2, FrameStep DEF Issue, RotationInv, RotationTypeOK
<1>11. ASSUME NEW c \in Call, CallFails(c) PROVE RotationInv'
  BY <1>11, FrameStep DEF CallFails, RotationInv, RotationTypeOK
<1>12. CASE UNCHANGED rotationVars
  BY <1>12, FrameStep DEF rotationVars, RotationInv, RotationTypeOK
<1>13. QED
  BY <1>1, <1>2, <1>3, <1>4, <1>5, <1>6, <1>7, <1>8, <1>9, <1>10, <1>11,
     <1>12 DEF RotationNext

LEMMA RotationStart == RotationInit => RotationInv
<1> SUFFICES ASSUME RotationInit PROVE RotationInv
  OBVIOUS
<1>1. \A t \in Token : Deniers(t) = {}
  BY DEF RotationInit, Deniers
<1>2. QED
  BY <1>1, TypeStep
     DEF RotationInv, KeyOutlivesCalls, DeniedOncePerLife

\* A refresh token is put on the denylist once in its life, unless Redis lost
\* its key or its last second had come: whatever the number of calls, their
\* interleaving, and the failures of Redis and of the workers.
THEOREM OneDenialPerToken == RotationSpec => []DeniedOncePerLife
<1>1. RotationInv => DeniedOncePerLife
  BY DEF RotationInv
<1>2. QED
  BY <1>1, RotationStart, RotationStep, PTL DEF RotationSpec
-----------------------------------------------------------------------------
\* Only a refresh issues: a logout ends with its denial.
OnlyRefreshIssues ==
  \A c \in Call : step[c] = "issue" \/ exp[c] # Absent => kind[c] = "refresh"

LEMMA IssuerStep ==
  ASSUME RotationInv, OnlyRefreshIssues, [RotationNext]_rotationVars
  PROVE  OnlyRefreshIssues'
<1> USE RotationAssumption
    DEF RotationAssumption, RotationInv, RotationTypeOK, OnlyRefreshIssues, Token, Proceed, End,
        redisVars, callVars
<1>1. CASE Tick \/ RedisStops \/ RedisStarts
  BY <1>1 DEF Tick, RedisStops, RedisStarts
<1>2. ASSUME NEW c \in Call, NEW t \in Held, Present(c, t) PROVE OnlyRefreshIssues'
  BY <1>2 DEF Present
<1>3. ASSUME NEW c \in Call, CheckDenied(c) \/ LoadAnalyst(c) PROVE OnlyRefreshIssues'
  BY <1>3 DEF CheckDenied, LoadAnalyst
<1>4. ASSUME NEW c \in Call, Deny(c) PROVE OnlyRefreshIssues'
  BY <1>4 DEF Deny
<1>5. ASSUME NEW c \in Call, DenyTwice(c) \/ DenyFails(c) \/ CallFails(c)
      PROVE  OnlyRefreshIssues'
  BY <1>5 DEF DenyTwice, DenyFails, CallFails
<1>6. ASSUME NEW c \in Call, Issue(c) PROVE OnlyRefreshIssues'
  BY <1>6 DEF Issue
<1>7. CASE UNCHANGED rotationVars
  BY <1>7 DEF rotationVars
<1>8. QED
  BY <1>1, <1>2, <1>3, <1>4, <1>5, <1>6, <1>7 DEF RotationNext

\* A token that a logout put on the denylist is not exchanged afterwards,
\* unless Redis lost its key or the token was about to expire: whatever
\* overlaps, and whichever workers or connections fail.
THEOREM LogoutIsFinal == RotationSpec => []LoggedOutTokenIsDead
<1>1. RotationInit => RotationInv /\ OnlyRefreshIssues
  <2>1. RotationInit => OnlyRefreshIssues
    BY RotationAssumption DEF RotationInit, OnlyRefreshIssues, RotationAssumption, Token
  <2>2. QED
    BY <2>1, RotationStart
<1>2. RotationInv /\ OnlyRefreshIssues /\ [RotationNext]_rotationVars => RotationInv' /\ OnlyRefreshIssues'
  BY RotationStep, IssuerStep
<1>3. RotationInv /\ OnlyRefreshIssues => LoggedOutTokenIsDead
  <2> SUFFICES ASSUME RotationInv, OnlyRefreshIssues,
                      NEW t \in Token, NEW c \in Deniers(t), NEW d \in Exchangers(t),
                      kind[c] = "logout", t \notin lost, ~InTail(d, t)
               PROVE  at[d] < at[c]
    BY DEF LoggedOutTokenIsDead
  <2>1. c # d
    BY DEF OnlyRefreshIssues, Exchangers, Deniers
  <2>2. InTail(c, t)
    BY <2>1 DEF RotationInv, DeniedOncePerLife, Exchangers
  <2>3. at[c] \in Nat /\ at[d] \in Nat /\ exp[t] \in Nat
    BY DEF RotationInv, RotationTypeOK, CallsHoldTokens, Exchangers, Deniers
  <2>4. QED
    BY <2>2, <2>3 DEF InTail
<1>4. QED
  BY <1>1, <1>2, <1>3, PTL DEF RotationSpec
=============================================================================
