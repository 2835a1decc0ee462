--------------------------- MODULE LapiAuthProofs ---------------------------
(***************************************************************************)
(* Proofs about LapiAuth, for any number of concurrent calls.              *)
(***************************************************************************)
EXTENDS LapiAuth, FiniteSetTheorems, TLAPS

\* A call that sends a token on its retry sends one it got by logging in: only
\* a revocation after that login can make the LAPI refuse it.
RetryIsFresh ==
    \A c \in Calls :
        pc[c] = "requesting" /\ attempt[c] = 1 /\ held[c] # "good" => c \in unlucky

\* Inductive: a retry's token is fresh, so a refused retry blames the route or
\* bad luck, so does the request for a key that follows it.
Inv == TypeOK /\ RetryIsFresh /\ StaleTokenHealed /\ KeyRequestExplained

\* The invariant holds in a client that has just been made.
LEMMA InitInv == Init => Inv
  <1> SUFFICES ASSUME Init PROVE Inv
      OBVIOUS
  <1>1. waiters \in Seq(Calls)
      BY DEF Init
  <1>2. pc \in [Calls -> Steps] /\ attempt \in [Calls -> {0, 1}] /\ held \in [Calls -> Tokens]
      BY DEF Init, Steps, Tokens
  <1>3. TypeOK
      BY <1>1, <1>2 DEF Init, TypeOK, Tokens
  <1>4. RetryIsFresh /\ StaleTokenHealed /\ KeyRequestExplained
      BY DEF Init, RetryIsFresh, StaleTokenHealed, KeyRequestExplained
  <1> QED BY <1>3, <1>4 DEF Inv

\* The two kinds of calls are disjoint, so a decision call asks for decisions.
LEMMA RouteOfDecisions == \A c \in DecisionCalls : Route(c) = "decisions"
  BY CallsAssumption DEF Route

\* What queueing for the lock and leaving the queue make of it.
LEMMA CallsAppend == ASSUME NEW s \in Seq(Calls), NEW c \in Calls
                     PROVE  Append(s, c) \in Seq(Calls)
  OBVIOUS

\* See CallsAppend.
LEMMA CallsTail == ASSUME NEW s \in Seq(Calls), s # <<>>
                   PROVE  Tail(s) \in Seq(Calls)
  OBVIOUS

\* One step per action, one below it per conjunct the action can disturb.
LEMMA StepInv == Inv /\ [Next]_vars => Inv'
  <1> SUFFICES ASSUME Inv, [Next]_vars PROVE Inv'
      OBVIOUS
  <1> USE DEF Inv, lapiVars, tokenVars, lockVars, callVars
  <1>1. CASE CredentialsChange
    <2>1. TypeOK'
        BY <1>1 DEF CredentialsChange, TypeOK, Steps, Tokens
    <2>2. RetryIsFresh'
        BY <1>1 DEF CredentialsChange, RetryIsFresh, TypeOK, Tokens
    <2>3. StaleTokenHealed'
        BY <1>1 DEF CredentialsChange, StaleTokenHealed, RetryIsFresh, TypeOK
    <2>4. KeyRequestExplained'
        BY <1>1 DEF CredentialsChange, KeyRequestExplained, RetryIsFresh, TypeOK
    <2> QED BY <2>1, <2>2, <2>3, <2>4
  <1>2. CASE RevokeTokens
    <2>1. TypeOK'
        BY <1>2 DEF RevokeTokens, Revoked, TypeOK, Steps, Tokens
    <2>2. RetryIsFresh'
        BY <1>2 DEF RevokeTokens, Revoked, RetryIsFresh, TypeOK, Tokens
    <2>3. StaleTokenHealed'
        BY <1>2 DEF RevokeTokens, Revoked, StaleTokenHealed, RetryIsFresh, TypeOK
    <2>4. KeyRequestExplained'
        BY <1>2 DEF RevokeTokens, Revoked, KeyRequestExplained, RetryIsFresh, TypeOK
    <2> QED BY <2>1, <2>2, <2>3, <2>4
  <1>3. CASE TokenAges
    <2>1. TypeOK'
        BY <1>3 DEF TokenAges, TypeOK, Steps, Tokens
    <2>2. RetryIsFresh'
        BY <1>3 DEF TokenAges, RetryIsFresh, TypeOK, Tokens
    <2>3. StaleTokenHealed'
        BY <1>3 DEF TokenAges, StaleTokenHealed, RetryIsFresh, TypeOK
    <2>4. KeyRequestExplained'
        BY <1>3 DEF TokenAges, KeyRequestExplained, RetryIsFresh, TypeOK
    <2> QED BY <2>1, <2>2, <2>3, <2>4
  <1>4. ASSUME NEW c \in Calls, Call(c) PROVE Inv'
    <2>1. TypeOK'
        BY <1>4, CallsAppend DEF Call, Enqueue, TypeOK, Steps, Tokens
    <2>2. RetryIsFresh'
        BY <1>4 DEF Call, Enqueue, RetryIsFresh, TypeOK, Tokens
    <2>3. StaleTokenHealed'
        BY <1>4 DEF Call, Enqueue, StaleTokenHealed, RetryIsFresh, TypeOK
    <2>4. KeyRequestExplained'
        BY <1>4 DEF Call, Enqueue, KeyRequestExplained, RetryIsFresh, TypeOK
    <2> QED BY <2>1, <2>2, <2>3, <2>4
  <1>5. ASSUME NEW c \in Calls, UseCachedToken(c) PROVE Inv'
    <2>1. TypeOK'
        BY <1>5, CallsTail DEF UseCachedToken, MustLogIn, TypeOK, Steps, Tokens
    <2>2. RetryIsFresh'
        BY <1>5 DEF UseCachedToken, MustLogIn, RetryIsFresh, TypeOK, Tokens
    <2>3. StaleTokenHealed'
        BY <1>5 DEF UseCachedToken, MustLogIn, StaleTokenHealed, RetryIsFresh, TypeOK
    <2>4. KeyRequestExplained'
        BY <1>5 DEF UseCachedToken, MustLogIn, KeyRequestExplained, RetryIsFresh, TypeOK
    <2> QED BY <2>1, <2>2, <2>3, <2>4
  <1>6. ASSUME NEW c \in Calls, StartLogin(c) PROVE Inv'
    <2>1. TypeOK'
        BY <1>6, CallsTail DEF StartLogin, TypeOK, Steps, Tokens
    <2>2. RetryIsFresh'
        BY <1>6 DEF StartLogin, RetryIsFresh, TypeOK, Tokens
    <2>3. StaleTokenHealed'
        BY <1>6 DEF StartLogin, StaleTokenHealed, RetryIsFresh, TypeOK
    <2>4. KeyRequestExplained'
        BY <1>6 DEF StartLogin, KeyRequestExplained, RetryIsFresh, TypeOK
    <2> QED BY <2>1, <2>2, <2>3, <2>4
  <1>7. ASSUME NEW c \in Calls, LoginAccepted(c) PROVE Inv'
    <2>1. TypeOK'
        BY <1>7 DEF LoginAccepted, Release, TypeOK, Steps, Tokens
    <2>2. RetryIsFresh'
        BY <1>7 DEF LoginAccepted, Release, RetryIsFresh, TypeOK, Tokens
    <2>3. StaleTokenHealed'
        BY <1>7 DEF LoginAccepted, Release, StaleTokenHealed, RetryIsFresh, TypeOK
    <2>4. KeyRequestExplained'
        BY <1>7 DEF LoginAccepted, Release, KeyRequestExplained, RetryIsFresh, TypeOK
    <2> QED BY <2>1, <2>2, <2>3, <2>4
  <1>8. ASSUME NEW c \in Calls, LoginRejected(c) PROVE Inv'
    <2>1. TypeOK'
        BY <1>8 DEF LoginRejected, Mislead, Mishaps, Release, Refused, FallBack, Finish, TypeOK, Steps, Tokens
    <2>2. RetryIsFresh'
        BY <1>8 DEF LoginRejected, Mislead, Mishaps, Release, Refused, FallBack, Finish, RetryIsFresh, TypeOK, Tokens
    <2>3. StaleTokenHealed'
        BY <1>8 DEF LoginRejected, Mislead, Mishaps, Release, Refused, FallBack, Finish, StaleTokenHealed, RetryIsFresh, TypeOK
    <2>4. KeyRequestExplained'
        BY <1>8 DEF LoginRejected, Mislead, Mishaps, Release, Refused, FallBack, Finish, KeyRequestExplained, RetryIsFresh, TypeOK
    <2> QED BY <2>1, <2>2, <2>3, <2>4
  <1>9. ASSUME NEW c \in Calls, LoginFails(c) PROVE Inv'
    <2>1. TypeOK'
        BY <1>9 DEF LoginFails, Release, Finish, TypeOK, Steps, Tokens
    <2>2. RetryIsFresh'
        BY <1>9 DEF LoginFails, Release, Finish, RetryIsFresh, TypeOK, Tokens
    <2>3. StaleTokenHealed'
        BY <1>9 DEF LoginFails, Release, Finish, StaleTokenHealed, RetryIsFresh, TypeOK
    <2>4. KeyRequestExplained'
        BY <1>9 DEF LoginFails, Release, Finish, KeyRequestExplained, RetryIsFresh, TypeOK
    <2> QED BY <2>1, <2>2, <2>3, <2>4
  <1>10. ASSUME NEW c \in Calls, RequestServed(c) PROVE Inv'
    <2>1. TypeOK'
        BY <1>10 DEF RequestServed, Finish, TypeOK, Steps, Tokens
    <2>2. RetryIsFresh'
        BY <1>10 DEF RequestServed, Finish, RetryIsFresh, TypeOK, Tokens
    <2>3. StaleTokenHealed'
        BY <1>10 DEF RequestServed, Finish, StaleTokenHealed, RetryIsFresh, TypeOK
    <2>4. KeyRequestExplained'
        BY <1>10 DEF RequestServed, Finish, KeyRequestExplained, RetryIsFresh, TypeOK
    <2> QED BY <2>1, <2>2, <2>3, <2>4
  <1>11. ASSUME NEW c \in Calls, RequestNotFound(c) PROVE Inv'
    <2>1. TypeOK'
        BY <1>11 DEF RequestNotFound, FallBack, Finish, Accepted, TypeOK, Steps, Tokens
    <2>2. RetryIsFresh'
        BY <1>11 DEF RequestNotFound, FallBack, Finish, Accepted, RetryIsFresh, TypeOK, Tokens
    <2>3. StaleTokenHealed'
        BY <1>11 DEF RequestNotFound, FallBack, Finish, Accepted, StaleTokenHealed, RetryIsFresh, TypeOK
    <2>4. KeyRequestExplained'
        BY <1>11 DEF RequestNotFound, FallBack, Finish, Accepted, KeyRequestExplained, RetryIsFresh, TypeOK
    <2> QED BY <2>1, <2>2, <2>3, <2>4
  <1>12. ASSUME NEW c \in Calls, RequestRefused(c) PROVE Inv'
    <2>1. TypeOK'
        BY <1>12, CallsAppend DEF RequestRefused, Enqueue, TypeOK, Steps, Tokens
    <2>2. RetryIsFresh'
        BY <1>12 DEF RequestRefused, Enqueue, RetryIsFresh, TypeOK, Tokens
    <2>3. StaleTokenHealed'
        BY <1>12 DEF RequestRefused, Enqueue, StaleTokenHealed, RetryIsFresh, TypeOK
    <2>4. KeyRequestExplained'
        BY <1>12 DEF RequestRefused, Enqueue, KeyRequestExplained, RetryIsFresh, TypeOK
    <2> QED BY <2>1, <2>2, <2>3, <2>4
  <1>13. ASSUME NEW c \in Calls, RequestDenied(c) PROVE Inv'
    <2>1. TypeOK'
        BY <1>13 DEF RequestDenied, Mislead, Mishaps, Refused, FallBack, Finish, Accepted, TypeOK, Steps, Tokens
    <2>2. RetryIsFresh'
        BY <1>13 DEF RequestDenied, Mislead, Mishaps, Refused, FallBack, Finish, Accepted, RetryIsFresh, TypeOK, Tokens
    <2>3. StaleTokenHealed'
        BY <1>13 DEF RequestDenied, Mislead, Mishaps, Refused, FallBack, Finish, Accepted, StaleTokenHealed, RetryIsFresh, TypeOK
    <2>4. KeyRequestExplained'
        BY <1>13, RouteOfDecisions DEF RequestDenied, Mislead, Mishaps, Refused, FallBack, Finish, Accepted, KeyRequestExplained, RetryIsFresh, TypeOK
    <2> QED BY <2>1, <2>2, <2>3, <2>4
  <1>14. ASSUME NEW c \in Calls, RequestFails(c) PROVE Inv'
    <2>1. TypeOK'
        BY <1>14 DEF RequestFails, Finish, TypeOK, Steps, Tokens
    <2>2. RetryIsFresh'
        BY <1>14 DEF RequestFails, Finish, RetryIsFresh, TypeOK, Tokens
    <2>3. StaleTokenHealed'
        BY <1>14 DEF RequestFails, Finish, StaleTokenHealed, RetryIsFresh, TypeOK
    <2>4. KeyRequestExplained'
        BY <1>14 DEF RequestFails, Finish, KeyRequestExplained, RetryIsFresh, TypeOK
    <2> QED BY <2>1, <2>2, <2>3, <2>4
  <1>15. ASSUME NEW c \in Calls, BouncerAnswers(c) PROVE Inv'
    <2>1. TypeOK'
        BY <1>15 DEF BouncerAnswers, Finish, TypeOK, Steps, Tokens
    <2>2. RetryIsFresh'
        BY <1>15 DEF BouncerAnswers, Finish, RetryIsFresh, TypeOK, Tokens
    <2>3. StaleTokenHealed'
        BY <1>15 DEF BouncerAnswers, Finish, StaleTokenHealed, RetryIsFresh, TypeOK
    <2>4. KeyRequestExplained'
        BY <1>15 DEF BouncerAnswers, Finish, KeyRequestExplained, RetryIsFresh, TypeOK
    <2> QED BY <2>1, <2>2, <2>3, <2>4
  <1>16. ASSUME NEW c \in Calls, RequestServedNull(c) PROVE Inv'
    <2>1. TypeOK'
        BY <1>16 DEF RequestServedNull, FallBack, Finish, Mislead, Mishaps, TypeOK, Steps, Tokens
    <2>2. RetryIsFresh'
        BY <1>16 DEF RequestServedNull, FallBack, Finish, RetryIsFresh, TypeOK, Tokens
    <2>3. StaleTokenHealed'
        BY <1>16 DEF RequestServedNull, FallBack, Finish, StaleTokenHealed, RetryIsFresh, TypeOK
    <2>4. KeyRequestExplained'
        BY <1>16 DEF RequestServedNull, FallBack, Finish, Mislead, KeyRequestExplained, TypeOK
    <2> QED BY <2>1, <2>2, <2>3, <2>4
  <1>17. CASE UNCHANGED vars
    BY <1>17 DEF vars, TypeOK, RetryIsFresh, StaleTokenHealed, KeyRequestExplained
  <1> QED
    BY <1>1, <1>2, <1>3, <1>4, <1>5, <1>6, <1>7, <1>8, <1>9, <1>10, <1>11, <1>12, <1>13, <1>14, <1>15, <1>16, <1>17 DEF Next, Advance

-----------------------------------------------------------------------------
(* The lock *)

\* The queue of the lock holds the calls that wait, each of them once.
QueueInv ==
    /\ \A i \in 1 .. Len(waiters) : pc[waiters[i]] = "waiting"
    /\ \A c \in Calls : pc[c] = "waiting" => \E i \in 1 .. Len(waiters) : waiters[i] = c
    /\ \A i, j \in 1 .. Len(waiters) : waiters[i] = waiters[j] => i = j

HolderInv == \A c \in Calls : pc[c] = "login" <=> holder = c

LockInv == QueueInv /\ HolderInv

\* As far as the lock is concerned a call does one of four things.
Joins(c) ==
    /\ pc[c] \notin {"waiting", "login"} /\ pc' = [pc EXCEPT ![c] = "waiting"]
    /\ waiters' = Append(waiters, c) /\ holder' = holder

Leaves(c, to) ==
    /\ holder = Nobody /\ waiters # <<>> /\ c = Head(waiters)
    /\ pc' = [pc EXCEPT ![c] = to]
    /\ waiters' = Tail(waiters) /\ holder' = IF to = "login" THEN c ELSE Nobody

LogsIn(c, to) ==
    /\ pc[c] = "login" /\ pc' = [pc EXCEPT ![c] = to]
    /\ waiters' = waiters /\ holder' = Nobody

MovesOn(c, to) ==
    /\ pc[c] \in {"requesting", "bouncer"} /\ pc' = [pc EXCEPT ![c] = to]
    /\ waiters' = waiters /\ holder' = holder

Elsewhere == {"idle", "requesting", "bouncer"}

\* Every step of a call is one of the four.
LEMMA StepKind ==
    ASSUME TypeOK, NEW c \in Calls, Call(c) \/ Advance(c)
    PROVE  \/ Joins(c)
           \/ Leaves(c, "requesting") \/ Leaves(c, "login")
           \/ \E to \in Elsewhere : LogsIn(c, to) \/ MovesOn(c, to)
<1> USE DEF lapiVars, tokenVars, lockVars, Elsewhere
<1>1. CASE Call(c)
  BY <1>1 DEF Call, Enqueue, Joins
<1>2. CASE UseCachedToken(c)
  BY <1>2 DEF UseCachedToken, Leaves
<1>3. CASE StartLogin(c)
  BY <1>3 DEF StartLogin, Leaves
<1>4. CASE LoginAccepted(c)
  BY <1>4 DEF LoginAccepted, Release, LogsIn
<1>5. CASE LoginRejected(c) \/ LoginFails(c)
  BY <1>5 DEF LoginRejected, LoginFails, Release, Refused, FallBack, Finish, LogsIn
<1>6. CASE RequestServed(c) \/ RequestFails(c) \/ BouncerAnswers(c)
  BY <1>6 DEF RequestServed, RequestFails, BouncerAnswers, Finish, MovesOn
<1>7. CASE RequestServedNull(c) \/ RequestNotFound(c) \/ RequestDenied(c)
  BY <1>7
  DEF RequestServedNull, RequestNotFound, RequestDenied, Refused, FallBack, Finish, MovesOn
<1>8. CASE RequestRefused(c)
  BY <1>8 DEF RequestRefused, Enqueue, Joins
<1>9. QED
  BY <1>1, <1>2, <1>3, <1>4, <1>5, <1>6, <1>7, <1>8 DEF Advance

LEMMA JoinKeeps ==
    ASSUME TypeOK, LockInv, NEW c \in Calls, Joins(c)
    PROVE  LockInv'
<1>1. /\ waiters \in Seq(Calls) /\ pc \in [Calls -> Steps]
      /\ pc' = [pc EXCEPT ![c] = "waiting"] /\ pc[c] # "waiting" /\ pc[c] # "login"
      /\ holder' = holder
  BY DEF Joins, TypeOK
<1>2. /\ Len(waiters') = Len(waiters) + 1 /\ Len(waiters) \in Nat
      /\ waiters'[Len(waiters) + 1] = c
      /\ \A i \in 1 .. Len(waiters) : waiters'[i] = waiters[i] /\ waiters[i] \in Calls
  BY <1>1 DEF Joins
<1>3. \A i \in 1 .. Len(waiters) : waiters[i] # c
  BY <1>1 DEF LockInv, QueueInv
<1>4. QueueInv'
  <2>1. \A i \in 1 .. Len(waiters') : i \in 1 .. Len(waiters) \/ i = Len(waiters) + 1
    BY <1>2
  <2>2. \A i \in 1 .. Len(waiters') : pc'[waiters'[i]] = "waiting"
    BY <1>1, <1>2, <2>1 DEF LockInv, QueueInv
  <2>3. ASSUME NEW d \in Calls, pc'[d] = "waiting"
        PROVE  \E i \in 1 .. Len(waiters') : waiters'[i] = d
    <3>1. CASE d = c
      <4>1. Len(waiters) + 1 \in 1 .. Len(waiters')
        BY <1>2
      <4>2. QED
        BY <1>2, <3>1, <4>1
    <3>2. CASE d # c
      <4>1. PICK i \in 1 .. Len(waiters) : waiters[i] = d
        BY <1>1, <2>3, <3>2 DEF LockInv, QueueInv
      <4>2. i \in 1 .. Len(waiters') /\ waiters'[i] = d
        BY <1>2, <4>1
      <4>3. QED
        BY <4>2
    <3>3. QED
      BY <3>1, <3>2
  <2>4. \A i, j \in 1 .. Len(waiters') : waiters'[i] = waiters'[j] => i = j
    BY <1>2, <1>3, <2>1 DEF LockInv, QueueInv
  <2>5. QED
    BY <2>2, <2>3, <2>4 DEF QueueInv
<1>5. HolderInv'
  BY <1>1 DEF LockInv, HolderInv
<1>6. QED
  BY <1>4, <1>5 DEF LockInv

LEMMA LeaveKeeps ==
    ASSUME TypeOK, LockInv, NEW c \in Calls, NEW to \in {"requesting", "login"}, Leaves(c, to)
    PROVE  LockInv'
<1>1. /\ waiters \in Seq(Calls) /\ waiters # <<>> /\ pc \in [Calls -> Steps]
      /\ pc' = [pc EXCEPT ![c] = to] /\ waiters' = Tail(waiters) /\ c = Head(waiters)
      /\ holder = Nobody /\ holder' = IF to = "login" THEN c ELSE Nobody
  BY DEF Leaves, TypeOK
<1>2. /\ Len(waiters) \in Nat /\ Len(waiters) > 0 /\ waiters[1] = c
      /\ Len(waiters') = Len(waiters) - 1
      /\ \A i \in 1 .. Len(waiters') : waiters'[i] = waiters[i + 1]
      /\ \A i \in 1 .. Len(waiters) : waiters[i] \in Calls
  BY <1>1
<1>3. \A i \in 1 .. Len(waiters') :
          i + 1 \in 1 .. Len(waiters) /\ waiters'[i] # c /\ waiters'[i] \in Calls
  BY <1>2 DEF LockInv, QueueInv
<1>4. QueueInv'
  <2>1. \A i \in 1 .. Len(waiters') : pc'[waiters'[i]] = "waiting"
    BY <1>1, <1>2, <1>3 DEF LockInv, QueueInv
  <2>2. ASSUME NEW d \in Calls, pc'[d] = "waiting"
        PROVE  \E i \in 1 .. Len(waiters') : waiters'[i] = d
    <3>1. d # c /\ pc[d] = "waiting"
      BY <1>1, <2>2
    <3>2. PICK i \in 1 .. Len(waiters) : waiters[i] = d
      BY <3>1 DEF LockInv, QueueInv
    <3>3. i - 1 \in 1 .. Len(waiters') /\ waiters'[i - 1] = d
      BY <1>2, <3>1, <3>2
    <3>4. QED
      BY <3>3
  <2>3. ASSUME NEW i \in 1 .. Len(waiters'), NEW j \in 1 .. Len(waiters'),
               waiters'[i] = waiters'[j]
        PROVE  i = j
    <3>1. i + 1 \in 1 .. Len(waiters) /\ j + 1 \in 1 .. Len(waiters)
          /\ waiters[i + 1] = waiters[j + 1]
      BY <1>2, <1>3, <2>3
    <3>2. i + 1 = j + 1
      BY <3>1 DEF LockInv, QueueInv
    <3>3. QED
      BY <3>2
  <2>4. QED
    BY <2>1, <2>2, <2>3 DEF QueueInv
<1>5. HolderInv'
  <2>1. \A d \in Calls : pc[d] # "login"
    BY <1>1, NobodyAssumption DEF LockInv, HolderInv
  <2>2. QED
    BY <1>1, <2>1, NobodyAssumption DEF HolderInv
<1>6. QED
  BY <1>4, <1>5 DEF LockInv

LEMMA OthersKeep ==
    ASSUME TypeOK, LockInv, NEW c \in Calls, NEW to \in Elsewhere,
           LogsIn(c, to) \/ MovesOn(c, to)
    PROVE  LockInv'
<1>1. /\ waiters' = waiters /\ waiters \in Seq(Calls) /\ pc \in [Calls -> Steps]
      /\ pc' = [pc EXCEPT ![c] = to] /\ pc[c] # "waiting"
      /\ to \notin {"waiting", "login"}
  BY DEF LogsIn, MovesOn, Elsewhere, TypeOK
<1>2. \A i \in 1 .. Len(waiters) : waiters[i] \in Calls
  BY <1>1
<1>3. QueueInv'
  BY <1>1, <1>2 DEF LockInv, QueueInv
<1>4. HolderInv'
  <2>1. CASE LogsIn(c, to)
    BY <1>1, <2>1, NobodyAssumption DEF LogsIn, LockInv, HolderInv
  <2>2. CASE MovesOn(c, to)
    BY <1>1, <2>2 DEF MovesOn, LockInv, HolderInv
  <2>3. QED
    BY <2>1, <2>2
<1>5. QED
  BY <1>3, <1>4 DEF LockInv

LEMMA LockStep == TypeOK /\ LockInv /\ [Next]_vars => LockInv'
<1> SUFFICES ASSUME TypeOK, LockInv, [Next]_vars PROVE LockInv'
  OBVIOUS
<1>1. ASSUME NEW c \in Calls, Call(c) \/ Advance(c) PROVE LockInv'
  BY <1>1, StepKind, JoinKeeps, LeaveKeeps, OthersKeep
<1>2. CASE UNCHANGED <<pc, waiters, holder>>
  BY <1>2 DEF LockInv, QueueInv, HolderInv
<1>3. QED
  BY <1>1, <1>2 DEF Next, CredentialsChange, RevokeTokens, TokenAges, vars, callVars, lockVars

LEMMA LockInit == Init => LockInv
  BY NobodyAssumption DEF Init, LockInv, QueueInv, HolderInv

\* A call that waits has one place in the queue, the others have none.
LEMMA PlacesAre ==
    ASSUME TypeOK, QueueInv, NEW c \in Calls
    PROVE  Cardinality({i \in 1 .. Len(waiters) : waiters[i] = c})
             = IF pc[c] = "waiting" THEN 1 ELSE 0
<1> DEFINE places == {i \in 1 .. Len(waiters) : waiters[i] = c}
<1>1. CASE pc[c] = "waiting"
  <2>1. PICK i \in 1 .. Len(waiters) : waiters[i] = c
    BY <1>1 DEF QueueInv
  <2>2. places = {i}
    BY <2>1 DEF QueueInv
  <2>3. QED
    BY <1>1, <2>2, FS_Singleton
<1>2. CASE pc[c] # "waiting"
  <2>1. places = {}
    BY <1>2 DEF QueueInv
  <2>2. QED
    BY <1>2, <2>1, FS_EmptySet
<1>3. QED
  BY <1>1, <1>2

-----------------------------------------------------------------------------
\* The inductive invariant holds in every reachable state of the client.
THEOREM Invariance == Spec => []Inv
  BY InitInv, StepInv, PTL DEF Spec

\* Every reachable state has its type (_async_token, _async_lapi_request and
\* _async_decisions), whatever the calls and however they interleave.
THEOREM TypeCorrect == Spec => []TypeOK
  <1>1. Inv => TypeOK
      BY DEF Inv
  <1> QED BY <1>1, Invariance, PTL

\* However many calls lose one token together, none of them ends with "denies
\* the route despite a valid token" unless the route is denied, or the LAPI
\* revoked the fresh token before its first use (the retry in
\* _async_lapi_request).
THEOREM StaleTokensHeal == Spec => []StaleTokenHealed
  <1>1. Inv => StaleTokenHealed
      BY DEF Inv
  <1> QED BY <1>1, Invariance, PTL

\* decisions_need_bouncer_key, which every decision query writes, is up only
\* without a key and only for a cause that still stands: a route that is not
\* served, or a mishap since a decision query was last served more than null
\* (_async_decisions).
THEOREM KeyRequestsAreExplained == Spec => []KeyRequestExplained
  <1>1. Inv => KeyRequestExplained
      BY DEF Inv
  <1> QED BY <1>1, Invariance, PTL

\* The lock is held by the call that logs in, and every call that waits for it
\* stands in its queue once: none is forgotten, none is woken twice.
THEOREM LockStaysConsistent == Spec => []LockConsistent
  <1>1. TypeOK /\ LockInv => LockConsistent
      BY PlacesAre DEF LockInv, HolderInv, LockConsistent
  <1>2. Inv => TypeOK
      BY DEF Inv
  <1> QED BY <1>1, <1>2, LockInit, LockStep, Invariance, PTL DEF Spec

=============================================================================
