------------------------------ MODULE LapiAuth ------------------------------
(***************************************************************************)
(* The machine token one client shares among its concurrent LAPI calls:    *)
(* the login under a lock, the one retry after a refusal, and the fallback *)
(* of decision queries to the bouncer key.                                 *)
(*                                                                         *)
(* A call is a task with a pc, one step per await.  What the LAPI makes of *)
(* a token is abstracted to whether it still accepts it ("good") or not    *)
(* ("stale": it restarted or dropped the session).                         *)
(***************************************************************************)
EXTENDS Naturals, Sequences, FiniteSets

CONSTANTS
    AlertCalls,     \* tasks that ask for alerts
    DecisionCalls   \* tasks that ask for decisions: the poll, an IP lookup

ASSUME CallsAssumption == AlertCalls \cap DecisionCalls = {}

Calls == AlertCalls \cup DecisionCalls
Route(c) == IF c \in AlertCalls THEN "alerts" ELSE "decisions"

\* How the LAPI treats a route that a machine token asks for.  Every version has
\* the alerts; not every one has the decisions for a machine.
Modes == {"serves", "denies", "missing"}
Tokens == {"none", "good", "stale"}
Steps == {"idle", "waiting", "login", "requesting", "bouncer"}
Nobody == "nobody"      \* not a task

\* What looks like a closed route and is none: a rejected login or a token revoked
\* twice in a row ("refused"), and a 200 whose JSON body is null.
Mishaps == {"refused", "null"}

ASSUME NobodyAssumption == Nobody \notin Calls

VARIABLES
    credentials,    \* the LAPI accepts the machine credentials
    mode,           \* how the LAPI treats the two routes
    hasKey,         \* a bouncer key is configured
    token,          \* _token
    aged,           \* _token_expires less the margin has passed
    holder,         \* who holds _login_lock
    waiters,        \* who waits for it: asyncio's lock is first come first served
    pc, attempt,    \* of every call
    held,           \* the token a call sends
    denied,         \* calls that ended with "denies the route despite a valid token"
    needKey,        \* decisions_need_bouncer_key
    unlucky,        \* history: calls whose fresh token was revoked before its use
    misled          \* history: what has misled a decision query without a key
                    \* since decisions were last served; see Mishaps

lapiVars == <<credentials, mode, hasKey>>
tokenVars == <<token, aged>>
lockVars == <<holder, waiters>>
callVars == <<pc, attempt, held, denied>>
vars == <<lapiVars, tokenVars, lockVars, callVars, needKey, unlucky, misled>>

Init ==
    /\ credentials = TRUE
    /\ mode \in {m \in [{"alerts", "decisions"} -> Modes] : m["alerts"] # "missing"}
    /\ hasKey \in BOOLEAN
    /\ token = "none" /\ aged = FALSE
    /\ holder = Nobody /\ waiters = <<>>
    /\ pc = [c \in Calls |-> "idle"]
    /\ attempt = [c \in Calls |-> 0]
    /\ held = [c \in Calls |-> "none"]
    /\ denied = {}
    /\ needKey = FALSE
    /\ unlucky = {} /\ misled = {}

-----------------------------------------------------------------------------
(* The LAPI *)

CredentialsChange ==
    /\ credentials' = ~credentials
    /\ UNCHANGED <<mode, hasKey, tokenVars, lockVars, callVars, needKey, unlucky, misled>>

Revoked(t) == IF t = "good" THEN "stale" ELSE t

RevokeTokens ==
    /\ token' = Revoked(token)
    /\ held' = [c \in Calls |-> Revoked(held[c])]
    /\ unlucky' = unlucky \cup {c \in Calls : pc[c] = "requesting" /\ attempt[c] = 1}
    /\ UNCHANGED <<lapiVars, aged, lockVars, pc, attempt, denied, needKey, misled>>

TokenAges ==
    /\ token # "none"
    /\ aged' = TRUE
    /\ UNCHANGED <<lapiVars, token, lockVars, callVars, needKey, unlucky, misled>>

-----------------------------------------------------------------------------
(* The end of _async_lapi_request *)

\* The call of c is over; what it held is forgotten.
Finish(c) ==
    /\ pc' = [pc EXCEPT ![c] = "idle"]
    /\ attempt' = [attempt EXCEPT ![c] = 0]
    /\ held' = [held EXCEPT ![c] = "none"]

\* _async_decisions takes over: with a bouncer key it tries again with that,
\* without one it gives up and asks for a key.
FallBack(c) ==
    IF hasKey
    THEN /\ pc' = [pc EXCEPT ![c] = "bouncer"]
         /\ attempt' = [attempt EXCEPT ![c] = 0]
         /\ held' = [held EXCEPT ![c] = "none"]
         /\ UNCHANGED needKey
    ELSE /\ Finish(c)
         /\ needKey' = TRUE

\* A decision query that has no bouncer key to fall back to is misled.
Mislead(c, what) ==
    misled' = IF c \in DecisionCalls /\ ~hasKey THEN misled \cup {what} ELSE misled

\* An auth error of the machine path: _async_decisions catches every one.
Refused(c) ==
    IF c \in DecisionCalls
    THEN FallBack(c)
    ELSE Finish(c) /\ UNCHANGED needKey

-----------------------------------------------------------------------------
(* _async_token *)

Enqueue(c) == waiters' = Append(waiters, c)

Call(c) ==
    /\ pc[c] = "idle"
    /\ pc' = [pc EXCEPT ![c] = "waiting"]
    /\ denied' = denied \ {c}
    /\ unlucky' = unlucky \ {c}
    /\ Enqueue(c)
    /\ UNCHANGED <<lapiVars, tokenVars, holder, attempt, held, needKey, misled>>

\* Mutant: a retry is content with the token that was just refused.
MustLogInLazy(c) == token = "none" \/ aged

\* force=attempt > 0
MustLogIn(c) == attempt[c] > 0 \/ token = "none" \/ aged

\* Without a login there is no await under the lock: it is free again at once.
UseCachedToken(c) ==
    /\ holder = Nobody /\ waiters # <<>> /\ c = Head(waiters)
    /\ ~MustLogIn(c)
    /\ waiters' = Tail(waiters)
    /\ pc' = [pc EXCEPT ![c] = "requesting"]
    /\ held' = [held EXCEPT ![c] = token]
    /\ UNCHANGED <<lapiVars, tokenVars, holder, attempt, denied, needKey, unlucky, misled>>

StartLogin(c) ==
    /\ holder = Nobody /\ waiters # <<>> /\ c = Head(waiters)
    /\ MustLogIn(c)
    /\ waiters' = Tail(waiters)
    /\ holder' = c
    /\ pc' = [pc EXCEPT ![c] = "login"]
    /\ UNCHANGED <<lapiVars, tokenVars, attempt, held, denied, needKey, unlucky, misled>>

\* Mutant: only a login that works out gives the lock back.
ReleaseOnSuccess(success) == holder' = IF success THEN Nobody ELSE holder

\* `async with` gives the lock back however the login ends.
Release(success) == holder' = Nobody

LoginAccepted(c) ==
    /\ pc[c] = "login" /\ credentials
    /\ token' = "good" /\ aged' = FALSE
    /\ pc' = [pc EXCEPT ![c] = "requesting"]
    /\ held' = [held EXCEPT ![c] = "good"]
    /\ Release(TRUE)
    /\ UNCHANGED <<lapiVars, waiters, attempt, denied, needKey, unlucky, misled>>

LoginRejected(c) ==
    /\ pc[c] = "login" /\ ~credentials
    /\ Refused(c)
    /\ Mislead(c, "refused")
    /\ Release(FALSE)
    /\ UNCHANGED <<lapiVars, tokenVars, waiters, denied, unlucky>>

\* A timeout, a closed connection, an answer that is no login.
LoginFails(c) ==
    /\ pc[c] = "login"
    /\ Finish(c)
    /\ Release(FALSE)
    /\ UNCHANGED <<lapiVars, tokenVars, waiters, needKey, denied, unlucky, misled>>

-----------------------------------------------------------------------------
(* _async_lapi_request *)

Accepted(c) == held[c] = "good" /\ mode[Route(c)] # "denies"

\* Mutant: a served decision query leaves the request for a key standing.
RequestServedKeepsFlag(c) ==
    /\ pc[c] = "requesting" /\ Accepted(c) /\ mode[Route(c)] = "serves"
    /\ Finish(c)
    /\ misled' = IF c \in DecisionCalls THEN {} ELSE misled
    /\ UNCHANGED <<lapiVars, tokenVars, lockVars, needKey, denied, unlucky>>

\* The body is not null.  It may still turn out not to be an array; the flag is
\* down by then.
RequestServed(c) ==
    /\ pc[c] = "requesting" /\ Accepted(c) /\ mode[Route(c)] = "serves"
    /\ Finish(c)
    /\ needKey' = (needKey /\ c \notin DecisionCalls)
    /\ misled' = IF c \in DecisionCalls THEN {} ELSE misled
    /\ UNCHANGED <<lapiVars, tokenVars, lockVars, denied, unlucky>>

\* A 200 without decisions, its body null: to `data is None` this is a 404.
RequestServedNull(c) ==
    /\ c \in DecisionCalls
    /\ pc[c] = "requesting" /\ Accepted(c) /\ mode["decisions"] = "serves"
    /\ FallBack(c)
    /\ Mislead(c, "null")
    /\ UNCHANGED <<lapiVars, tokenVars, lockVars, denied, unlucky>>

\* A 404: this version serves the decisions to bouncers only.
RequestNotFound(c) ==
    /\ c \in DecisionCalls
    /\ pc[c] = "requesting" /\ Accepted(c) /\ mode["decisions"] = "missing"
    /\ FallBack(c)
    /\ UNCHANGED <<lapiVars, tokenVars, lockVars, denied, unlucky, misled>>

\* Mutant: every refusal is answered by one more login.
RequestRefusedForever(c) ==
    /\ pc[c] = "requesting" /\ ~Accepted(c)
    /\ pc' = [pc EXCEPT ![c] = "waiting"]
    /\ attempt' = [attempt EXCEPT ![c] = @ + 1]
    /\ held' = [held EXCEPT ![c] = "none"]
    /\ Enqueue(c)
    /\ UNCHANGED <<lapiVars, tokenVars, holder, denied, needKey, unlucky, misled>>

\* The first refusal: log in again, whatever _token holds by now.
RequestRefused(c) ==
    /\ pc[c] = "requesting" /\ ~Accepted(c) /\ attempt[c] = 0
    /\ pc' = [pc EXCEPT ![c] = "waiting"]
    /\ attempt' = [attempt EXCEPT ![c] = 1]
    /\ held' = [held EXCEPT ![c] = "none"]
    /\ Enqueue(c)
    /\ UNCHANGED <<lapiVars, tokenVars, holder, denied, needKey, unlucky, misled>>

\* "LAPI denies ... despite a valid token"
RequestDenied(c) ==
    /\ pc[c] = "requesting" /\ ~Accepted(c) /\ attempt[c] = 1
    /\ Refused(c)
    /\ denied' = denied \cup {c}
    /\ IF c \in unlucky THEN Mislead(c, "refused") ELSE UNCHANGED misled
    /\ UNCHANGED <<lapiVars, tokenVars, lockVars, unlucky>>

RequestFails(c) ==
    /\ pc[c] = "requesting"
    /\ Finish(c)
    /\ UNCHANGED <<lapiVars, tokenVars, lockVars, needKey, denied, unlucky, misled>>

\* _async_bouncer_decisions: 200, 404, 401 or 403, anything else.
BouncerAnswers(c) ==
    /\ pc[c] = "bouncer"
    /\ Finish(c)
    /\ UNCHANGED <<lapiVars, tokenVars, lockVars, needKey, denied, unlucky, misled>>

Advance(c) ==
    \/ UseCachedToken(c)
    \/ StartLogin(c)
    \/ LoginAccepted(c)
    \/ LoginRejected(c)
    \/ LoginFails(c)
    \/ RequestServed(c)
    \/ RequestServedNull(c)
    \/ RequestNotFound(c)
    \/ RequestRefused(c)
    \/ RequestDenied(c)
    \/ RequestFails(c)
    \/ BouncerAnswers(c)

Next ==
    \/ CredentialsChange
    \/ RevokeTokens
    \/ TokenAges
    \/ \E c \in Calls : Call(c) \/ Advance(c)

Spec == Init /\ [][Next]_vars

\* Every request ends, with an answer or with ClientTimeout(total), and the
\* event loop resumes every task that can go on.
FairSpec == Spec /\ \A c \in Calls : WF_vars(Advance(c))

-----------------------------------------------------------------------------
(* Properties *)

\* The type invariant.
TypeOK ==
    /\ credentials \in BOOLEAN /\ hasKey \in BOOLEAN
    /\ mode \in [{"alerts", "decisions"} -> Modes]
    /\ token \in Tokens /\ aged \in BOOLEAN
    /\ holder \in Calls \cup {Nobody}
    /\ waiters \in Seq(Calls)
    /\ pc \in [Calls -> Steps]
    /\ attempt \in [Calls -> {0, 1}]
    /\ held \in [Calls -> Tokens]
    /\ denied \in SUBSET Calls
    /\ needKey \in BOOLEAN
    /\ unlucky \in SUBSET Calls /\ misled \in SUBSET Mishaps

\* The lock and the tasks agree: a task that logs in holds the lock, a task
\* that waits stands in the queue exactly once, and nobody else does either.
LockConsistent ==
    /\ \A c \in Calls : pc[c] = "login" <=> holder = c
    /\ \A c \in Calls :
          Cardinality({i \in 1 .. Len(waiters) : waiters[i] = c})
              = IF pc[c] = "waiting" THEN 1 ELSE 0

\* A token that merely went stale on the LAPI's side never surfaces as a denied
\* route: the retry heals it, however many calls lost the token together.  Only
\* a token revoked once more between the retry's login and its use can.
StaleTokenHealed ==
    \A c \in Calls :
        c \in denied => mode[Route(c)] = "denies" \/ c \in unlucky

\* decisions_need_bouncer_key, shared by the poll and every IP lookup, is raised
\* only without a key, and where the route is served it never outlives the
\* mishap that raised it: the next decision query that is served more than null,
\* whoever makes it and however the others end, takes it down.  The mishaps are a
\* rejected login, a token revoked twice in a row and an answer that is null,
\* never a token that merely went stale.
KeyRequestExplained ==
    needKey => ~hasKey /\ (mode["decisions"] # "serves" \/ misled # {})

\* Every call comes to an end: no order of logins, failures and retries leaves
\* one waiting for the lock.
EveryCallEnds == \A c \in Calls : pc[c] # "idle" ~> pc[c] = "idle"

=============================================================================
