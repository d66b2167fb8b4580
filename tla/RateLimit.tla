----------------------------- MODULE RateLimit -----------------------------
(***************************************************************************)
(* The sign-in rate limit: one token bucket for one caller, kept in Redis   *)
(* and spent by a Lua script (packages/redis/src/rate-limit.ts), or kept in *)
(* the memory of one process (apps/api/src/rate-limit.ts).  Both refill by  *)
(* the caller's clock; instances need not agree on the time.  Redis forgets *)
(* a bucket a window after its last use; the process forgets, when it       *)
(* sweeps, one whose time lies a window back.  A Redis that does not answer *)
(* lets the request through, outside what the bucket promises.              *)
(*                                                                          *)
(* Tokens are counted in units of 1/WINDOW of a token, so that the refill   *)
(* of elapsed * limit / window tokens is an integer.                        *)
(***************************************************************************)
EXTENDS Integers, FiniteSetsExt

CONSTANTS
    Instances,      \* the processes that charge this caller's requests
    Skew,           \* how far each one's clock is ahead of the true time
    LIMIT,          \* AUTH_RATE_LIMIT_REQUESTS
    WINDOW,         \* AUTH_RATE_LIMIT_WINDOW_MS
    MaxRateTime     \* bound: the true time

ASSUME RateAssumption ==
    /\ LIMIT \in Nat \ {0} /\ WINDOW \in Nat \ {0}
    /\ Skew \in [Instances -> Int] /\ MaxRateTime \in Nat

VARIABLES
    trueTime,   \* the true time
    bucket,     \* [tokens, at], or NoBucket
    touched,    \* the true time of the last charge: PEXPIRE counts from it
    granted     \* how many requests were let through, and since when

rateVars == <<trueTime, bucket, touched, granted>>

NoBucket == [tokens |-> -1, at |-> 0]
Full(at) == [tokens |-> LIMIT * WINDOW, at |-> at]

RateInit == trueTime = 0 /\ bucket = NoBucket /\ touched = 0 /\ granted = [count |-> 0, since |-> 0]

\* Mutant: the instant a bucket is refilled up to is not moved on.
RefilledFromTheStart(b, now) ==
    [b EXCEPT !.tokens = Min({LIMIT * WINDOW, b.tokens + (now - b.at) * LIMIT})]

\* SPEND, spend: refilled up to now; a clock behind the bucket refills nothing.
Refilled(b, now) ==
    IF now > b.at
    THEN [tokens |-> Min({LIMIT * WINDOW, b.tokens + (now - b.at) * LIMIT}), at |-> now]
    ELSE b

\* check: one charge by one instance, at its own clock.
check(i) ==
    LET now == trueTime + Skew[i]
        b == Refilled(IF bucket = NoBucket THEN Full(now) ELSE bucket, now)
        pass == b.tokens >= WINDOW
    IN  /\ bucket' = IF pass THEN [b EXCEPT !.tokens = @ - WINDOW] ELSE b
        /\ granted' = IF pass THEN [granted EXCEPT !.count = @ + 1] ELSE granted
        /\ touched' = trueTime
        /\ UNCHANGED trueTime

\* PEXPIRE, or memoryRateLimit's sweep: a bucket untouched for a window goes.
Expire ==
    /\ bucket # NoBucket /\ trueTime - touched >= WINDOW
    /\ bucket' = NoBucket
    /\ UNCHANGED <<trueTime, touched, granted>>

RateTick == trueTime < MaxRateTime /\ trueTime' = trueTime + 1 /\ UNCHANGED <<bucket, touched, granted>>

\* The observer starts a new count at any time.
Observe ==
    /\ granted.count > 0 /\ granted.since < trueTime
    /\ granted' = [count |-> 0, since |-> trueTime]
    /\ UNCHANGED <<trueTime, bucket, touched>>

RateNext == RateTick \/ Expire \/ Observe \/ \E i \in Instances : check(i)

RateSpec == RateInit /\ [][RateNext]_rateVars

ClocksAgree == \A i \in Instances : Skew[i] = 0

\* Over any stretch of true time a caller is let through at most the limit and
\* what the bucket refills meanwhile: sweeping, expiring and restarting a
\* bucket never add to that.  It holds when the instances' clocks agree; one
\* that is ahead refills a bucket early (redis/src/rate-limit.ts:26-30).
RateIsKept == granted.count * WINDOW <= LIMIT * WINDOW + (trueTime - granted.since) * LIMIT
=============================================================================
