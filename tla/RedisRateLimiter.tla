-------------------------- MODULE RedisRateLimiter --------------------------
(***************************************************************************)
(* ratelimit/redis.RedisRateLimiter: a fixed window counter in Redis,      *)
(* shared by the instances of an application.  The keys of two tenants     *)
(* never meet, so there is one tenant; limitFunc gives it the same quota   *)
(* on every call.                                                          *)
(*                                                                         *)
(* The clock is that of the fastest instance.  An instance whose clock is  *)
(* behind reads an earlier window, as if it had read the clock earlier, so *)
(* the differences between the clocks are part of MaxDelay.                *)
(***************************************************************************)
EXTENDS Integers, FiniteSets

CONSTANTS
    Requests,   \* calls of Allow, on any instance
    Limit,      \* what limitFunc returns: requests
    Window,     \* ... per window, in units of the clock
    Millisecond, \* ... which is finer than the milliseconds of PEXPIRE
    MaxDelay,   \* bound: from time.Now in Allow to the run of its script
    MaxResends, \* bound of the model: commands the Redis client sends again
    MaxTime,    \* bound of the model: the clock
    None

\* Delays longer than a window are left out: Allow gives up on a command after
\* defaultCommandTimeout, 200 ms, and windows are taken to be longer.
ASSUME LimiterAssumption ==
    /\ Limit \in Nat /\ Window \in Nat \ {0} /\ Millisecond \in Nat \ {0} /\ MaxResends \in Nat /\ MaxTime \in Nat
    /\ MaxDelay \in Nat
    /\ IsFiniteSet(Requests)

Times == 0..MaxTime
Windows == 0..(MaxTime \div Window)

VARIABLES
    policy,   \* rl.failurePolicy
    now,
    count,    \* Redis: the counter of each window, 0 when there is no key
    expires,  \* Redis: when the key of a window expires
    call,     \* per request: the call of Allow
    resends,  \* number of commands sent again
    runs      \* history: how often the script ran for a window

vars == <<policy, now, count, expires, call, resends, runs>>

\* A call is denied by the script or refused by the policy.  waiting: a command
\* is on its way to Redis; left: what remains of MaxDelay.
Calls == [pc : {"sent", "allowed", "denied", "refused"}, window : Windows,
          waiting : BOOLEAN, left : 0..MaxDelay]

TypeOK ==
    /\ policy \in {"FailOpen", "FailClosed"}
    /\ now \in Times
    /\ count \in [Windows -> Nat]
    /\ expires \in [Windows -> 0..(MaxTime + Window)]
    /\ call \in [Requests -> Calls \cup {None}]
    /\ resends \in 0..MaxResends
    /\ runs \in [Windows -> Nat]

\* New, with or without WithFailurePolicy.
Init ==
    /\ policy \in {"FailOpen", "FailClosed"}
    /\ now = 0
    /\ count = [w \in Windows |-> 0]
    /\ expires = [w \in Windows |-> 0]
    /\ call = [r \in Requests |-> None]
    /\ resends = 0
    /\ runs = [w \in Windows |-> 0]

Sent(r) == call[r] # None /\ call[r].pc = "sent"

\* A command of this request is on its way to Redis; it may get there after
\* Allow has given up waiting for the answer.
Waiting(r) == call[r] # None /\ call[r].waiting

\* The call of request r, with another pc, command or delay.
Updated(r, pc, waiting, left) ==
    [pc |-> pc, window |-> call[r].window, waiting |-> waiting, left |-> left]

-----------------------------------------------------------------------------
\* Time passes, and Redis deletes the keys that expire.
Tick ==
    /\ now < MaxTime
    /\ \A r \in Requests : Waiting(r) => call[r].left > 0
    /\ now' = now + 1
    /\ count' = [w \in Windows |-> IF expires[w] <= now + 1 THEN 0 ELSE count[w]]
    /\ expires' = [w \in Windows |-> IF expires[w] <= now + 1 THEN 0 ELSE expires[w]]
    /\ call' = [r \in Requests |->
                   IF call[r] # None /\ call[r].left > 0
                   THEN Updated(r, call[r].pc, call[r].waiting, call[r].left - 1)
                   ELSE call[r]]
    /\ UNCHANGED <<policy, resends, runs>>

\* time.Now().Truncate(window): the window's number stands for its start.
Truncate(t) == t \div Window

\* Allow: compute the key, send the script.
Allow(r) ==
    /\ call[r] = None
    /\ call' = [call EXCEPT ![r] = [pc |-> "sent", window |-> Truncate(now),
                                    waiting |-> TRUE, left |-> MaxDelay]]
    /\ UNCHANGED <<policy, now, count, expires, resends, runs>>

\* window.Milliseconds(): what is left of a millisecond is dropped.
TTL == (Window \div Millisecond) * Millisecond

Exceeds_OffByOne(current) == current > Limit + 1
Exceeds_Inclusive(current) == current >= Limit
\* allowScript: current > tonumber(ARGV[2]).
Exceeds(current) == current > Limit

PExpire_WindowTwice(w) ==
    expires' = [expires EXCEPT ![w] = IF count[w] = 0 THEN now + 2 * Window ELSE @]
\* allowScript: the first increment gives the key its time to live.
PExpire(w) == expires' = [expires EXCEPT ![w] = IF count[w] = 0 THEN now + TTL ELSE @]

\* allowScript: INCR; a time to live of 0 deletes the key at once.
Incr(w) == count' = [count EXCEPT ![w] = IF TTL = 0 THEN 0 ELSE @ + 1]

\* allowScript runs, atomically.  Its answer arrives and Allow returns, or the
\* answer is lost, or comes after the timeout.
allowScript(r) ==
    /\ Waiting(r)
    /\ LET w == call[r].window
       IN  /\ Incr(w)
           /\ PExpire(w)
           /\ runs' = [runs EXCEPT ![w] = @ + 1]
           /\ \/ /\ Sent(r)
                 /\ LET pc == IF Exceeds(count[w] + 1) THEN "denied" ELSE "allowed"
                    IN  call' = [call EXCEPT ![r] = Updated(r, pc, FALSE, call[r].left)]
              \/ call' = [call EXCEPT ![r] = Updated(r, call[r].pc, FALSE, call[r].left)]
    /\ UNCHANGED <<policy, now, resends>>

\* The command is lost on its way.
LoseCommand(r) ==
    /\ Waiting(r)
    /\ call' = [call EXCEPT ![r] = Updated(r, call[r].pc, FALSE, call[r].left)]
    /\ UNCHANGED <<policy, now, count, expires, resends, runs>>

\* The Redis client sends a command again when its connection breaks.
Resend(r) ==
    /\ Sent(r) /\ ~Waiting(r) /\ call[r].left > 0
    /\ resends < MaxResends
    /\ resends' = resends + 1
    /\ call' = [call EXCEPT ![r] = Updated(r, "sent", TRUE, call[r].left)]
    /\ UNCHANGED <<policy, now, count, expires, runs>>

\* Allow: an error or the timeout; the script may have run all the same, or may
\* still run.
Failed(r) ==
    /\ Sent(r)
    /\ LET pc == IF policy = "FailOpen" THEN "allowed" ELSE "refused"
       IN  call' = [call EXCEPT ![r] = Updated(r, pc, call[r].waiting, call[r].left)]
    /\ UNCHANGED <<policy, now, count, expires, resends, runs>>

Next ==
    \/ Tick
    \/ \E r \in Requests :
          Allow(r) \/ allowScript(r) \/ LoseCommand(r) \/ Resend(r) \/ Failed(r)

Spec == Init /\ [][Next]_vars

-----------------------------------------------------------------------------
\* The requests of a window that Allow let through.
Allowed(w) == {r \in Requests : call[r] # None /\ call[r].pc = "allowed" /\ call[r].window = w}

\* How many keys of one window can follow each other: each lives for TTL, and
\* scripts for the window run from its start until MaxDelay after its end.
Lives == (Window + MaxDelay - 1) \div TTL + 1

\* With FailClosed, the requests of a window that pass are at most the limit
\* times the number of keys the window can have: two for a window of whole
\* milliseconds that is no shorter than the delay, since its key may expire once
\* while requests that read the clock in the window are on their way.  Commands sent again or carried out
\* after their timeout never let more through.  A window under a millisecond
\* has no budget at all: its key is gone at once.
WindowBudget ==
    policy = "FailClosed" /\ TTL > 0 =>
       \A w \in Windows : Cardinality(Allowed(w)) <= Lives * Limit

\* "at most limit requests per window", as the comment of LimitFunc promises for
\* every window, while Redis answers.
AtMostLimitPerWindow ==
    policy = "FailClosed" => \A w \in Windows : Cardinality(Allowed(w)) <= Limit

\* Redis denies a request only after limit scripts have run for its window, on
\* whatever instance: what other windows have used up does not count, although
\* keys of old windows are still there.
DeniedOnlyWhenSpent ==
    [][\A r \in Requests :
          Sent(r) /\ call'[r].pc = "denied" => runs[call[r].window] >= Limit]_vars

\* Redis does not accumulate keys: the key of a window is gone a window and the
\* delay after the window's end, also when a late command gives it a second life.
KeysExpire == \A w \in Windows : count[w] > 0 => now < (w + 2) * Window + MaxDelay

=============================================================================
