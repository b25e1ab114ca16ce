----------------------------- MODULE RateLimit -----------------------------
(***************************************************************************)
(* RateLimitGuard in front of request-nonce and verify-signature, the      *)
(* RateLimiterService it asks, and the key that rate-limiter-flexible      *)
(* keeps in Redis for one client address.  Both endpoints, and all clients *)
(* behind one address, share the key.                                      *)
(*                                                                         *)
(* The library is external: its script creates the key with its expiry if  *)
(* it is not there and increments it in one go, and the request that is    *)
(* the first over the limit then writes the key once more, with the block  *)
(* duration for its expiry, before it is refused.                          *)
(***************************************************************************)
EXTENDS Naturals, FiniteSets

CONSTANTS
    Requests,       \* requests from one address
    Points,         \* RL_POINTS
    Duration,       \* RL_DURATION
    BlockDuration,  \* RL_BLOCK_DURATION
    MaxTime,        \* bound: the clock
    MaxFaults       \* bound: calls to Redis that reject

\* The README has 100 points, 60 seconds and a block of 600: a block is never
\* shorter than the window it ends.
ASSUME RateLimitAssumption ==
    /\ Points \in Nat \ {0}
    /\ Duration \in Nat \ {0}
    /\ BlockDuration \in Nat
    /\ BlockDuration = 0 \/ BlockDuration >= Duration
    /\ MaxTime \in Nat
    /\ MaxFaults \in Nat
    /\ IsFiniteSet(Requests)

VARIABLES
    now,        \* the clock of Redis
    consumed,   \* the key: how many requests it counts, and
    expires,    \*   when it goes away
    at,         \* where each request stands
    when,       \* history: when a request was counted,
    blocked,    \*   and when it wrote the block
    faults      \* rejected calls so far

vars == <<now, consumed, expires, at, when, blocked, faults>>

\* "increment" and "block" are calls to Redis; a refused request is answered
\* 'Rate limit exceeded', an admitted one goes on to its controller.
Running == {"increment", "block"}
Decided == {"admitted", "refused"}

Times == 0..MaxTime
Never == MaxTime + 1

TypeOK ==
    /\ now \in Times
    /\ consumed \in Nat
    /\ expires \in Nat
    /\ at \in [Requests -> {"unsent"} \union Running \union Decided]
    /\ when \in [Requests -> Times \union {Never}]
    /\ blocked \in [Requests -> Times \union {Never}]
    /\ faults \in 0..MaxFaults

Init ==
    /\ now = 0 /\ consumed = 0 /\ expires = 0 /\ faults = 0
    /\ at = [r \in Requests |-> "unsent"]
    /\ when = [r \in Requests |-> Never]
    /\ blocked = [r \in Requests |-> Never]

Goto(r, label) == at' = [at EXCEPT ![r] = label]

-----------------------------------------------------------------------------

\* Requests that have not been sent are not told apart.
CanActivate(r) ==
    /\ at[r] = "unsent"
    /\ r = CHOOSE q \in Requests : at[q] = "unsent"
    /\ Goto(r, "increment")
    /\ UNCHANGED <<now, consumed, expires, when, blocked, faults>>

\* Slip: a key is never gone.
CountedForever == consumed

\* An expired key counts nothing.
Counted == IF now < expires THEN consumed ELSE 0

\* The library's script.
Increment ==
    /\ consumed' = Counted + 1
    /\ expires' = IF now < expires THEN expires ELSE now + Duration

\* Slip: one request more than there are points.
VerdictOneMore(n) ==
    IF n <= Points + 1 THEN "admitted"
    ELSE IF BlockDuration > 0 /\ n = Points + 2 THEN "block" ELSE "refused"

\* Slip: a request over the limit is refused and that is all.
VerdictNoBlock(n) == IF n <= Points THEN "admitted" ELSE "refused"

\* What becomes of a request that was counted as the n-th.
Verdict(n) ==
    IF n <= Points THEN "admitted"
    ELSE IF BlockDuration > 0 /\ n = Points + 1 THEN "block" ELSE "refused"

Consume(r) ==
    /\ at[r] = "increment"
    /\ Increment
    /\ Goto(r, Verdict(Counted + 1))
    /\ when' = [when EXCEPT ![r] = now]
    /\ UNCHANGED <<now, blocked, faults>>

\* Slip: the block is added to a key that may be gone by then.
BlockIfAlive(r) ==
    /\ at[r] = "block"
    /\ expires' = IF now < expires THEN now + BlockDuration ELSE expires
    /\ blocked' = [blocked EXCEPT ![r] = now]
    /\ Goto(r, "refused")
    /\ UNCHANGED <<now, consumed, when, faults>>

\* The key is set to the count the request was given.
Block(r) ==
    /\ at[r] = "block"
    /\ consumed' = Points + 1
    /\ expires' = now + BlockDuration
    /\ blocked' = [blocked EXCEPT ![r] = now]
    /\ Goto(r, "refused")
    /\ UNCHANGED <<now, when, faults>>

\* Slip: whoever catches the error resets the key.
CallRejectsResets(r) ==
    /\ at[r] \in Running
    /\ faults < MaxFaults
    /\ faults' = faults + 1
    /\ consumed' = 0
    /\ Goto(r, "refused")
    /\ UNCHANGED <<now, expires, when, blocked>>

\* The service makes one error of all, and the guard one answer.
CallRejects(r) ==
    /\ at[r] \in Running
    /\ faults < MaxFaults
    /\ faults' = faults + 1
    /\ Goto(r, "refused")
    /\ UNCHANGED <<now, consumed, expires, when, blocked>>

Tick ==
    /\ now < MaxTime
    /\ now' = now + 1
    /\ UNCHANGED <<consumed, expires, at, when, blocked, faults>>

Handle(r) == Consume(r) \/ Block(r)

Next ==
    \/ \E r \in Requests : CanActivate(r) \/ Handle(r) \/ CallRejects(r)
    \/ Tick

Spec == Init /\ [][Next]_vars

-----------------------------------------------------------------------------
(* Properties                                                              *)

CountedIn(S, from, to) ==
    Cardinality({r \in S : when[r] # Never /\ from <= when[r] /\ when[r] < to})

Admitted == {r \in Requests : at[r] = "admitted"}

\* In no stretch of time as long as a window are more than two budgets let in,
\* whatever blocks and failures fall into it: windows are fixed, so two of
\* them can meet.
TwoBudgetsAtMost ==
    \A t \in Times : CountedIn(Admitted, t, t + Duration) <= 2 * Points

\* A block that was written lasts: nobody gets in while it does, although the
\* window it ends, and requests already counted, may end within it.
BlockStands ==
    \A r \in Requests : blocked[r] # Never =>
        ~\E q \in Admitted : blocked[r] < when[q] /\ when[q] < blocked[r] + BlockDuration

\* What shuts a request out until z: the window it fell into, in which there
\* were more than Points, or a block.
ShutUntil(r, z) ==
    \/ \E t \in Times : /\ t + Duration = z /\ t <= when[r] /\ when[r] < z
                        /\ CountedIn(Requests, t, z) > Points
    \/ \E b \in Requests : /\ blocked[b] + BlockDuration = z
                           /\ blocked[b] <= when[r] /\ when[r] < z

Ends == 0..(Never + Duration + BlockDuration)

\* Refused, or about to be, for having been one too many.
OverLimit == {r \in Requests : at[r] # "admitted" /\ when[r] # Never}

\* Refused without having been counted.
Uncounted == {r \in Requests : at[r] = "refused" /\ when[r] = Never}

\* A request is refused for a reason, and a call to Redis that rejects costs
\* its own request at most, whatever was under way at the time.
RefusedForReason ==
    /\ \A r \in OverLimit : \E z \in Ends : ShutUntil(r, z)
    /\ Cardinality(Uncounted) <= faults

\* The limit does not hang on the block.  After a request over the limit nobody
\* gets in before the window that was over the limit, or a block, has ended,
\* also when the only request that would write a block is rejected on its way
\* to it.
ShutOutLasts ==
    \A r \in OverLimit, q \in Admitted :
        when[r] < when[q] => \E z \in Ends : ShutUntil(r, z) /\ z <= when[q]

\* Who goes over the limit is shut out: when all requests are answered, and
\* none was rejected by Redis, some request has written a block since.
OverLimitBlocks ==
    (\A r \in Requests : at[r] \notin Running) /\ faults = 0 /\ BlockDuration > 0 =>
        \A r \in Requests : at[r] = "refused" =>
            \E b \in Requests : blocked[b] # Never
                                /\ when[r] < blocked[b] + BlockDuration

\* While a block that was written lasts, the key is there and over the limit.
BlockCounts ==
    \A r \in Requests : blocked[r] # Never /\ now < blocked[r] + BlockDuration =>
        consumed > Points /\ blocked[r] + BlockDuration <= expires

\* What was counted or written was so by now.
PastIsPast ==
    /\ \A r \in Admitted : when[r] <= now
    /\ \A r \in Requests : blocked[r] # Never => blocked[r] <= now

BlockInv == TypeOK /\ PastIsPast /\ BlockCounts /\ BlockStands

\* A key that no block has touched goes away at the end of its window, and a
\* block leaves no key that would have stayed longer.
KeyLasts ==
    /\ \A r \in Admitted : when[r] < expires
    /\ consumed <= Points => expires <= now + Duration
    /\ BlockDuration > 0 => expires <= now + BlockDuration
    /\ \A r \in Requests : at[r] = "block" => BlockDuration > 0

\* The last window let in no more than it counted, and not more than a budget,
\* and so did what precedes it by a window's length.
WindowBudget ==
    /\ \A t \in Times : t + Duration >= expires =>
        CountedIn(Admitted, t, Never) <= Points /\ CountedIn(Admitted, t, Never) <= consumed
    /\ \A t, w \in Times : consumed <= Points /\ w + Duration = expires /\ t + Duration >= w =>
        CountedIn(Admitted, t, w) <= Points

\* A key that is there counts the requests of its window, or is a block's.
KeyCounts ==
    now < expires =>
        \/ \E w \in Times : /\ w <= now /\ w + Duration = expires
                            /\ CountedIn(Requests, w, expires) >= consumed
        \/ \E b \in Requests : blocked[b] <= now /\ blocked[b] + BlockDuration = expires

\* Requests are counted when they are sent, and only those that were refused
\* have written a block.
Counts ==
    \A r \in Requests :
        /\ at[r] \in {"unsent", "increment"} => when[r] = Never
        /\ at[r] = "block" => when[r] # Never
        /\ when[r] # Never => when[r] <= now
        /\ at[r] # "refused" => blocked[r] = Never

\* What shuts a request out is the key, for as long as it lasts.
KeyShuts ==
    \A r \in OverLimit : \E z \in Ends :
        ShutUntil(r, z) /\ (now < z => consumed > Points /\ z <= expires)

\* Until somebody's block covers what is over the limit, somebody is about to
\* write one.
BlockComes ==
    faults = 0 /\ BlockDuration > 0 /\ (\A b \in Requests : at[b] # "block") =>
        /\ now < expires /\ consumed > Points =>
            \E b \in Requests : blocked[b] # Never /\ expires <= blocked[b] + BlockDuration
        /\ \A r \in Requests : at[r] = "refused" =>
            \E b \in Requests : blocked[b] # Never /\ when[r] < blocked[b] + BlockDuration

\* The inductive invariant: the key and the history say the same.
LimitInv ==
    /\ BlockInv
    /\ KeyLasts /\ WindowBudget /\ TwoBudgetsAtMost
    /\ KeyCounts /\ Counts /\ BlockComes
    /\ KeyShuts /\ ShutOutLasts /\ Cardinality(Uncounted) <= faults

=============================================================================
