-------------------------- MODULE RateLimitProofs --------------------------
(* What the limiter promises, for any limit, window, block and faults: that *)
(* a written block stands, how many get in, and why others do not.          *)
EXTENDS RateLimit, FiniteSetTheorems, TLAPS

\* The key is over the limit, and there, while a block lasts: a request that
\* is counted meanwhile does not get in.
LEMMA NoAdmissionInBlock ==
    ASSUME BlockInv, NEW b \in Requests, blocked[b] # Never, now < blocked[b] + BlockDuration
    PROVE  /\ Counted = consumed /\ now < expires
           /\ Verdict(Counted + 1) # "admitted"
<1> USE RateLimitAssumption
<1>1. /\ consumed > Points /\ blocked[b] + BlockDuration <= expires
      /\ now \in Nat /\ expires \in Nat /\ consumed \in Nat
      /\ blocked[b] \in Nat /\ BlockDuration \in Nat /\ Points \in Nat
  BY DEF BlockInv, BlockCounts, TypeOK, Times, Never
<1>2. now < expires
  BY <1>1
<1> QED
  BY <1>1, <1>2 DEF Counted, Verdict

\* Initially nothing is counted and nothing blocked.
LEMMA InitBlocks == Init => BlockInv
<1> SUFFICES ASSUME Init PROVE BlockInv
  OBVIOUS
<1> USE RateLimitAssumption DEF Init
<1>1. TypeOK
  BY DEF TypeOK, Times, Never, Running, Decided
<1>2. PastIsPast /\ BlockStands /\ BlockCounts
  BY DEF PastIsPast, BlockStands, BlockCounts, Admitted
<1> QED
  BY <1>1, <1>2 DEF BlockInv

\* A step that lets nobody in, and touches neither the key nor the clock.
LEMMA QuietStepBlocks ==
    ASSUME BlockInv, NEW r \in Requests,
           NEW label \in Running \union {"refused"}, Goto(r, label),
           UNCHANGED <<now, consumed, expires, when, blocked>>, faults' \in 0..MaxFaults
    PROVE  BlockInv'
<1>1. TypeOK'
  BY DEF BlockInv, TypeOK, Goto, Running, Decided
<1>2. Admitted' \subseteq Admitted
  BY DEF BlockInv, TypeOK, Goto, Admitted, Running
<1>3. Counted' = Counted /\ Never' = Never
  BY DEF Counted, Never
<1> QED
  BY <1>1, <1>2, <1>3 DEF BlockInv, PastIsPast, BlockCounts, BlockStands

\* A request is counted: it is let in only while no block lasts.
LEMMA ConsumeBlocks ==
    ASSUME BlockInv, NEW r \in Requests, Consume(r)
    PROVE  BlockInv'
<1> USE RateLimitAssumption
<1> DEFINE label == Verdict(Counted + 1)
<1>1. /\ label \in {"admitted", "block", "refused"}
      /\ consumed' = Counted + 1 /\ Counted \in Nat /\ expires' \in Nat
      /\ now \in Nat /\ now \in Times /\ Times \subseteq Nat /\ Never \notin Times
  BY DEF Consume, Increment, Counted, Verdict, BlockInv, TypeOK, Times, Never
<1>2. TypeOK'
  BY <1>1 DEF BlockInv, TypeOK, Consume, Goto, Running, Decided
<1>3. /\ Admitted' \subseteq Admitted \union {r}
      /\ r \in Admitted' => label = "admitted"
      /\ r \notin Admitted
      /\ when'[r] = now /\ \A q \in Requests \ {r} : when'[q] = when[q]
  BY DEF BlockInv, TypeOK, Consume, Goto, Admitted
<1>4. PastIsPast'
  BY <1>1, <1>3 DEF BlockInv, PastIsPast, Consume, Admitted
<1>5. BlockCounts'
  <2> SUFFICES ASSUME NEW b \in Requests, blocked[b] # Never, now < blocked[b] + BlockDuration
               PROVE  consumed' > Points /\ blocked[b] + BlockDuration <= expires'
    BY DEF BlockCounts, Consume
  <2>1. Counted = consumed /\ now < expires
    BY NoAdmissionInBlock
  <2>2. consumed > Points /\ blocked[b] + BlockDuration <= expires
    BY DEF BlockInv, BlockCounts
  <2> QED
    BY <1>1, <2>1, <2>2 DEF Consume, Increment
<1>6. BlockStands'
  <2> SUFFICES ASSUME NEW b \in Requests, blocked[b] # Never, NEW q \in Admitted',
                      blocked[b] < when'[q], when'[q] < blocked[b] + BlockDuration
               PROVE  FALSE
    BY DEF BlockStands, Consume
  <2>1. CASE q = r
    BY <1>3, <2>1, NoAdmissionInBlock
  <2>2. CASE q # r
    BY <1>3, <2>2 DEF BlockInv, BlockStands, Admitted
  <2> QED
    BY <2>1, <2>2
<1> QED
  BY <1>2, <1>4, <1>5, <1>6 DEF BlockInv

\* A block is written: everybody let in so far was let in before.
LEMMA BlockBlocks ==
    ASSUME BlockInv, NEW r \in Requests, Block(r)
    PROVE  BlockInv'
<1> USE RateLimitAssumption
<1>1. /\ now \in Nat /\ now \in Times /\ Points + 1 \in Nat /\ now + BlockDuration \in Nat
      /\ blocked \in [Requests -> Times \union {Never}] /\ Times \subseteq Nat /\ Never \in Nat
      /\ when \in [Requests -> Times \union {Never}] /\ BlockDuration \in Nat
  BY DEF BlockInv, TypeOK, Times, Never
<1>2. TypeOK'
  BY <1>1 DEF BlockInv, TypeOK, Block, Goto, Running, Decided
<1>3. Admitted' = Admitted
  BY DEF BlockInv, TypeOK, Block, Goto, Admitted
<1>4. blocked'[r] = now /\ \A b \in Requests \ {r} : blocked'[b] = blocked[b]
  BY DEF BlockInv, TypeOK, Block
<1>5. PastIsPast'
  <2>1. \A q \in Admitted' : when'[q] <= now'
    BY <1>3 DEF BlockInv, PastIsPast, Block
  <2>2. \A b \in Requests : blocked'[b] # Never' => blocked'[b] <= now'
    BY <1>1, <1>4 DEF BlockInv, PastIsPast, Block, Never
  <2> QED
    BY <2>1, <2>2 DEF PastIsPast
<1>6. BlockCounts'
  <2> SUFFICES ASSUME NEW b \in Requests, blocked'[b] # Never
               PROVE  Points + 1 > Points /\ blocked'[b] + BlockDuration <= now + BlockDuration
    BY DEF BlockCounts, Block
  <2>1. blocked'[b] \in Nat
    BY <1>1, <1>4
  <2>2. blocked'[b] <= now
    BY <1>5 DEF PastIsPast, Block, Never
  <2> QED
    BY <1>1, <2>1, <2>2
<1>7. BlockStands'
  <2> SUFFICES ASSUME NEW b \in Requests, blocked'[b] # Never, NEW q \in Admitted,
                      blocked'[b] < when[q], when[q] < blocked'[b] + BlockDuration
               PROVE  FALSE
    BY <1>3 DEF BlockStands, Block
  <2>1. CASE b = r
    <3>1. when[q] <= now /\ when[q] \in Nat
      BY <1>1 DEF BlockInv, PastIsPast, Admitted
    <3> QED
      BY <1>1, <1>4, <2>1, <3>1
  <2>2. CASE b # r
    BY <1>4, <2>2 DEF BlockInv, BlockStands
  <2> QED
    BY <2>1, <2>2
<1> QED
  BY <1>2, <1>5, <1>6, <1>7 DEF BlockInv

\* Time passes.
LEMMA TickBlocks == ASSUME BlockInv, Tick PROVE BlockInv'
<1>1. now' = now + 1 /\ now \in Nat /\ now' \in Times
  BY RateLimitAssumption DEF BlockInv, TypeOK, Tick, Times
<1>2. /\ when \in [Requests -> Nat] /\ blocked \in [Requests -> Nat]
      /\ Admitted' = Admitted /\ BlockDuration \in Nat
  BY RateLimitAssumption DEF BlockInv, TypeOK, Tick, Times, Never, Admitted
<1>3. TypeOK'
  BY <1>1 DEF BlockInv, TypeOK, Tick
<1>4. PastIsPast'
  BY <1>1, <1>2 DEF BlockInv, PastIsPast, Tick, Admitted
<1>5. BlockCounts'
  BY <1>1, <1>2 DEF BlockInv, BlockCounts, Tick
<1>6. BlockStands'
  BY <1>2 DEF BlockInv, BlockStands, Tick
<1> QED
  BY <1>3, <1>4, <1>5, <1>6 DEF BlockInv

LEMMA StepBlocks == BlockInv /\ [Next]_vars => BlockInv'
<1> SUFFICES ASSUME BlockInv, [Next]_vars PROVE BlockInv'
  OBVIOUS
<1>1. ASSUME NEW r \in Requests, CanActivate(r) PROVE BlockInv'
  BY <1>1, QuietStepBlocks DEF CanActivate, Running, BlockInv, TypeOK
<1>2. ASSUME NEW r \in Requests, CallRejects(r) PROVE BlockInv'
  <2>1. faults' \in 0..MaxFaults
    BY <1>2, RateLimitAssumption DEF CallRejects, BlockInv, TypeOK
  <2> QED
    BY <1>2, <2>1, QuietStepBlocks DEF CallRejects
<1>3. CASE UNCHANGED vars
  BY <1>3 DEF vars, BlockInv, TypeOK, PastIsPast, BlockCounts, BlockStands, Admitted
<1> QED
  BY <1>1, <1>2, <1>3, ConsumeBlocks, BlockBlocks, TickBlocks DEF Next, Handle

-----------------------------------------------------------------------------
(* Counting requests                                                       *)

\* The requests that CountedIn counts.
Those(S, from, to) ==
    {r \in S : when[r] # Never /\ from <= when[r] /\ when[r] < to}

\* The sets that are counted are finite, and a smaller one counts less.
LEMMA Smaller ==
    ASSUME NEW X \in SUBSET Requests, NEW Y \in SUBSET X
    PROVE  /\ IsFiniteSet(X) /\ Cardinality(X) \in Nat /\ Cardinality(Y) \in Nat
           /\ Cardinality(Y) <= Cardinality(X)
<1>1. IsFiniteSet(X) /\ IsFiniteSet(Y)
  BY RateLimitAssumption, FS_Subset
<1> QED
  BY <1>1, FS_Subset, FS_CardinalityType

LEMMA OneMore ==
    ASSUME NEW X \in SUBSET Requests, NEW r \in Requests, NEW Y \in SUBSET (X \union {r})
    PROVE  Cardinality(Y) <= Cardinality(X) + 1
<1>1. IsFiniteSet(X) /\ Cardinality(X) \in Nat
  BY Smaller
<1>2. /\ Cardinality(X \union {r}) <= Cardinality(X) + 1
      /\ X \union {r} \in SUBSET Requests /\ Cardinality(X \union {r}) \in Nat
  BY <1>1, FS_AddElement
<1>3. Cardinality(Y) \in Nat /\ Cardinality(Y) <= Cardinality(X \union {r})
  BY <1>2, Smaller
<1> QED
  BY <1>1, <1>2, <1>3

LEMMA Joined ==
    ASSUME NEW X \in SUBSET Requests, NEW Z \in SUBSET Requests
    PROVE  /\ X \union Z \in SUBSET Requests
           /\ Cardinality(X \union Z) <= Cardinality(X) + Cardinality(Z)
<1>1. /\ IsFiniteSet(X) /\ IsFiniteSet(Z) /\ IsFiniteSet(X \cap Z)
      /\ Cardinality(X) \in Nat /\ Cardinality(Z) \in Nat /\ Cardinality(X \cap Z) \in Nat
  BY Smaller
<1>2. Cardinality(X \union Z) = Cardinality(X) + Cardinality(Z) - Cardinality(X \cap Z)
  BY <1>1, FS_Union
<1> QED
  BY <1>1, <1>2

LEMMA Counts0 ==
    ASSUME NEW S \in SUBSET Requests, NEW from, NEW to
    PROVE  /\ CountedIn(S, from, to) = Cardinality(Those(S, from, to))
           /\ Those(S, from, to) \in SUBSET Requests
           /\ CountedIn(S, from, to) \in Nat
<1>1. Those(S, from, to) \in SUBSET Requests
  BY DEF Those
<1>2. Cardinality(Those(S, from, to)) \in Nat
  BY <1>1, Smaller
<1> QED
  BY <1>1, <1>2 DEF CountedIn, Those

\* The types of the variables and constants, over the numbers.
LEMMA Typed ==
    ASSUME BlockInv
    PROVE  /\ now \in Times /\ now \in Nat /\ consumed \in Nat /\ expires \in Nat
           /\ faults \in Nat
           /\ Times \subseteq Nat /\ Never \in Nat /\ \A t \in Times : t < Never
           /\ Duration \in Nat /\ Duration > 0 /\ BlockDuration \in Nat
           /\ BlockDuration > 0 => BlockDuration >= Duration
           /\ Points \in Nat /\ Points > 0
           /\ \A r \in Requests : when[r] \in Nat /\ when[r] \in Times \union {Never}
           /\ \A r \in Requests : blocked[r] \in Nat /\ blocked[r] \in Times \union {Never}
           /\ Admitted \in SUBSET Requests
           /\ \A r \in Admitted : when[r] # Never /\ when[r] <= now
<1>1. /\ now \in Times /\ now \in Nat /\ consumed \in Nat /\ expires \in Nat
      /\ Times \subseteq Nat /\ Never \in Nat /\ \A t \in Times : t < Never
  BY RateLimitAssumption DEF BlockInv, TypeOK, Times, Never
<1>2. /\ \A r \in Requests : when[r] \in Nat /\ when[r] \in Times \union {Never}
      /\ \A r \in Requests : blocked[r] \in Nat /\ blocked[r] \in Times \union {Never}
  BY <1>1 DEF BlockInv, TypeOK
<1>3. Admitted \in SUBSET Requests
  BY DEF Admitted
<1>4. \A r \in Admitted : when[r] # Never /\ when[r] <= now
  BY <1>1, <1>2, <1>3 DEF BlockInv, PastIsPast
<1>5. faults \in Nat
  BY RateLimitAssumption DEF BlockInv, TypeOK
<1> QED
  BY <1>1, <1>2, <1>3, <1>4, <1>5, RateLimitAssumption

\* A reason is one for good.
LEMMA ReasonStays ==
    ASSUME BlockInv, NEW r \in Requests, when[r] # Never, NEW z \in Nat, ShutUntil(r, z),
           \A q \in Requests : when[q] # Never => when'[q] = when[q],
           \A q \in Requests : blocked[q] # Never => blocked'[q] = blocked[q]
    PROVE  ShutUntil(r, z)'
<1>1. CASE \E t \in Times : /\ t + Duration = z /\ t <= when[r] /\ when[r] < z
                            /\ CountedIn(Requests, t, z) > Points
  <2>1. PICK t \in Times : /\ t + Duration = z /\ t <= when[r] /\ when[r] < z
                           /\ CountedIn(Requests, t, z) > Points
    BY <1>1
  <2> DEFINE X == Those(Requests, t, z)
             Y == Those(Requests, t, z)'
  <2>2. X \subseteq Y /\ Y \in SUBSET Requests
    BY DEF Those, Never
  <2>3. CountedIn(Requests, t, z)' = Cardinality(Y)
    BY DEF CountedIn, Those
  <2>4. CountedIn(Requests, t, z) = Cardinality(X)
    BY DEF CountedIn, Those
  <2> HIDE DEF X, Y
  <2>5. Cardinality(X) <= Cardinality(Y) /\ Cardinality(X) \in Nat /\ Cardinality(Y) \in Nat
    BY <2>2, Smaller
  <2>6. CountedIn(Requests, t, z)' > Points
    BY <2>1, <2>3, <2>4, <2>5, Typed
  <2> QED
    BY <2>1, <2>6 DEF ShutUntil
<1>2. CASE \E b \in Requests : /\ blocked[b] + BlockDuration = z
                               /\ blocked[b] <= when[r] /\ when[r] < z
  <2>1. PICK b \in Requests : /\ blocked[b] + BlockDuration = z
                              /\ blocked[b] <= when[r] /\ when[r] < z
    BY <1>2
  <2>2. blocked[b] # Never
    BY <2>1, Typed
  <2> QED
    BY <2>1, <2>2 DEF ShutUntil
<1> QED
  BY <1>1, <1>2 DEF ShutUntil

\* A step that counts nobody and shortens nothing leaves shut out whoever was.
LEMMA ShutStays ==
    ASSUME LimitInv, BlockInv', UNCHANGED when, Admitted' = Admitted, OverLimit' = OverLimit,
           \A q \in Requests : blocked[q] # Never => blocked'[q] = blocked[q],
           now <= now', expires <= expires', consumed > Points => consumed' > Points
    PROVE  KeyShuts' /\ ShutOutLasts'
<1>1. BlockInv /\ OverLimit \in SUBSET Requests /\ Ends' = Ends
  BY DEF LimitInv, OverLimit, Ends, Never
<1>2. /\ now \in Nat /\ now' \in Nat /\ expires \in Nat /\ expires' \in Nat
      /\ Ends \subseteq Nat
  BY <1>1, Typed, RateLimitAssumption DEF BlockInv, TypeOK, Ends, Times
<1>3. ASSUME NEW r \in OverLimit, NEW z \in Ends, ShutUntil(r, z)
      PROVE  ShutUntil(r, z)'
  <2>1. r \in Requests /\ when[r] # Never /\ z \in Nat
    BY <1>2 DEF OverLimit
  <2> QED
    BY <1>1, <1>3, <2>1, ReasonStays
<1>4. KeyShuts'
  <2> SUFFICES ASSUME NEW r \in OverLimit
               PROVE  \E z \in Ends : /\ ShutUntil(r, z)'
                                      /\ now' < z => consumed' > Points /\ z <= expires'
    BY <1>1 DEF KeyShuts
  <2>1. PICK z \in Ends : ShutUntil(r, z) /\ (now < z => consumed > Points /\ z <= expires)
    BY DEF LimitInv, KeyShuts
  <2>2. now' < z => consumed' > Points /\ z <= expires'
    BY <1>2, <2>1
  <2> QED
    BY <1>3, <2>1, <2>2
<1>5. ShutOutLasts'
  <2> SUFFICES ASSUME NEW r \in OverLimit, NEW q \in Admitted, when[r] < when[q]
               PROVE  \E z \in Ends : ShutUntil(r, z)' /\ z <= when[q]
    BY <1>1 DEF ShutOutLasts
  <2>1. PICK z \in Ends : ShutUntil(r, z) /\ z <= when[q]
    BY DEF LimitInv, ShutOutLasts
  <2> QED
    BY <1>3, <2>1
<1> QED
  BY <1>4, <1>5

\* As long as nothing was rejected, all that were refused were counted.
LEMMA NoneUncounted ==
    ASSUME LimitInv, faults = 0
    PROVE  \A q \in Requests : at[q] = "refused" => when[q] # Never /\ when[q] <= now
<1>1. Uncounted \in SUBSET Requests
  BY DEF Uncounted
<1>2. IsFiniteSet(Uncounted) /\ Cardinality(Uncounted) \in Nat
  BY <1>1, Smaller
<1>3. Cardinality(Uncounted) = 0
  BY <1>2 DEF LimitInv
<1>4. Uncounted = {}
  BY <1>2, <1>3, FS_EmptySet
<1> QED
  BY <1>4 DEF Uncounted, LimitInv, Counts

\* A request that is counted now adds to every stretch of time around it.
LEMMA CountedMore ==
    ASSUME BlockInv, NEW r \in Requests, when[r] = Never, when'[r] = now,
           \A q \in Requests \ {r} : when'[q] = when[q],
           NEW from \in Nat, NEW to \in Nat, from <= now, now < to
    PROVE  LET later == {q \in Requests : when'[q] # Never /\ from <= when'[q] /\ when'[q] < to}
           IN  /\ Cardinality(later) >= CountedIn(Requests, from, to) + 1
               /\ Cardinality(later) \in Nat /\ CountedIn(Requests, from, to) \in Nat
<1> DEFINE X == Those(Requests, from, to)
           Y == {q \in Requests : when'[q] # Never /\ from <= when'[q] /\ when'[q] < to}
<1>1. CountedIn(Requests, from, to) = Cardinality(X) /\ X \in SUBSET Requests
  BY DEF CountedIn, Those
<1>2. r \notin X
  BY DEF Those
<1>3. X \union {r} \subseteq Y
  BY Typed DEF Those
<1>4. Y \in SUBSET Requests
  OBVIOUS
<1> HIDE DEF X, Y
<1>5. Cardinality(X \union {r}) = Cardinality(X) + 1 /\ Cardinality(X) \in Nat
  BY <1>1, <1>2, Smaller, FS_AddElement
<1>6. Cardinality(X \union {r}) <= Cardinality(Y) /\ Cardinality(Y) \in Nat
  BY <1>3, <1>4, Smaller
<1>7. Cardinality(Y) >= CountedIn(Requests, from, to) + 1
  BY <1>1, <1>5, <1>6
<1> QED
  BY <1>1, <1>5, <1>6, <1>7 DEF Y

-----------------------------------------------------------------------------
(* The key and the history say the same                                    *)

LEMMA InitEstablishes == Init => LimitInv
<1> SUFFICES ASSUME Init PROVE LimitInv
  OBVIOUS
<1>1. BlockInv
  BY InitBlocks
<1>2. Admitted = {}
  BY DEF Init, Admitted
<1>3. \A t, u \in Nat : CountedIn(Admitted, t, u) = 0
  BY <1>2, FS_EmptySet DEF CountedIn
<1>4. Points \in Nat /\ Points > 0 /\ 2 * Points >= 0 /\ Duration \in Nat
  BY RateLimitAssumption
<1>5. WindowBudget /\ TwoBudgetsAtMost
  BY <1>1, <1>3, <1>4, Typed DEF WindowBudget, TwoBudgetsAtMost, Init
<1>6. KeyLasts /\ KeyCounts /\ Counts /\ BlockComes
  BY <1>1, <1>2, <1>4, Typed DEF Init, KeyLasts, KeyCounts, Counts, BlockComes
<1>7. OverLimit = {} /\ Uncounted = {}
  BY DEF Init, OverLimit, Uncounted
<1>8. KeyShuts /\ ShutOutLasts
  BY <1>7 DEF KeyShuts, ShutOutLasts
<1>9. Cardinality(Uncounted) <= faults
  BY <1>7, FS_EmptySet DEF Init
<1> QED
  BY <1>1, <1>5, <1>6, <1>8, <1>9 DEF LimitInv

\* A request that has been counted keeps its time.
LEMMA SameCounts ==
    ASSUME Admitted' = Admitted, UNCHANGED when
    PROVE  /\ \A t, u : CountedIn(Admitted, t, u)' = CountedIn(Admitted, t, u)
           /\ \A t, u : CountedIn(Requests, t, u)' = CountedIn(Requests, t, u)
BY DEF CountedIn, Never

\* A request is sent, or gets an error for an answer.
LEMMA QuietStepKeeps ==
    ASSUME LimitInv, NEW r \in Requests, at[r] \in {"unsent"} \union Running,
           NEW label \in {"increment", "refused"}, Goto(r, label),
           label = "increment" => at[r] = "unsent" /\ faults' = faults,
           label = "refused" => faults' = faults + 1,
           UNCHANGED <<now, consumed, expires, when, blocked>>, faults' \in 0..MaxFaults
    PROVE  LimitInv'
<1>1. BlockInv /\ BlockInv'
  BY QuietStepBlocks DEF LimitInv, Running
<1>2. /\ at \in [Requests -> {"unsent"} \union Running \union Decided]
      /\ at'[r] = label /\ \A q \in Requests \ {r} : at'[q] = at[q]
  BY <1>1 DEF BlockInv, TypeOK, Goto
<1>3. Admitted' = Admitted
  BY <1>2 DEF Admitted, Running
<1>4. KeyLasts'
  BY <1>2, <1>3 DEF LimitInv, KeyLasts
<1>5. WindowBudget' /\ TwoBudgetsAtMost'
  BY <1>3, SameCounts DEF LimitInv, WindowBudget, TwoBudgetsAtMost, Never
<1>6. KeyCounts'
  BY <1>3, SameCounts DEF LimitInv, KeyCounts
<1>7. Counts'
  <2>1. ASSUME NEW q \in Requests \ {r}
        PROVE  /\ at'[q] \in {"unsent", "increment"} => when'[q] = Never
               /\ at'[q] = "block" => when'[q] # Never
               /\ when'[q] # Never => when'[q] <= now'
               /\ at'[q] # "refused" => blocked'[q] = Never
    BY <1>2 DEF LimitInv, Counts
  <2>2. /\ label = "increment" => when[r] = Never /\ blocked[r] = Never
        /\ when[r] # Never => when[r] <= now
    BY DEF LimitInv, Counts
  <2> QED
    BY <1>2, <2>1, <2>2 DEF Counts, Never
<1>8. BlockComes'
  <2>1. CASE label = "refused"
    <3>1. faults' # 0
      BY <2>1, <1>1, Typed
    <3> QED
      BY <3>1 DEF BlockComes
  <2>2. CASE label = "increment"
    BY <1>2, <2>2 DEF LimitInv, BlockComes, Never
  <2> QED
    BY <2>1, <2>2
<1>9. KeyShuts' /\ ShutOutLasts'
  <2>1. OverLimit' = OverLimit
    BY <1>2 DEF OverLimit, Running, Never, LimitInv, Counts
  <2>2. now <= now' /\ expires <= expires'
    BY <1>1, Typed
  <2> QED
    BY <1>1, <1>3, <2>1, <2>2, ShutStays
<1>10. Cardinality(Uncounted)' <= faults'
  <2>1. Uncounted \in SUBSET Requests /\ Uncounted' \in SUBSET Requests
    BY DEF Uncounted
  <2>2. /\ Cardinality(Uncounted) \in Nat /\ Cardinality(Uncounted') \in Nat
        /\ faults \in Nat /\ Cardinality(Uncounted) <= faults
    BY <1>1, <2>1, Smaller, Typed DEF LimitInv
  <2>3. CASE label = "refused"
    <3>1. Uncounted' \in SUBSET (Uncounted \union {r})
      BY <1>2 DEF Uncounted, Never
    <3>2. Cardinality(Uncounted') <= Cardinality(Uncounted) + 1
      BY <2>1, <3>1, OneMore
    <3> QED
      BY <2>2, <2>3, <3>2
  <2>4. CASE label = "increment"
    <3>1. Uncounted' = Uncounted
      BY <1>2, <2>4 DEF Uncounted, Never
    <3> QED
      BY <2>2, <2>4, <3>1
  <2> QED
    BY <2>3, <2>4
<1> QED
  BY <1>1, <1>4, <1>5, <1>6, <1>7, <1>8, <1>9, <1>10 DEF LimitInv

\* Time passes.
LEMMA TickKeeps == ASSUME LimitInv, Tick PROVE LimitInv'
<1>1. BlockInv /\ BlockInv'
  BY TickBlocks DEF LimitInv
<1>2. now' = now + 1 /\ UNCHANGED <<consumed, expires, at, when, blocked, faults>>
  BY DEF Tick
<1>3. Admitted' = Admitted
  BY <1>2 DEF Admitted
<1>4. KeyLasts'
  BY <1>1, <1>2, <1>3, Typed DEF LimitInv, KeyLasts
<1>5. WindowBudget' /\ TwoBudgetsAtMost'
  BY <1>2, <1>3, SameCounts DEF LimitInv, WindowBudget, TwoBudgetsAtMost, Never
<1>6. KeyCounts'
  <2> SUFFICES ASSUME now' < expires'
               PROVE  KeyCounts'
    BY DEF KeyCounts
  <2>1. now < expires
    BY <1>1, <1>2, Typed
  <2>2. CASE \E b \in Requests : blocked[b] <= now /\ blocked[b] + BlockDuration = expires
    <3>1. \A b \in Requests : blocked[b] <= now => blocked[b] <= now + 1
      BY <1>1, Typed
    <3> QED
      BY <1>2, <2>2, <3>1 DEF KeyCounts
  <2>3. CASE \E w \in Times : /\ w <= now /\ w + Duration = expires
                              /\ CountedIn(Requests, w, expires) >= consumed
    <3>1. \A w \in Times : w <= now => w <= now + 1
      BY <1>1, Typed
    <3> QED
      BY <1>2, <1>3, <2>3, <3>1, SameCounts DEF KeyCounts
  <2> QED
    BY <2>1, <2>2, <2>3 DEF LimitInv, KeyCounts
<1>7. Counts'
  <2>1. \A q \in Requests : when[q] <= now => when[q] <= now + 1
    BY <1>1, Typed
  <2> QED
    BY <1>2, <2>1 DEF LimitInv, Counts, Never
<1>8. BlockComes'
  <2>1. now' < expires => now < expires
    BY <1>1, <1>2, Typed
  <2> QED
    BY <1>2, <2>1 DEF LimitInv, BlockComes, Never
<1>9. KeyShuts' /\ ShutOutLasts'
  <2>1. OverLimit' = OverLimit
    BY <1>2 DEF OverLimit, Never
  <2>2. now <= now' /\ expires <= expires'
    BY <1>1, <1>2, Typed
  <2> QED
    BY <1>1, <1>2, <1>3, <2>1, <2>2, ShutStays
<1>10. Cardinality(Uncounted)' <= faults'
  BY <1>2 DEF Uncounted, Never, LimitInv
<1> QED
  BY <1>1, <1>4, <1>5, <1>6, <1>7, <1>8, <1>9, <1>10 DEF LimitInv

\* A block is written: it has lasted no shorter than the key it overwrites.
LEMMA BlockKeeps == ASSUME LimitInv, NEW r \in Requests, Block(r) PROVE LimitInv'
<1>1. BlockInv /\ BlockInv'
  BY BlockBlocks DEF LimitInv
<1>2. /\ at[r] = "block" /\ at' = [at EXCEPT ![r] = "refused"]
      /\ consumed' = Points + 1 /\ expires' = now + BlockDuration
      /\ blocked' = [blocked EXCEPT ![r] = now] /\ UNCHANGED <<now, when, faults>>
  BY DEF Block, Goto
<1>3. /\ at'[r] = "refused" /\ \A q \in Requests \ {r} : at'[q] = at[q]
      /\ blocked'[r] = now /\ \A q \in Requests \ {r} : blocked'[q] = blocked[q]
  BY <1>1, <1>2 DEF BlockInv, TypeOK
<1>4. Admitted' = Admitted
  BY <1>2, <1>3 DEF Admitted
<1>5. /\ BlockDuration > 0 /\ BlockDuration >= Duration /\ expires <= expires'
      /\ BlockDuration \in Nat /\ expires' \in Nat
  BY <1>1, <1>2, Typed DEF LimitInv, KeyLasts
<1>6. KeyLasts'
  <2>1. \A q \in Admitted : when[q] < expires'
    BY <1>1, <1>5, Typed DEF LimitInv, KeyLasts
  <2>2. ~(consumed' <= Points)
    BY <1>1, <1>2, Typed
  <2>3. expires' <= now' + BlockDuration
    BY <1>1, <1>2, Typed
  <2> QED
    BY <1>2, <1>4, <1>5, <2>1, <2>2, <2>3 DEF KeyLasts
<1>7. WindowBudget'
  <2>1. ~(consumed' <= Points)
    BY <1>1, <1>2, Typed
  <2>2. ASSUME NEW t \in Times, t + Duration >= expires'
        PROVE  CountedIn(Admitted, t, Never) <= Points /\ CountedIn(Admitted, t, Never) <= consumed'
    <3>1. t + Duration >= expires
      BY <1>1, <1>5, <2>2, Typed
    <3>2. CountedIn(Admitted, t, Never) <= Points
      BY <3>1 DEF LimitInv, WindowBudget
    <3>3. CountedIn(Admitted, t, Never) \in Nat
      BY <1>1, Typed, Counts0
    <3> QED
      BY <1>1, <1>2, <3>2, <3>3, Typed
  <2> QED
    BY <1>2, <1>4, <2>1, <2>2, SameCounts DEF WindowBudget, Never
<1>8. TwoBudgetsAtMost'
  BY <1>2, <1>4, SameCounts DEF LimitInv, TwoBudgetsAtMost
<1>9. KeyCounts'
  BY <1>1, <1>2, <1>3, Typed DEF KeyCounts
<1>10. \A q \in Requests : blocked[q] # Never => blocked'[q] = blocked[q]
  BY <1>2, <1>3 DEF LimitInv, Counts
<1>11. Counts'
  <2>1. ASSUME NEW q \in Requests \ {r}
        PROVE  /\ at'[q] \in {"unsent", "increment"} => when'[q] = Never
               /\ at'[q] = "block" => when'[q] # Never
               /\ when'[q] # Never => when'[q] <= now'
               /\ at'[q] # "refused" => blocked'[q] = Never
    BY <1>2, <1>3 DEF LimitInv, Counts
  <2>2. when[r] # Never => when[r] <= now
    BY DEF LimitInv, Counts
  <2> QED
    BY <1>2, <1>3, <2>1, <2>2 DEF Counts, Never
<1>12. BlockComes'
  <2> SUFFICES ASSUME faults = 0
               PROVE  /\ expires' <= blocked'[r] + BlockDuration
                      /\ blocked'[r] # Never
                      /\ \A q \in Requests : at'[q] = "refused" =>
                            when[q] < blocked'[r] + BlockDuration
    BY <1>2 DEF BlockComes, Never
  <2>1. \A q \in Requests : at'[q] = "refused" => when[q] <= now
    BY <1>2, <1>3, NoneUncounted DEF LimitInv, Counts
  <2>2. now # Never /\ now \in Nat
    BY <1>1, Typed
  <2>3. \A q \in Requests : when[q] <= now => when[q] < now + BlockDuration
    BY <1>1, <1>5, Typed
  <2> QED
    BY <1>2, <1>3, <1>5, <2>1, <2>2, <2>3
<1>13. KeyShuts' /\ ShutOutLasts'
  <2>1. OverLimit' = OverLimit
    BY <1>2, <1>3 DEF OverLimit, Never
  <2>2. now <= now' /\ (consumed > Points => consumed' > Points)
    BY <1>1, <1>2, Typed
  <2> QED
    BY <1>1, <1>2, <1>4, <1>5, <1>10, <2>1, <2>2, ShutStays
<1>14. Cardinality(Uncounted)' <= faults'
  <2>1. when[r] # Never
    BY <1>2 DEF LimitInv, Counts
  <2>2. Uncounted' = Uncounted
    BY <1>2, <1>3, <2>1 DEF Uncounted, Never
  <2> QED
    BY <1>2, <2>2 DEF LimitInv
<1> QED
  BY <1>1, <1>6, <1>7, <1>8, <1>9, <1>11, <1>12, <1>13, <1>14 DEF LimitInv

\* A request is counted, in the window of the key or in a new one.
LEMMA ConsumeKeeps == ASSUME LimitInv, NEW r \in Requests, Consume(r) PROVE LimitInv'
<1> DEFINE n == Counted + 1
<1>1. BlockInv /\ BlockInv'
  BY ConsumeBlocks DEF LimitInv
<1>2. /\ at[r] = "increment" /\ at' = [at EXCEPT ![r] = Verdict(n)]
      /\ when' = [when EXCEPT ![r] = now] /\ UNCHANGED <<now, blocked, faults>>
      /\ consumed' = n /\ expires' = IF now < expires THEN expires ELSE now + Duration
  BY DEF Consume, Goto, Increment
<1>3. /\ at'[r] = Verdict(n) /\ \A q \in Requests \ {r} : at'[q] = at[q]
      /\ when'[r] = now /\ \A q \in Requests \ {r} : when'[q] = when[q]
  BY <1>1, <1>2 DEF BlockInv, TypeOK
<1>4. when[r] = Never /\ blocked[r] = Never /\ r \notin Admitted
  BY <1>2 DEF LimitInv, Counts, Admitted
<1>5. /\ now < expires => n = consumed + 1 /\ expires' = expires
      /\ ~(now < expires) => n = 1 /\ expires' = now + Duration /\ n <= Points
      /\ n \in Nat /\ expires' \in Nat /\ now < expires' /\ expires <= expires'
  BY <1>1, <1>2, Typed DEF Counted
<1>6. /\ n <= Points => Admitted' = Admitted \union {r}
      /\ ~(n <= Points) => Admitted' = Admitted
      /\ Verdict(n) \in {"admitted", "block", "refused"}
      /\ Verdict(n) = "admitted" <=> n <= Points
      /\ Verdict(n) = "block" => BlockDuration > 0
      /\ BlockDuration > 0 /\ n = Points + 1 => Verdict(n) = "block"
  <2>1. /\ Verdict(n) \in {"admitted", "block", "refused"}
        /\ Verdict(n) = "admitted" <=> n <= Points
        /\ Verdict(n) = "block" => BlockDuration > 0
        /\ BlockDuration > 0 /\ n = Points + 1 => Verdict(n) = "block"
    BY <1>1, <1>5, Typed DEF Verdict
  <2> HIDE DEF n
  <2> QED
    BY <2>1, <1>3, <1>4 DEF Admitted
<1> HIDE DEF n
<1>7. \A q \in Admitted : when'[q] = when[q] /\ when[q] < expires /\ when[q] # Never /\ q # r
  BY <1>1, <1>3, <1>4, Typed DEF LimitInv, KeyLasts
<1>8. Admitted' \in SUBSET Requests
  BY DEF Admitted
<1>9. KeyLasts'
  <2>1. \A q \in Admitted' : when'[q] < expires'
    BY <1>1, <1>3, <1>5, <1>6, <1>7, Typed
  <2>2. consumed' <= Points => expires' <= now + Duration
    BY <1>1, <1>2, <1>5, Typed DEF LimitInv, KeyLasts
  <2>3. BlockDuration > 0 => expires' <= now + BlockDuration
    BY <1>1, <1>5, Typed DEF LimitInv, KeyLasts
  <2>4. \A q \in Requests : at'[q] = "block" => BlockDuration > 0
    BY <1>3, <1>6 DEF LimitInv, KeyLasts
  <2> QED
    BY <1>2, <2>1, <2>2, <2>3, <2>4 DEF KeyLasts

\* What is counted after the step, and was counted before it.
<1>10. ASSUME NEW t, NEW u, NEW u0,
              \A q \in Admitted : when[q] < u => when[q] < u0
       PROVE  /\ Those(Admitted, t, u)' \in SUBSET (Those(Admitted, t, u0) \union {r})
              /\ ~(n <= Points) \/ ~(t <= now) \/ ~(now < u) =>
                    Those(Admitted, t, u)' \in SUBSET Those(Admitted, t, u0)
  BY <1>3, <1>6, <1>7, <1>10 DEF Those, Never
<1>11. \A t, u : CountedIn(Admitted, t, u)' = Cardinality(Those(Admitted, t, u)')
  BY DEF CountedIn, Those
<1>12. ASSUME NEW t, NEW u, NEW u0,
              \A q \in Admitted : when[q] < u => when[q] < u0
       PROVE  /\ CountedIn(Admitted, t, u)' <= CountedIn(Admitted, t, u0) + 1
              /\ ~(n <= Points) \/ ~(t <= now) \/ ~(now < u) =>
                    CountedIn(Admitted, t, u)' <= CountedIn(Admitted, t, u0)
              /\ CountedIn(Admitted, t, u)' \in Nat /\ CountedIn(Admitted, t, u0) \in Nat
  <2> DEFINE X == Those(Admitted, t, u0)
             Y == Those(Admitted, t, u)'
  <2>1. X \in SUBSET Requests /\ CountedIn(Admitted, t, u0) = Cardinality(X)
    BY <1>1, Typed, Counts0
  <2>2. Y \in SUBSET Requests
    BY <1>8 DEF Those
  <2>3. Y \in SUBSET (X \union {r})
    BY <1>10, <1>12
  <2>4. ~(n <= Points) \/ ~(t <= now) \/ ~(now < u) => Y \in SUBSET X
    BY <1>10, <1>12
  <2> HIDE DEF X, Y
  <2>5. Cardinality(X) \in Nat /\ Cardinality(Y) \in Nat /\ Cardinality(Y) <= Cardinality(X) + 1
    BY <2>1, <2>2, <2>3, Smaller, OneMore
  <2>6. ~(n <= Points) \/ ~(t <= now) \/ ~(now < u) => Cardinality(Y) <= Cardinality(X)
    BY <2>1, <2>4, Smaller
  <2>7. CountedIn(Admitted, t, u)' = Cardinality(Y)
    BY <1>11 DEF Y
  <2> QED
    BY <2>1, <2>5, <2>6, <2>7
<1>13. WindowBudget'
  <2>1. ASSUME NEW t \in Times, t + Duration >= expires'
        PROVE  CountedIn(Admitted, t, Never)' <= Points /\ CountedIn(Admitted, t, Never)' <= n
    <3>1. t + Duration >= expires
      BY <1>1, <1>5, <2>1, Typed
    <3>2. CountedIn(Admitted, t, Never) <= Points /\ CountedIn(Admitted, t, Never) <= consumed
      BY <3>1 DEF LimitInv, WindowBudget
    <3>3. /\ CountedIn(Admitted, t, Never)' <= CountedIn(Admitted, t, Never) + 1
          /\ ~(n <= Points) => CountedIn(Admitted, t, Never)' <= CountedIn(Admitted, t, Never)
          /\ CountedIn(Admitted, t, Never)' \in Nat /\ CountedIn(Admitted, t, Never) \in Nat
      <4>1. CountedIn(Admitted, t, Never)' = Cardinality(Those(Admitted, t, Never)')
        BY <1>11
      <4> QED
        BY <1>12
    <3>4. CASE now < expires
      BY <1>1, <1>5, <3>2, <3>3, <3>4, Typed
    <3>5. CASE ~(now < expires)
      <4>1. \A q \in Admitted : ~(t <= when[q])
        BY <1>1, <1>5, <1>7, <2>1, <3>5, Typed
      <4>2. CountedIn(Admitted, t, Never) = 0
        <5>1. Those(Admitted, t, Never) = {}
          BY <4>1 DEF Those
        <5> QED
          BY <1>1, <5>1, Typed, Counts0, FS_EmptySet
      <4> QED
        BY <1>1, <1>5, <3>3, <3>5, <4>2, Typed
    <3> QED
      BY <3>4, <3>5
  <2>2. ASSUME NEW t \in Times, NEW w \in Times,
               n <= Points, w + Duration = expires', t + Duration >= w
        PROVE  CountedIn(Admitted, t, w)' <= Points
    <3>1. CASE now < expires
      <4>1. consumed <= Points /\ w + Duration = expires /\ expires <= now + Duration
        BY <1>1, <1>5, <2>2, <3>1, Typed DEF LimitInv, KeyLasts
      <4>2. ~(now < w)
        BY <1>1, <4>1, Typed
      <4>3. /\ CountedIn(Admitted, t, w)' <= CountedIn(Admitted, t, w)
            /\ CountedIn(Admitted, t, w)' \in Nat /\ CountedIn(Admitted, t, w) \in Nat
        BY <1>12, <4>2
      <4>4. CountedIn(Admitted, t, w) <= Points
        BY <2>2, <4>1 DEF LimitInv, WindowBudget
      <4> QED
        BY <1>1, <4>3, <4>4, Typed
    <3>2. CASE ~(now < expires)
      <4>1. w = now /\ t + Duration >= expires
        BY <1>1, <1>5, <2>2, <3>2, Typed
      <4>2. \A q \in Admitted : when[q] < w => when[q] < Never
        BY <1>1, Typed
      <4>3. ~(now < w)
        BY <1>1, <4>1, Typed
      <4>4. /\ CountedIn(Admitted, t, w)' <= CountedIn(Admitted, t, Never)
            /\ CountedIn(Admitted, t, w)' \in Nat /\ CountedIn(Admitted, t, Never) \in Nat
        BY <1>12, <4>2, <4>3
      <4>5. CountedIn(Admitted, t, Never) <= Points
        BY <4>1 DEF LimitInv, WindowBudget
      <4> QED
        BY <1>1, <4>4, <4>5, Typed
    <3> QED
      BY <3>1, <3>2
  <2> QED
    BY <1>2, <2>1, <2>2 DEF WindowBudget, Never
<1>14. TwoBudgetsAtMost'
  <2> SUFFICES ASSUME NEW t \in Times
               PROVE  CountedIn(Admitted, t, t + Duration)' <= 2 * Points
    BY DEF TwoBudgetsAtMost
  <2> DEFINE u == t + Duration
  <2>1. /\ CountedIn(Admitted, t, u)' <= CountedIn(Admitted, t, u) + 1
        /\ ~(n <= Points) \/ ~(t <= now) \/ ~(now < u) =>
                CountedIn(Admitted, t, u)' <= CountedIn(Admitted, t, u)
        /\ CountedIn(Admitted, t, u)' \in Nat /\ CountedIn(Admitted, t, u) \in Nat
    BY <1>12
  <2>2. CountedIn(Admitted, t, u) <= 2 * Points
    BY DEF LimitInv, TwoBudgetsAtMost
  <2>3. CASE ~(n <= Points) \/ ~(t <= now) \/ ~(now < u)
    BY <1>1, <2>1, <2>2, <2>3, Typed
  <2>4. CASE n <= Points /\ t <= now /\ now < u
    <3>1. CASE u >= expires
      <4>1. CountedIn(Admitted, t, Never) <= Points
        BY <3>1 DEF LimitInv, WindowBudget
      <4>2. \A q \in Admitted : when[q] < u => when[q] < Never
        BY <1>1, Typed
      <4>3. /\ CountedIn(Admitted, t, u)' <= CountedIn(Admitted, t, Never) + 1
            /\ CountedIn(Admitted, t, Never) \in Nat
        BY <1>12, <4>2
      <4> HIDE DEF u
      <4> QED
        BY <1>1, <2>1, <4>1, <4>3, Typed DEF u
    <3>2. CASE ~(u >= expires)
      <4>1. /\ now < expires /\ consumed < Points /\ expires <= now + Duration
        BY <1>1, <1>5, <2>4, <3>2, Typed DEF LimitInv, KeyLasts
      <4>2. PICK w \in Times : w + Duration = expires /\ t + Duration >= w /\ t < w
        <5>1. \A x \in Nat : x <= now => x \in Times
          BY <1>1, Typed, RateLimitAssumption DEF Times
        <5>2. /\ expires - Duration \in Nat /\ expires - Duration <= now
              /\ t + Duration >= expires - Duration /\ t < expires - Duration
              /\ (expires - Duration) + Duration = expires
          BY <1>1, <2>4, <3>2, <4>1, Typed
        <5> QED
          BY <5>1, <5>2
      <4>3. CountedIn(Admitted, t, w) <= Points
        BY <1>1, <4>1, <4>2, Typed DEF LimitInv, WindowBudget
      <4>4. CountedIn(Admitted, w, Never) <= consumed
        BY <1>1, <4>2, Typed DEF LimitInv, WindowBudget
      <4>5. CountedIn(Admitted, t, u) <= CountedIn(Admitted, t, w) + CountedIn(Admitted, w, Never)
        <5> DEFINE X == Those(Admitted, t, w)
                   Z == Those(Admitted, w, Never)
                   Y == Those(Admitted, t, u)
        <5>1. Y \subseteq X \union Z
          BY <1>1, <4>2, Typed DEF Those
        <5>2. X \in SUBSET Requests /\ Z \in SUBSET Requests /\ Y \in SUBSET Requests
          BY <1>1, Typed DEF Those
        <5>3. /\ CountedIn(Admitted, t, w) = Cardinality(X)
              /\ CountedIn(Admitted, w, Never) = Cardinality(Z)
              /\ CountedIn(Admitted, t, u) = Cardinality(Y)
          BY DEF CountedIn, Those
        <5> HIDE DEF X, Y, Z
        <5>4. /\ Cardinality(X \union Z) <= Cardinality(X) + Cardinality(Z)
              /\ X \union Z \in SUBSET Requests
          BY <5>2, Joined
        <5>5. /\ Cardinality(Y) <= Cardinality(X \union Z) /\ Cardinality(X \union Z) \in Nat
              /\ Cardinality(Y) \in Nat
          BY <5>1, <5>4, Smaller
        <5>6. Cardinality(X) \in Nat /\ Cardinality(Z) \in Nat
          BY <5>2, Smaller
        <5> QED
          BY <5>3, <5>4, <5>5, <5>6
      <4>6. CountedIn(Admitted, t, w) \in Nat /\ CountedIn(Admitted, w, Never) \in Nat
        BY <1>1, Typed, Counts0
      <4> HIDE DEF u
      <4>7. CountedIn(Admitted, t, u)' <= Points + consumed + 1
        BY <1>1, <2>1, <4>3, <4>4, <4>5, <4>6, Typed
      <4>8. Points + consumed + 1 <= 2 * Points
        BY <1>1, <4>1, Typed
      <4> QED
        BY <1>1, <2>1, <4>7, <4>8, Typed DEF u
    <3> QED
      BY <3>1, <3>2
  <2> QED
    BY <2>3, <2>4

\* A window that was there counts r too; a new one counts it first.
<1>15. ASSUME NEW from \in Nat, NEW to \in Nat, from <= now, now < to
       PROVE  LET later == {q \in Requests : when'[q] # Never /\ from <= when'[q] /\ when'[q] < to}
              IN  /\ Cardinality(later) >= CountedIn(Requests, from, to) + 1
                  /\ Cardinality(later) \in Nat /\ CountedIn(Requests, from, to) \in Nat
  BY <1>1, <1>3, <1>4, <1>15, CountedMore
<1>16. KeyCounts'
  <2>1. CASE now < expires
    <3>1. CASE \E b \in Requests : blocked[b] <= now /\ blocked[b] + BlockDuration = expires
      BY <1>2, <1>5, <2>1, <3>1 DEF KeyCounts
    <3>2. CASE \E w \in Times : /\ w <= now /\ w + Duration = expires
                                /\ CountedIn(Requests, w, expires) >= consumed
      <4>1. PICK w \in Times : /\ w <= now /\ w + Duration = expires
                               /\ CountedIn(Requests, w, expires) >= consumed
        BY <3>2
      <4>2. /\ CountedIn(Requests, w, expires)' >= CountedIn(Requests, w, expires) + 1
            /\ CountedIn(Requests, w, expires)' \in Nat /\ CountedIn(Requests, w, expires) \in Nat
        <5> DEFINE later == {q \in Requests : when'[q] # Never /\ w <= when'[q]
                                                /\ when'[q] < expires}
        <5>1. CountedIn(Requests, w, expires)' = Cardinality(later)
          BY <1>5, <2>1 DEF CountedIn, Never
        <5> HIDE DEF later
        <5>2. /\ Cardinality(later) >= CountedIn(Requests, w, expires) + 1
              /\ Cardinality(later) \in Nat /\ CountedIn(Requests, w, expires) \in Nat
          <6>1. w \in Nat /\ expires \in Nat
            BY <1>1, Typed
          <6> QED
            BY <1>15, <2>1, <4>1, <6>1 DEF later
        <5> QED
          BY <5>1, <5>2
      <4>3. CountedIn(Requests, w, expires)' >= n
        BY <1>1, <1>5, <2>1, <4>1, <4>2, Typed
      <4> QED
        BY <1>2, <1>5, <2>1, <4>1, <4>3 DEF KeyCounts
    <3> QED
      BY <2>1, <3>1, <3>2 DEF LimitInv, KeyCounts
  <2>2. CASE ~(now < expires)
    <3>1. PICK w \in Times : w = now
      BY <1>1, Typed
    <3>2. CountedIn(Requests, w, expires)' >= 1
      <4> DEFINE later == {q \in Requests : when'[q] # Never /\ w <= when'[q]
                                              /\ when'[q] < now + Duration}
      <4>1. CountedIn(Requests, w, expires)' = Cardinality(later)
        BY <1>5, <2>2 DEF CountedIn, Never
      <4>2. w \in Nat /\ now + Duration \in Nat /\ w <= now /\ now < now + Duration
        BY <1>1, <3>1, Typed
      <4> HIDE DEF later
      <4>3. /\ Cardinality(later) >= CountedIn(Requests, w, now + Duration) + 1
            /\ Cardinality(later) \in Nat /\ CountedIn(Requests, w, now + Duration) \in Nat
        BY <1>15, <4>2 DEF later
      <4> QED
        BY <4>1, <4>3
    <3>3. w <= now' /\ w + Duration = expires' /\ consumed' = 1
      BY <1>1, <1>2, <1>5, <2>2, <3>1, Typed
    <3> QED
      BY <3>2, <3>3 DEF KeyCounts
  <2> QED
    BY <2>1, <2>2

\* Over the limit means that the key was there; it says why, and until when.
<1>17. ASSUME ~(n <= Points)
       PROVE  /\ expires \in Ends /\ ShutUntil(r, expires)'
              /\ now < expires /\ expires' = expires
              /\ consumed = Points \/ consumed > Points
  <2>1. now < expires /\ consumed >= Points /\ expires' = expires
    BY <1>1, <1>5, <1>17, Typed
  <2>2. CASE \E b \in Requests : blocked[b] <= now /\ blocked[b] + BlockDuration = expires
    <3>1. expires \in Ends
      BY <1>1, <2>2, Typed DEF Ends
    <3>2. \E b \in Requests : /\ blocked'[b] + BlockDuration = expires
                              /\ blocked'[b] <= when'[r] /\ when'[r] < expires
      BY <1>2, <1>3, <2>1, <2>2
    <3>3. ShutUntil(r, expires)'
      BY <2>1, <3>2 DEF ShutUntil
    <3> QED
      BY <1>1, <2>1, <3>1, <3>3, Typed
  <2>3. CASE \E w \in Times : /\ w <= now /\ w + Duration = expires
                              /\ CountedIn(Requests, w, expires) >= consumed
    <3>1. PICK w \in Times : /\ w <= now /\ w + Duration = expires
                             /\ CountedIn(Requests, w, expires) >= consumed
      BY <2>3
    <3>2. /\ CountedIn(Requests, w, expires)' >= CountedIn(Requests, w, expires) + 1
          /\ CountedIn(Requests, w, expires)' \in Nat
          /\ CountedIn(Requests, w, expires) \in Nat
      <4> DEFINE later == {q \in Requests : when'[q] # Never /\ w <= when'[q]
                                              /\ when'[q] < expires}
      <4>1. CountedIn(Requests, w, expires)' = Cardinality(later)
        BY <2>1 DEF CountedIn, Never
      <4>2. w \in Nat /\ expires \in Nat
        BY <1>1, Typed
      <4> HIDE DEF later
      <4>3. /\ Cardinality(later) >= CountedIn(Requests, w, expires) + 1
            /\ Cardinality(later) \in Nat /\ CountedIn(Requests, w, expires) \in Nat
        BY <1>15, <2>1, <3>1, <4>2 DEF later
      <4> QED
        BY <4>1, <4>3
    <3>3. CountedIn(Requests, w, expires)' > Points
      BY <1>1, <2>1, <3>1, <3>2, Typed
    <3>4. w <= when'[r] /\ when'[r] < expires
      BY <1>3, <2>1, <3>1
    <3>5. ShutUntil(r, expires)'
      BY <2>1, <3>1, <3>3, <3>4 DEF ShutUntil
    <3>6. expires \in Ends
      BY <1>1, <3>1, Typed DEF Ends
    <3> QED
      BY <1>1, <2>1, <3>5, <3>6, Typed
  <2> QED
    BY <2>1, <2>2, <2>3 DEF LimitInv, KeyCounts
<1>18. Counts'
  <2>1. ASSUME NEW q \in Requests \ {r}
        PROVE  /\ at'[q] \in {"unsent", "increment"} => when'[q] = Never
               /\ at'[q] = "block" => when'[q] # Never
               /\ when'[q] # Never => when'[q] <= now'
               /\ at'[q] # "refused" => blocked'[q] = Never
    BY <1>2, <1>3 DEF LimitInv, Counts
  <2>2. /\ at'[r] \notin {"unsent", "increment"} /\ blocked'[r] = Never
        /\ when'[r] <= now' /\ when'[r] # Never
    BY <1>1, <1>2, <1>3, <1>4, <1>6, Typed
  <2> QED
    BY <2>1, <2>2 DEF Counts, Never
<1>19. BlockComes'
  <2> SUFFICES ASSUME faults = 0, BlockDuration > 0, \A b \in Requests : at'[b] # "block"
               PROVE  /\ now < expires' /\ n > Points =>
                            \E b \in Requests : /\ blocked[b] # Never
                                                /\ expires' <= blocked[b] + BlockDuration
                      /\ \A q \in Requests : at'[q] = "refused" =>
                            \E b \in Requests : /\ blocked[b] # Never
                                                /\ when'[q] < blocked[b] + BlockDuration
    BY <1>2 DEF BlockComes, Never
  <2>1. \A b \in Requests : at[b] # "block"
    BY <1>2, <1>3
  <2>2. ASSUME ~(n <= Points)
        PROVE  \E b \in Requests : /\ blocked[b] # Never
                                   /\ expires' <= blocked[b] + BlockDuration
    <3>1. n # Points + 1
      BY <1>3, <1>6
    <3>2. now < expires /\ consumed > Points /\ expires' = expires
      BY <1>1, <1>5, <1>17, <2>2, <3>1, Typed
    <3> QED
      BY <2>1, <3>2 DEF LimitInv, BlockComes
  <2>3. ASSUME NEW q \in Requests, at'[q] = "refused"
        PROVE  \E b \in Requests : /\ blocked[b] # Never
                                   /\ when'[q] < blocked[b] + BlockDuration
    <3>1. CASE q = r
      <4>1. PICK b \in Requests : /\ blocked[b] # Never
                                  /\ expires' <= blocked[b] + BlockDuration
        BY <1>3, <1>6, <2>2, <2>3, <3>1
      <4>2. when'[r] < blocked[b] + BlockDuration
        BY <1>1, <1>3, <1>5, <4>1, Typed
      <4> QED
        BY <3>1, <4>1, <4>2
    <3>2. CASE q # r
      BY <1>3, <2>1, <2>3, <3>2 DEF LimitInv, BlockComes
    <3> QED
      BY <3>1, <3>2
  <2>4. n > Points => ~(n <= Points)
    BY <1>1, <1>5, Typed
  <2> QED
    BY <2>2, <2>3, <2>4
<1>20. /\ \A q \in OverLimit' : q # r => q \in OverLimit /\ when'[q] = when[q]
       /\ r \in OverLimit' => ~(n <= Points)
       /\ \A q \in Admitted' : q # r => q \in Admitted /\ when'[q] = when[q]
       /\ r \in Admitted' => n <= Points
       /\ OverLimit' \in SUBSET Requests /\ Ends' = Ends /\ Ends \subseteq Nat
  BY <1>3, <1>4, <1>6, RateLimitAssumption DEF OverLimit, Admitted, Never, Ends
<1>21. ASSUME NEW q \in OverLimit, NEW z \in Ends, ShutUntil(q, z)
       PROVE  ShutUntil(q, z)'
  <2>1. q \in Requests /\ when[q] # Never /\ z \in Nat
    BY <1>20 DEF OverLimit
  <2>2. \A p \in Requests : when[p] # Never => when'[p] = when[p]
    BY <1>3, <1>4
  <2> QED
    BY <1>1, <1>2, <1>21, <2>1, <2>2, ReasonStays
<1>22. KeyShuts'
  <2> SUFFICES ASSUME NEW q \in OverLimit'
               PROVE  \E z \in Ends : /\ ShutUntil(q, z)'
                                      /\ now < z => n > Points /\ z <= expires'
    BY <1>2, <1>20 DEF KeyShuts
  <2>1. CASE q = r
    <3>1. expires \in Ends /\ ShutUntil(r, expires)' /\ expires' = expires
      BY <1>17, <1>20, <2>1
    <3>2. n > Points /\ expires <= expires
      BY <1>1, <1>5, <1>20, <2>1, Typed
    <3> QED
      BY <2>1, <3>1, <3>2
  <2>2. CASE q # r
    <3>1. PICK z \in Ends : ShutUntil(q, z) /\ (now < z => consumed > Points /\ z <= expires)
      BY <1>20, <2>2 DEF LimitInv, KeyShuts
    <3>2. z \in Nat
      BY <1>20
    <3>3. now < z => n > Points /\ z <= expires'
      BY <1>1, <1>5, <3>1, <3>2, Typed
    <3> QED
      BY <1>20, <1>21, <2>2, <3>1, <3>3
  <2> QED
    BY <2>1, <2>2
<1>23. ShutOutLasts'
  <2> SUFFICES ASSUME NEW q \in OverLimit', NEW p \in Admitted', when'[q] < when'[p]
               PROVE  \E z \in Ends : ShutUntil(q, z)' /\ z <= when'[p]
    BY <1>20 DEF ShutOutLasts
  <2>1. q # r
    <3>1. p # r /\ p \in Admitted => when'[p] <= now /\ when'[p] \in Nat
      BY <1>1, <1>7, Typed
    <3>2. now \in Nat
      BY <1>1, Typed
    <3> QED
      BY <1>3, <1>20, <3>1, <3>2
  <2>2. CASE p = r
    <3>1. PICK z \in Ends : ShutUntil(q, z) /\ (now < z => consumed > Points /\ z <= expires)
      BY <1>20, <2>1 DEF LimitInv, KeyShuts
    <3>2. z \in Nat
      BY <1>20
    <3>3. z <= now
      BY <1>1, <1>5, <1>20, <2>2, <3>1, <3>2, Typed
    <3> QED
      BY <1>3, <1>20, <1>21, <2>1, <2>2, <3>1, <3>3
  <2>3. CASE p # r
    <3>1. PICK z \in Ends : ShutUntil(q, z) /\ z <= when[p]
      BY <1>20, <2>1, <2>3 DEF LimitInv, ShutOutLasts
    <3> QED
      BY <1>20, <1>21, <2>1, <2>3, <3>1
  <2> QED
    BY <2>2, <2>3
<1>24. Cardinality(Uncounted)' <= faults'
  <2>1. now # Never
    BY <1>1, Typed
  <2>2. Uncounted' = Uncounted
    BY <1>2, <1>3, <2>1 DEF Uncounted, Never
  <2> QED
    BY <1>2, <2>2 DEF LimitInv
<1> QED
  BY <1>1, <1>9, <1>13, <1>14, <1>16, <1>18, <1>19, <1>22, <1>23, <1>24 DEF LimitInv

LEMMA StepKeeps == LimitInv /\ [Next]_vars => LimitInv'
<1> SUFFICES ASSUME LimitInv, [Next]_vars PROVE LimitInv'
  OBVIOUS
<1>1. ASSUME NEW r \in Requests, CanActivate(r) PROVE LimitInv'
  BY <1>1, QuietStepKeeps DEF CanActivate, LimitInv, BlockInv, TypeOK
<1>2. ASSUME NEW r \in Requests, CallRejects(r) PROVE LimitInv'
  <2>1. faults' \in 0..MaxFaults /\ faults' = faults + 1
    BY <1>2, RateLimitAssumption DEF CallRejects, LimitInv, BlockInv, TypeOK
  <2> QED
    BY <1>2, <2>1, QuietStepKeeps DEF CallRejects
<1>3. CASE UNCHANGED vars
  <2>1. BlockInv'
    BY StepBlocks DEF LimitInv
  <2>2. Admitted' = Admitted /\ UNCHANGED <<now, consumed, expires, at, when, blocked, faults>>
    BY <1>3 DEF vars, Admitted
  <2>3. OverLimit' = OverLimit /\ Uncounted' = Uncounted
    BY <2>2 DEF OverLimit, Uncounted, Never
  <2>4. WindowBudget' /\ TwoBudgetsAtMost' /\ KeyCounts'
    BY <2>2, SameCounts DEF LimitInv, WindowBudget, TwoBudgetsAtMost, KeyCounts, Never
  <2>5. KeyLasts' /\ Counts' /\ BlockComes'
    BY <2>2 DEF LimitInv, KeyLasts, Counts, BlockComes, Never
  <2>6. now <= now' /\ expires <= expires'
    BY <2>1, <2>2, Typed DEF LimitInv
  <2>7. KeyShuts' /\ ShutOutLasts'
    BY <2>1, <2>2, <2>3, <2>6, ShutStays
  <2>8. Cardinality(Uncounted)' <= faults'
    BY <2>2, <2>3 DEF LimitInv
  <2> QED
    BY <2>1, <2>4, <2>5, <2>7, <2>8 DEF LimitInv
<1> QED
  BY <1>1, <1>2, <1>3, ConsumeKeeps, BlockKeeps, TickKeeps DEF Next, Handle

\* The key and what the requests have seen of it agree in every reachable state.
THEOREM LimitInvariance == Spec => []LimitInv
BY InitEstablishes, StepKeeps, PTL DEF Spec

\* Once a request over the limit has written its block, nobody gets in until
\* it has run out, whatever else is counted, rejected or still on its way.
THEOREM BlocksStand == Spec => []BlockStands
<1>1. LimitInv => BlockStands
  BY DEF LimitInv, BlockInv
<1> QED
  BY <1>1, LimitInvariance, PTL

\* In no stretch of time as long as a window does the limiter let in more than
\* two budgets, wherever windows, blocks and rejected calls fall.
THEOREM NoMoreThanTwoBudgets == Spec => []TwoBudgetsAtMost
<1>1. LimitInv => TwoBudgetsAtMost
  BY DEF LimitInv
<1> QED
  BY <1>1, LimitInvariance, PTL

\* A request is refused for more than Points requests in its window, for a
\* block, or for a rejected call of its own; a rejected call costs no other one.
THEOREM RefusalsHaveReasons == Spec => []RefusedForReason
<1>1. LimitInv => RefusedForReason
  BY DEF LimitInv, KeyShuts, RefusedForReason
<1> QED
  BY <1>1, LimitInvariance, PTL

\* After a request over the limit nobody gets in before its window, or a block
\* that covers it, has ended, whether or not the block could be written.
THEOREM ShutOutsLast == Spec => []ShutOutLasts
<1>1. LimitInv => ShutOutLasts
  BY DEF LimitInv
<1> QED
  BY <1>1, LimitInvariance, PTL

\* Whoever goes over the limit is shut out: when all are answered and no call
\* was rejected, some request has written a block that covers the refused one.
THEOREM GoingOverBlocks == Spec => []OverLimitBlocks
<1>1. LimitInv => OverLimitBlocks
  BY DEF LimitInv, BlockComes, OverLimitBlocks, Running
<1> QED
  BY <1>1, LimitInvariance, PTL

=============================================================================
