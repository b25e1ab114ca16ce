------------------------ MODULE TokenDecimalsProofs ------------------------
(* What callers that meet in the cache can rely on, for any callers,       *)
(* spellings, numbers of attempts and rejected calls.                      *)
EXTENDS TokenDecimals, TLAPS

\* Two callers that ask for one token share its entry.
LEMMA SharedKey ==
    ASSUME NEW c \in Callers, NEW d \in Callers, Address[c].token = Address[d].token
    PROVE  Key(c) = Key(d)
<1>1. Address[c] \in [token : Tokens, spelling : Spelling]
      /\ Address[d] \in [token : Tokens, spelling : Spelling]
  BY DecimalsAssumption
<1>2. Key(c) = [token |-> Address[c].token, spelling |-> "lower"]
      /\ Key(d) = [token |-> Address[d].token, spelling |-> "lower"]
  BY <1>1 DEF Key
<1> QED
  BY <1>2

LEMMA InitEstablishes == Init => CacheInv
<1> SUFFICES ASSUME Init PROVE CacheInv
  OBVIOUS
<1>1. CachedWasAnswered
  BY DEF Init, CachedWasAnswered
<1> QED
  BY <1>1, DecimalsAssumption DEF Init, CacheInv

\* A caller is answered out of the cache, or goes on to call.
LEMMA GetKeeps ==
    ASSUME CacheInv, NEW c \in Callers, GetTokenDecimals(c)
    PROVE  CacheInv'
<1>1. /\ UNCHANGED <<decimalsCache, tries, faults>> /\ at[c] = "call"
      /\ result[c] = "none" /\ tries[c] < Attempts[c]
  BY DEF GetTokenDecimals, CacheInv
<1>2. CASE Key(c) \in decimalsCache
  <2>1. result' = [result EXCEPT ![c] = "bigint"] /\ at' = [at EXCEPT ![c] = "answered"]
    BY <1>2 DEF GetTokenDecimals, Goto
  <2>2. {d \in Callers : result'[d] = "number"} = {d \in Callers : result[d] = "number"}
    BY <1>1, <2>1 DEF CacheInv
  <2>3. CachedWasAnswered'
    BY <1>1, <2>2 DEF CacheInv, CachedWasAnswered, Key
  <2> QED
    BY <1>1, <1>2, <2>1, <2>3 DEF CacheInv, Key
<1>3. CASE Key(c) \notin decimalsCache
  <2>1. UNCHANGED result /\ at' = [at EXCEPT ![c] = "decimals"]
    BY <1>3 DEF GetTokenDecimals, Goto
  <2>2. CachedWasAnswered'
    BY <1>1, <2>1 DEF CacheInv, CachedWasAnswered, Key
  <2> QED
    BY <1>1, <2>1, <2>2 DEF CacheInv, Key
<1> QED
  BY <1>2, <1>3

\* The contract answers: the entry is the caller's.
LEMMA DecimalsKeeps ==
    ASSUME CacheInv, NEW c \in Callers, Decimals(c)
    PROVE  CacheInv'
<1>1. /\ UNCHANGED <<tries, faults>> /\ at[c] = "decimals" /\ tries[c] < Attempts[c]
      /\ decimalsCache' = decimalsCache \union {Key(c)}
      /\ result' = [result EXCEPT ![c] = "number"] /\ at' = [at EXCEPT ![c] = "answered"]
  BY DEF Decimals, CacheInv, Goto
<1>2. {d \in Callers : result'[d] = "number"} = {d \in Callers : result[d] = "number"} \union {c}
  BY <1>1 DEF CacheInv
<1>3. CachedWasAnswered'
  BY <1>1, <1>2 DEF CacheInv, CachedWasAnswered, Key
<1> QED
  BY <1>1, <1>3 DEF CacheInv, Key

\* The call rejects: the cache is as it was.
LEMMA CallRejectsKeeps ==
    ASSUME CacheInv, NEW c \in Callers, CallRejects(c)
    PROVE  CacheInv'
<1> DEFINE label == IF tries[c] + 1 < Attempts[c] THEN "call" ELSE "rejected"
<1>1. /\ UNCHANGED <<decimalsCache, result>> /\ at[c] = "decimals"
      /\ faults < MaxFaults /\ faults' = faults + 1
      /\ tries' = [tries EXCEPT ![c] = tries[c] + 1] /\ at' = [at EXCEPT ![c] = label]
  BY DEF CallRejects, Goto
<1>2. /\ tries[c] \in Nat /\ Attempts[c] \in Nat /\ tries[c] < Attempts[c]
      /\ faults' \in 0..MaxFaults
  <2>1. at[c] # "rejected" /\ faults \in 0..MaxFaults /\ MaxFaults \in Nat
    BY <1>1, DecimalsAssumption DEF CacheInv
  <2>2. faults' \in 0..MaxFaults
    BY <1>1, <2>1
  <2>3. tries[c] \in Nat /\ Attempts[c] \in Nat /\ tries[c] < Attempts[c]
    BY <2>1, DecimalsAssumption DEF CacheInv
  <2> QED
    BY <2>2, <2>3
<1>3. /\ label \in {"call", "rejected"}
      /\ IF label = "rejected" THEN tries[c] + 1 = Attempts[c] ELSE tries[c] + 1 < Attempts[c]
  BY <1>2
<1> HIDE DEF label
<1>4. CachedWasAnswered'
  BY <1>1 DEF CacheInv, CachedWasAnswered, Key
<1> QED
  BY <1>1, <1>2, <1>3, <1>4 DEF CacheInv, Key

LEMMA StepKeeps == CacheInv /\ [Next]_vars => CacheInv'
<1> SUFFICES ASSUME CacheInv, [Next]_vars PROVE CacheInv'
  OBVIOUS
<1>1. CASE UNCHANGED vars
  BY <1>1 DEF vars, CacheInv, CachedWasAnswered, Key
<1> QED
  BY <1>1, GetKeeps, DecimalsKeeps, CallRejectsKeeps DEF Next

\* The cache, the answers and the attempts of all callers fit together.
THEOREM CacheInvariance == Spec => []CacheInv
BY InitEstablishes, StepKeeps, PTL DEF Spec

\* What is cached was answered: each entry of decimalsCache was returned to
\* some caller by an RPC call, and a call that rejects leaves none.
THEOREM CacheHasAnswersOnly == Spec => []CachedWasAnswered
<1>1. CacheInv => CachedWasAnswered
  BY DEF CacheInv
<1> QED
  BY <1>1, CacheInvariance, PTL

\* Once anybody has been answered for a token, a caller about to ask for it
\* under any spelling is answered in its next step, out of the cache.
THEOREM SavedAtOnce ==
    Spec => [][\A c, d \in Callers :
                 /\ Address[c].token = Address[d].token
                 /\ at[c] = "call" /\ at[d] = "answered" /\ at'[c] # "call"
                 => at'[c] = "answered" /\ result'[c] = "bigint"]_vars
<1> DEFINE Saved == \A c, d \in Callers :
                 /\ Address[c].token = Address[d].token
                 /\ at[c] = "call" /\ at[d] = "answered" /\ at'[c] # "call"
                 => at'[c] = "answered" /\ result'[c] = "bigint"
<1>1. ASSUME CacheInv, Next
      PROVE  Saved
  <2> SUFFICES ASSUME NEW c \in Callers, NEW d \in Callers,
                      Address[c].token = Address[d].token,
                      at[c] = "call", at[d] = "answered", at'[c] # "call"
               PROVE  at'[c] = "answered" /\ result'[c] = "bigint"
    OBVIOUS
  <2>1. Key(c) \in decimalsCache
    BY <1>1, SharedKey DEF CacheInv
  <2>2. PICK e \in Callers : GetTokenDecimals(e) \/ Decimals(e) \/ CallRejects(e)
    BY <1>1 DEF Next
  <2>3. e = c
    BY <1>1, <2>2 DEF GetTokenDecimals, Decimals, CallRejects, Goto, CacheInv
  <2>4. GetTokenDecimals(c)
    BY <2>2, <2>3 DEF Decimals, CallRejects
  <2> QED
    BY <1>1, <2>1, <2>4 DEF GetTokenDecimals, Goto, CacheInv
<1>2. CacheInv /\ [Next]_vars => [Saved]_vars
  BY <1>1
<1> QED
  BY <1>2, CacheInvariance, PTL DEF Spec

\* A caller that was rejected has made each of its attempts: a handler its
\* one, the restore as many as retry allows.
THEOREM RejectedAfterAllAttempts ==
    Spec => [](\A c \in Callers : at[c] = "rejected" => tries[c] = Attempts[c])
<1>1. CacheInv => \A c \in Callers : at[c] = "rejected" => tries[c] = Attempts[c]
  BY DEF CacheInv
<1> QED
  BY <1>1, CacheInvariance, PTL
=============================================================================
