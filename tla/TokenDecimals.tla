--------------------------- MODULE TokenDecimals ---------------------------
(***************************************************************************)
(* BlockchainTokenService.getTokenDecimals with its cache, called by the   *)
(* event handlers, which call once, and by fetchTokenDecimals of the       *)
(* restore, which calls through retry.  Callers run side by side and meet  *)
(* in the cache; a token's decimals are asked of its contract by an RPC    *)
(* call that may reject.                                                   *)
(***************************************************************************)
EXTENDS Naturals

CONSTANTS
    Callers,
    Tokens,
    Address,    \* what each caller passes: [token, spelling]
    Attempts,   \* 1 for a handler, the retries of retry for the restore
    MaxFaults   \* bound: RPC calls that reject

Spelling == {"lower", "checksum"}

ASSUME DecimalsAssumption ==
    /\ Address \in [Callers -> [token : Tokens, spelling : Spelling]]
    /\ Attempts \in [Callers -> Nat \ {0}]
    /\ MaxFaults \in Nat

VARIABLES
    decimalsCache,  \* the addresses it has an entry for
    at,             \* where each caller stands
    tries,          \* its failed attempts
    result,         \* the JavaScript type of its answer
    faults          \* rejected calls so far

vars == <<decimalsCache, at, tries, result, faults>>

\* "call": about to call, for the first time or after the pause of retry;
\* "decimals": awaits the token contract.
Init ==
    /\ decimalsCache = {}
    /\ at = [c \in Callers |-> "call"]
    /\ tries = [c \in Callers |-> 0]
    /\ result = [c \in Callers |-> "none"]
    /\ faults = 0

Goto(c, label) == at' = [at EXCEPT ![c] = label]

-----------------------------------------------------------------------------

\* Slip: the address as it is spelled.
KeyAsSpelled(c) == Address[c]

\* toLowerCase.
Key(c) == [Address[c] EXCEPT !.spelling = "lower"]

\* The cache has the contract's answer, a bigint, as it is.
GetTokenDecimals(c) ==
    /\ at[c] = "call"
    /\ \/ /\ Key(c) \in decimalsCache
          /\ result' = [result EXCEPT ![c] = "bigint"]
          /\ Goto(c, "answered")
       \/ /\ Key(c) \notin decimalsCache
          /\ Goto(c, "decimals")
          /\ UNCHANGED result
    /\ UNCHANGED <<decimalsCache, tries, faults>>

\* The first answer, and that of everybody who was not spared the call.
Decimals(c) ==
    /\ at[c] = "decimals"
    /\ decimalsCache' = decimalsCache \union {Key(c)}
    /\ result' = [result EXCEPT ![c] = "number"]
    /\ Goto(c, "answered")
    /\ UNCHANGED <<tries, faults>>

\* Slip: a rejection is remembered too.
CallRejectsCached(c) ==
    /\ at[c] = "decimals"
    /\ faults < MaxFaults
    /\ faults' = faults + 1
    /\ decimalsCache' = decimalsCache \union {Key(c)}
    /\ tries' = [tries EXCEPT ![c] = @ + 1]
    /\ Goto(c, IF tries[c] + 1 < Attempts[c] THEN "call" ELSE "rejected")
    /\ UNCHANGED result

\* Slip: one attempt too many.
CallRejectsOneMore(c) ==
    /\ at[c] = "decimals"
    /\ faults < MaxFaults
    /\ faults' = faults + 1
    /\ tries' = [tries EXCEPT ![c] = @ + 1]
    /\ Goto(c, IF tries[c] < Attempts[c] THEN "call" ELSE "rejected")
    /\ UNCHANGED <<decimalsCache, result>>

\* Nothing is remembered of a rejection; retry waits and calls again.
CallRejects(c) ==
    /\ at[c] = "decimals"
    /\ faults < MaxFaults
    /\ faults' = faults + 1
    /\ tries' = [tries EXCEPT ![c] = @ + 1]
    /\ Goto(c, IF tries[c] + 1 < Attempts[c] THEN "call" ELSE "rejected")
    /\ UNCHANGED <<decimalsCache, result>>

Next == \E c \in Callers : GetTokenDecimals(c) \/ Decimals(c) \/ CallRejects(c)

Spec == Init /\ [][Next]_vars

\* An RPC call is answered or rejected, and pauses end.
FairSpec ==
    Spec /\ \A c \in Callers :
        WF_vars(GetTokenDecimals(c) \/ Decimals(c) \/ CallRejects(c))

-----------------------------------------------------------------------------
(* Properties                                                              *)

\* What is cached was answered: an entry is one that some caller's RPC call
\* returned for the token, under whatever spelling; failed calls leave none.
CachedWasAnswered ==
    decimalsCache = {Key(c) : c \in {d \in Callers : result[d] = "number"}}

\* The inductive invariant: whoever is answered leaves an entry or had one, and
\* nobody gives up before its last attempt.
CacheInv ==
    /\ decimalsCache \subseteq {Key(c) : c \in Callers}
    /\ at \in [Callers -> {"call", "decimals", "answered", "rejected"}]
    /\ tries \in [Callers -> Nat]
    /\ result \in [Callers -> {"none", "number", "bigint"}]
    /\ faults \in 0..MaxFaults
    /\ CachedWasAnswered
    /\ \A c \in Callers :
        /\ at[c] = "answered" <=> result[c] # "none"
        /\ at[c] = "answered" => Key(c) \in decimalsCache
        /\ IF at[c] = "rejected" THEN tries[c] = Attempts[c] ELSE tries[c] < Attempts[c]

\* A caller whose attempt failed is saved by anybody else's success with the
\* same token: its next attempt needs no RPC call and cannot fail.
SavedByOthers ==
    \A c, d \in Callers : Address[c].token = Address[d].token =>
        (at[c] = "call" /\ at[d] = "answered") ~> (result[c] = "bigint")

\* Every caller is answered, or rejected after exactly its attempts.
CallersEnd ==
    \A c \in Callers :
        <>(at[c] = "answered" \/ (at[c] = "rejected" /\ tries[c] = Attempts[c]))

=============================================================================
