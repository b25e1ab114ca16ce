----------------------------- MODULE AuthLedger -----------------------------
(***************************************************************************)
(* What logging in promises, whatever requests cross each other and        *)
(* whatever fails.  Entries name an account and a serial number that is    *)
(* used once.                                                              *)
(*   - An account has at most one live nonce.  A login is admitted only    *)
(*     with it, and opens a session only when the nonce can admit nobody   *)
(*     else any more.                                                      *)
(*   - An admitted login opens at most one session, and a session that is  *)
(*     not open any more never reopens.                                    *)
(*   - Access is granted at the moment a session is opened, or at a moment *)
(*     when a session of the account is open.                              *)
(*   - Nothing but a logout, which closes all sessions of its account, or  *)
(*     their age closes sessions.                                          *)
(***************************************************************************)
CONSTANTS Users, Serials

VARIABLES
    issued,     \* nonces handed out so far,
    live,       \*   and those that still admit a login
    admitted,   \* logins on their way to a session
    opened,     \* sessions opened so far,
    open,       \*   and those that are still good
    granted     \* grants of access

ledger == <<issued, live, admitted, opened, open, granted>>

Entry == [user : Users, serial : Serials]
Login == [user : Users, serial : Serials, nonce : Serials]

Of(a) == [user |-> a.user, serial |-> a.serial]
NonceOf(a) == [user |-> a.user, serial |-> a.nonce]

Init ==
    /\ issued = {} /\ live = {} /\ admitted = {}
    /\ opened = {} /\ open = {} /\ granted = {}

Issue(n) ==
    /\ n \in Entry \ issued
    /\ issued' = issued \union {n}
    /\ live' = {m \in live : m.user # n.user} \union {n}
    /\ UNCHANGED <<admitted, opened, open, granted>>

Revoke(n) ==
    /\ live' = live \ {n}
    /\ UNCHANGED <<issued, admitted, opened, open, granted>>

Admit(a) ==
    /\ a \in Login
    /\ NonceOf(a) \in live
    /\ admitted' = admitted \union {a}
    /\ UNCHANGED <<issued, live, opened, open, granted>>

Abandon(a) ==
    /\ admitted' = admitted \ {a}
    /\ UNCHANGED <<issued, live, opened, open, granted>>

Open(a) ==
    /\ a \in admitted
    /\ NonceOf(a) \notin live
    /\ Of(a) \notin opened
    /\ admitted' = admitted \ {a}
    /\ opened' = opened \union {Of(a)}
    /\ open' = open \union {Of(a)}
    /\ granted' = granted \union {Of(a)}
    /\ UNCHANGED <<issued, live>>

Grant(g) ==
    /\ g \in Entry \ granted
    /\ \E s \in open : s.user = g.user
    /\ granted' = granted \union {g}
    /\ UNCHANGED <<issued, live, admitted, opened, open>>

Expire(s) ==
    /\ open' = open \ {s}
    /\ UNCHANGED <<issued, live, admitted, opened, granted>>

CloseAll(u) ==
    /\ open' = {s \in open : s.user # u}
    /\ UNCHANGED <<issued, live, admitted, opened, granted>>

Next ==
    \/ \E e \in Entry : Issue(e) \/ Revoke(e) \/ Grant(e) \/ Expire(e)
    \/ \E a \in Login : Admit(a) \/ Abandon(a) \/ Open(a)
    \/ \E u \in Users : CloseAll(u)

Spec == Init /\ [][Next]_ledger

=============================================================================
