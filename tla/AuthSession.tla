---------------------------- MODULE AuthSession ----------------------------
(***************************************************************************)
(* Logging in with a signed nonce, refreshing the access token and logging *)
(* out: AuthController, AuthUseCase, RefreshTokenUseCase and the services  *)
(* below them, against the nonces in Redis and the "users" and             *)
(* "refresh_tokens" tables.                                                *)
(*                                                                         *)
(* The handlers of all HTTP requests interleave at every awaited call to   *)
(* Redis or PostgreSQL; at names the call a request awaits, and the action *)
(* of that call runs the handler up to the next one.  Signing and checking *)
(* a JWT or a signature is synchronous work behind an await, which lets no *)
(* other handler in, so it belongs to the step around it.                  *)
(*                                                                         *)
(* A browser signs the last nonce it received, and its cookies change when *)
(* it receives an answer.  Requests that the rate limiter or JwtAuthGuard  *)
(* turns away change nothing and are not among the Requests.               *)
(***************************************************************************)
EXTENDS Naturals

CONSTANTS
    Users,          \* lower-cased addresses
    Browsers,
    Account,        \* the address each browser's wallet signs for
    Requests,       \* serial numbers of HTTP requests
    Traders,        \* addresses the order indexer may register meanwhile
    None,
    OneAtATime,     \* an account's browsers wait for an answer before they
                    \* send the next request (an assumption on the users)
    MaxFaults,      \* bound: Redis or database calls that reject
    MaxExpiries     \* bound: nonces, tokens, rows and cookies that expire

ASSUME AuthAssumption ==
    /\ Account \in [Browsers -> Users]
    /\ Traders \subseteq Users
    /\ None \notin Requests \union Browsers
    /\ OneAtATime \in BOOLEAN
    /\ MaxFaults \in Nat
    /\ MaxExpiries \in Nat

VARIABLES
    users,      \* "users" table
    nonce,      \* Redis: the request that stored the nonce of each address
    rows,       \* "refresh_tokens" table: the login of each row, and those
    rowOver,    \*   whose expiresAt has passed or
    jwtOver,    \*   whose token has expired
    req,        \* the requests sent
    at,         \* where each of them stands
    received,   \* requests whose answer the browser has received
    held,       \* browsers: the last nonce received,
    access,     \*   whether there is a good access_token cookie, and
    session,    \*   the session_id cookie
    faults,     \* rejected calls so far
    expiries    \* expiries so far

serverVars == <<users, nonce, rows>>
timeVars == <<rowOver, jwtOver, expiries>>
browserVars == <<received, held, access, session>>
vars == <<serverVars, timeVars, browserVars, req, at, faults>>

Running == {"setex",
            "get", "del", "getUser", "createUser", "findUser", "insert",
            "findSession",
            "delNonce", "deleteMany"}

\* "ok": 200; "invalid": an UnauthorizedException that says so; "noUser":
\* 'User not found'; "failed": any other error.
Answers == {"ok", "invalid", "noUser", "failed"}

\* arg is what the request carries: the nonce that was signed, or the session
\* cookie.  before is history: the requests of the account, other than
\* refreshes, that had succeeded when this one was sent.
Request == [op : {"nonce", "verify", "refresh", "logout"}, by : Browsers,
            arg : Requests \union {None}, before : SUBSET Requests]

Unsent == [op |-> "none", by |-> None, arg |-> None, before |-> {}]

Who(r) == Account[req[r].by]

\* The logins that ended well: each has left a session.
Logins == {r \in Requests : req[r].op = "verify" /\ at[r] = "ok"}

TypeOK ==
    /\ users \subseteq Users
    /\ nonce \in [Users -> Requests \union {None}]
    /\ rows \subseteq Requests
    /\ rowOver \subseteq Requests
    /\ jwtOver \subseteq Requests
    /\ req \in [Requests -> Request \union {Unsent}]
    /\ at \in [Requests -> Running \union Answers \union {"unsent"}]
    /\ received \subseteq Requests
    /\ held \in [Browsers -> Requests \union {None}]
    /\ access \in [Browsers -> BOOLEAN]
    /\ session \in [Browsers -> Requests \union {None}]
    /\ faults \in 0..MaxFaults
    /\ expiries \in 0..MaxExpiries

Init ==
    /\ users = {}
    /\ nonce = [u \in Users |-> None]
    /\ rows = {} /\ rowOver = {} /\ jwtOver = {}
    /\ req = [r \in Requests |-> Unsent]
    /\ at = [r \in Requests |-> "unsent"]
    /\ received = {}
    /\ held = [b \in Browsers |-> None]
    /\ access = [b \in Browsers |-> FALSE]
    /\ session = [b \in Browsers |-> None]
    /\ faults = 0 /\ expiries = 0

Goto(r, label) == at' = [at EXCEPT ![r] = label]

-----------------------------------------------------------------------------
(* Browsers                                                                *)

Succeeded(u) == {r \in Requests : at[r] = "ok" /\ req[r].op # "refresh" /\ Who(r) = u}

\* No request of the account is on its way.
Quiet(u) == \A r \in Requests : at[r] # "unsent" /\ Who(r) = u => r \in received

Send(b, op, arg, label) ==
    /\ OneAtATime => Quiet(Account[b])
    /\ \E r \in Requests :
        /\ at[r] = "unsent"
        /\ r = CHOOSE q \in Requests : at[q] = "unsent"
        /\ req' = [req EXCEPT ![r] = 
                   [op |-> op, by |-> b, arg |-> arg, before |-> Succeeded(Account[b])]]
        /\ Goto(r, label)
    /\ UNCHANGED <<serverVars, timeVars, browserVars, faults>>

RequestNonce(b) == Send(b, "nonce", None, "setex")

VerifySignature(b) == held[b] # None /\ Send(b, "verify", held[b], "get")

RefreshToken(b) == Send(b, "refresh", session[b], "findSession")

\* JwtAuthGuard lets nobody else in.
Logout(b) == access[b] /\ Send(b, "logout", None, "delNonce")

\* The cookies of the answer.  logout clears them before it calls the use
\* case, so an answer that reports an error clears them as well.
Receive(r) ==
    LET b == req[r].by
        op == req[r].op
        granted == at[r] = "ok" /\ op \in {"verify", "refresh"}
    IN  /\ at[r] \in Answers
        /\ r \notin received
        /\ received' = received \union {r}
        /\ held' = IF op = "nonce" /\ at[r] = "ok" THEN [held EXCEPT ![b] = r] ELSE held
        /\ access' = IF granted THEN [access EXCEPT ![b] = TRUE]
                     ELSE IF op = "logout" THEN [access EXCEPT ![b] = FALSE] ELSE access
        /\ session' = IF granted /\ op = "verify" THEN [session EXCEPT ![b] = r]
                      ELSE IF op = "logout" THEN [session EXCEPT ![b] = None] ELSE session
        /\ UNCHANGED <<serverVars, timeVars, req, at, faults>>

-----------------------------------------------------------------------------
(* generateNonce                                                           *)

\* setex replaces the nonce the address may have had.
StoreNonce(r) ==
    /\ at[r] = "setex"
    /\ nonce' = [nonce EXCEPT ![Who(r)] = r]
    /\ Goto(r, "ok")
    /\ UNCHANGED <<users, rows, timeVars, browserVars, req, faults>>

-----------------------------------------------------------------------------
(* verifySignature                                                         *)

\* The signature recovers the address only from the nonce that was signed.
SignatureValid(r) == nonce[Who(r)] = req[r].arg

GetNonce(r) ==
    /\ at[r] = "get"
    /\ Goto(r, IF SignatureValid(r) THEN "del" ELSE "invalid")
    /\ UNCHANGED <<serverVars, timeVars, browserVars, req, faults>>

\* Slip: the nonce is left to expire.
DeleteNonceNot(r) ==
    /\ at[r] = "del"
    /\ Goto(r, "getUser")
    /\ UNCHANGED <<serverVars, timeVars, browserVars, req, faults>>

\* Whatever nonce the address has by now is deleted.
DeleteNonce(r) ==
    /\ at[r] = "del"
    /\ nonce' = [nonce EXCEPT ![Who(r)] = None]
    /\ Goto(r, "getUser")
    /\ UNCHANGED <<users, rows, timeVars, browserVars, req, faults>>

\* Slip: the wrong way round.
GetUserInverted(r) ==
    /\ at[r] = "getUser"
    /\ Goto(r, IF Who(r) \in users THEN "createUser" ELSE "findUser")
    /\ UNCHANGED <<serverVars, timeVars, browserVars, req, faults>>

GetUser(r) ==
    /\ at[r] = "getUser"
    /\ Goto(r, IF Who(r) \in users THEN "findUser" ELSE "createUser")
    /\ UNCHANGED <<serverVars, timeVars, browserVars, req, faults>>

\* Slip: a user another request creates later will do, so an error is
\* swallowed.
CreateUserSwallows(r) ==
    /\ at[r] = "createUser"
    /\ Goto(r, "findUser")
    /\ UNCHANGED <<serverVars, timeVars, browserVars, req, faults>>

\* Slip: an insert that fails is waited for.
CreateUserWaits(r) ==
    /\ at[r] = "createUser"
    /\ Who(r) \notin users
    /\ users' = users \union {Who(r)}
    /\ Goto(r, "findUser")
    /\ UNCHANGED <<nonce, rows, timeVars, browserVars, req, faults>>

\* Another login or the order indexer may have registered the address since:
\* the insert violates the primary key and the request ends with an error.
CreateUser(r) ==
    /\ at[r] = "createUser"
    /\ \/ Who(r) \notin users /\ users' = users \union {Who(r)} /\ Goto(r, "findUser")
       \/ Who(r) \in users /\ UNCHANGED users /\ Goto(r, "failed")
    /\ UNCHANGED <<nonce, rows, timeVars, browserVars, req, faults>>

\* createRefreshToken looks the user up again.
FindUser(r) ==
    /\ at[r] = "findUser"
    /\ Goto(r, IF Who(r) \in users THEN "insert" ELSE "noUser")
    /\ UNCHANGED <<serverVars, timeVars, browserVars, req, faults>>

\* Slip: the answer does not wait for the row.
InsertTokenNot(r) ==
    /\ at[r] = "insert"
    /\ Goto(r, "ok")
    /\ UNCHANGED <<serverVars, timeVars, browserVars, req, faults>>

\* The row of the new session, and the answer with both cookies.
InsertToken(r) ==
    /\ at[r] = "insert"
    /\ rows' = rows \union {r}
    /\ Goto(r, "ok")
    /\ UNCHANGED <<users, nonce, timeVars, browserVars, req, faults>>

-----------------------------------------------------------------------------
(* refreshAccessToken                                                      *)

\* Slip: the row alone decides; its token and its age are not looked at.
FindSessionOnly(r) ==
    /\ at[r] = "findSession"
    /\ Goto(r, IF req[r].arg \in rows THEN "ok" ELSE "invalid")
    /\ UNCHANGED <<serverVars, timeVars, browserVars, req, faults>>

\* The row is there, its token has not expired, and neither has the row.
RefreshTokenValid(r) == req[r].arg \in rows \ (jwtOver \union rowOver)

\* No cookie, no row, an expired token and an expired row, whose own exception
\* is caught by the catch around it, all come out as 'Invalid ...'.
FindSession(r) ==
    /\ at[r] = "findSession"
    /\ Goto(r, IF RefreshTokenValid(r) THEN "ok" ELSE "invalid")
    /\ UNCHANGED <<serverVars, timeVars, browserVars, req, faults>>

-----------------------------------------------------------------------------
(* logout                                                                  *)

LogoutDeletesNonce(r) ==
    /\ at[r] = "delNonce"
    /\ nonce' = [nonce EXCEPT ![Who(r)] = None]
    /\ Goto(r, "deleteMany")
    /\ UNCHANGED <<users, rows, timeVars, browserVars, req, faults>>

\* Slip: only the sessions of the browser that logs out are deleted.
DeleteSessionsOfBrowser(r) ==
    /\ at[r] = "deleteMany"
    /\ rows' = {s \in rows : req[s].by # req[r].by}
    /\ Goto(r, "ok")
    /\ UNCHANGED <<users, nonce, timeVars, browserVars, req, faults>>

\* deleteManyByUserAddress.
DeleteSessions(r) ==
    /\ at[r] = "deleteMany"
    /\ rows' = {s \in rows : Who(s) # Who(r)}
    /\ Goto(r, "ok")
    /\ UNCHANGED <<users, nonce, timeVars, browserVars, req, faults>>

-----------------------------------------------------------------------------
(* What else happens                                                       *)

\* A call rejects, or the process dies; the browser, if it hears anything,
\* hears of an error.
CallRejects(r) ==
    /\ at[r] \in Running
    /\ faults < MaxFaults
    /\ faults' = faults + 1
    /\ Goto(r, "failed")
    /\ UNCHANGED <<serverVars, timeVars, browserVars, req>>

\* A handler of the order indexer registers the owner of an order.
IndexerRegisters(u) ==
    /\ u \in Traders \ users
    /\ users' = users \union {u}
    /\ UNCHANGED <<nonce, rows, timeVars, browserVars, req, at, faults>>

\* The expiry of the nonce's key in Redis, of a row, of its token, and of the
\* cookies and the access token are set independently of each other.
Expiry ==
    /\ expiries < MaxExpiries
    /\ expiries' = expiries + 1
    /\ \/ /\ \E u \in Users : nonce[u] # None /\ nonce' = [nonce EXCEPT ![u] = None]
          /\ UNCHANGED <<rows, rowOver, jwtOver, access, session>>
       \/ /\ \E s \in rows \ rowOver : rowOver' = rowOver \union {s}
          /\ UNCHANGED <<nonce, rows, jwtOver, access, session>>
       \/ /\ \E s \in rows \ jwtOver : jwtOver' = jwtOver \union {s}
          /\ UNCHANGED <<nonce, rows, rowOver, access, session>>
       \/ /\ \E b \in Browsers : access[b] /\ access' = [access EXCEPT ![b] = FALSE]
          /\ UNCHANGED <<nonce, rows, rowOver, jwtOver, session>>
       \/ /\ \E b \in Browsers : session[b] # None /\ session' = [session EXCEPT ![b] = None]
          /\ UNCHANGED <<nonce, rows, rowOver, jwtOver, access>>
    /\ UNCHANGED <<users, req, at, received, held, faults>>

-----------------------------------------------------------------------------

Handle(r) ==
    \/ StoreNonce(r)
    \/ GetNonce(r) \/ DeleteNonce(r) \/ GetUser(r) \/ CreateUser(r)
    \/ FindUser(r) \/ InsertToken(r)
    \/ FindSession(r)
    \/ LogoutDeletesNonce(r) \/ DeleteSessions(r)

Next ==
    \/ \E b \in Browsers :
        RequestNonce(b) \/ VerifySignature(b) \/ RefreshToken(b) \/ Logout(b)
    \/ \E r \in Requests : Receive(r) \/ Handle(r) \/ CallRejects(r)
    \/ \E u \in Users : IndexerRegisters(u)
    \/ Expiry

Spec == Init /\ [][Next]_vars

\* Node's event loop resumes every handler.  Nothing is assumed of browsers,
\* the network, faults and time.
FairSpec == Spec /\ \A r \in Requests : WF_vars(Handle(r))

-----------------------------------------------------------------------------
(* Properties                                                              *)

Entry(r) == [user |-> Who(r), serial |-> r]

\* A session a refresh would accept.
Good(s) == s \in rows \ (rowOver \union jwtOver)

\* What the ledger sees of the backend.
IssuedNonces == {Entry(r) : r \in {x \in Requests : req[x].op = "nonce" /\ at[x] = "ok"}}

LiveNonces ==
    {[user |-> u, serial |-> nonce[u]] : u \in {v \in Users : nonce[v] # None}}

AdmittedCalls == {"del", "getUser", "createUser", "findUser", "insert"}

AdmittedAs(r) == [user |-> Who(r), serial |-> r, nonce |-> req[r].arg]

AdmittedLogins == {AdmittedAs(r) : r \in {x \in Requests : at[x] \in AdmittedCalls}}

OpenedSessions == {Entry(s) : s \in Logins}

OpenSessions == {Entry(s) : s \in {x \in Logins : Good(x)}}

Grants ==
    {Entry(r) : r \in {x \in Requests : req[x].op \in {"verify", "refresh"} /\ at[x] = "ok"}}

Ledger == INSTANCE AuthLedger WITH
    Serials  <- Requests,
    issued   <- IssuedNonces,
    live     <- LiveNonces,
    admitted <- AdmittedLogins,
    opened   <- OpenedSessions,
    open     <- OpenSessions,
    granted  <- Grants

\* The backend keeps the promises of AuthLedger however the requests of an
\* account cross each other and whatever fails: a session needs the live nonce
\* of its account, which is spent when the session opens, access is granted
\* only while a session is open, and what a logout or its age has closed stays
\* closed.
LedgerSpec == Ledger!Spec

\* What an account had when a logout was sent, nonces and sessions, is of no
\* use to any request sent after that logout was answered.
LogoutStands ==
    \A r \in Requests : \A l \in req[r].before :
        req[l].op = "logout" /\ req[r].arg \in req[l].before => at[r] # "ok"

\* Two logins in flight may share a nonce, but once a login that used it is
\* answered, nobody else gets in with the same nonce.
NonceSpent ==
    \A r \in Requests : \A v \in req[r].before :
        req[r].op = "verify" /\ req[v].op = "verify" /\ req[r].arg = req[v].arg
            => at[r] # "ok"

\* A session cookie has its row as long as no logout that could have ended the
\* session went through: an answer never runs ahead of the table.
CookieBacked ==
    \A b \in Browsers : session[b] # None =>
        \/ session[b] \in rows
        \/ \E l \in Requests :
            /\ req[l].op = "logout" /\ at[l] = "ok"
            /\ Who(l) = Account[b]
            /\ l \notin req[session[b]].before

\* getOrCreate always leaves a row behind for createRefreshToken to find:
\* 'User not found' is never thrown, and no session lacks its user.
UserAlwaysFound ==
    \A r \in Requests : at[r] # "noUser" /\ (r \in rows => Who(r) \in users)

\* Every request is answered.
RequestsEnd == \A r \in Requests : (at[r] \in Running) ~> (at[r] \in Answers)

\* With one request of the account at a time, a login with the nonce just
\* received succeeds, on whichever browser, before and after logouts on the
\* others, unless a call rejects, something expires, or the order indexer
\* registers the account at that moment.
LoginWorks ==
    \A r \in Requests :
        (/\ at[r] = "get" /\ nonce[Who(r)] = req[r].arg
         /\ Who(r) \in users \/ Who(r) \notin Traders)
            ~> (at[r] = "ok")

-----------------------------------------------------------------------------
(* What makes these properties inductive                                   *)

UsedNonce == {"getUser", "createUser", "findUser", "insert", "ok"}

\* Each kind of request waits for calls of its own.
OwnCalls ==
    \A r \in Requests :
        /\ at[r] = "unsent" <=> req[r] = Unsent
        /\ at[r] = "setex" => req[r].op = "nonce"
        /\ at[r] \in {"get", "del", "getUser", "createUser", "findUser", "insert"} =>
                req[r].op = "verify"
        /\ at[r] = "findSession" => req[r].op = "refresh"
        /\ at[r] \in {"delNonce", "deleteMany"} => req[r].op = "logout"

IsNonce(x, u) == x \in Requests /\ req[x].op = "nonce" /\ at[x] = "ok" /\ Who(x) = u

IsLogin(x, u) == x \in Logins /\ Who(x) = u

\* Nonces and sessions come from where they should: the account's own requests.
Provenance ==
    /\ \A u \in Users : nonce[u] = None \/ IsNonce(nonce[u], u)
    /\ \A b \in Browsers :
        /\ held[b] = None \/ IsNonce(held[b], Account[b])
        /\ session[b] = None \/ IsLogin(session[b], Account[b])
    /\ \A r \in Requests :
        /\ req[r].op = "verify" => IsNonce(req[r].arg, Who(r))
        /\ req[r].op = "refresh" => req[r].arg = None \/ IsLogin(req[r].arg, Who(r))
        /\ req[r].op \in {"nonce", "logout"} => req[r].arg = None
    /\ rows \union rowOver \union jwtOver \subseteq Logins

\* The history of a request is what its account had done by then.
PastIsPast ==
    \A r \in Requests : \A x \in req[r].before :
        at[x] = "ok" /\ Who(x) = Who(r)

\* A nonce that a login has deleted, and what a logout has deleted so far,
\* does not come back.
DeletedIsGone ==
    /\ \A v \in Requests : req[v].op = "verify" /\ at[v] \in UsedNonce =>
            nonce[Who(v)] # req[v].arg
    /\ \A l \in Requests : req[l].op = "logout" =>
            /\ at[l] \in {"deleteMany", "ok"} => nonce[Who(l)] \notin req[l].before
            /\ at[l] = "ok" => rows \intersect req[l].before = {}

\* So a login that comes too late is stuck before it deletes the nonce.
LateLoginsFail ==
    \A r, x \in Requests : req[r].op = "verify" /\ x \in req[r].before
        /\ \/ req[x].op = "verify" /\ req[r].arg = req[x].arg
           \/ req[x].op = "logout" /\ req[r].arg \in req[x].before
        => at[r] \in {"get", "invalid", "failed"}

\* A session whose row is gone met a logout.
ClosedByLogout ==
    \A s \in Logins \ rows : \E l \in Requests :
        req[l].op = "logout" /\ at[l] = "ok" /\ Who(l) = Who(s) /\ l \notin req[s].before

\* The user is there once getOrCreate has returned.
UserBeforeSession ==
    \A r \in Requests :
        /\ at[r] # "noUser"
        /\ at[r] \in {"findUser", "insert"} \/ r \in rows => Who(r) \in users

\* The inductive invariant.
AuthInv ==
    /\ TypeOK
    /\ OwnCalls
    /\ Provenance
    /\ PastIsPast
    /\ DeletedIsGone
    /\ LateLoginsFail
    /\ LogoutStands
    /\ ClosedByLogout
    /\ UserBeforeSession

=============================================================================
