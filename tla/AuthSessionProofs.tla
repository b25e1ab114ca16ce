------------------------- MODULE AuthSessionProofs -------------------------
(***************************************************************************)
(* What logging in guarantees for any number of accounts, browsers and     *)
(* requests, of rejected calls and of expiries.                            *)
(***************************************************************************)
EXTENDS AuthSession, TLAPS

\* Initially nothing has been sent and nothing stored.
LEMMA InitEstablishes == Init => AuthInv
<1> SUFFICES ASSUME Init PROVE AuthInv
  OBVIOUS
<1> USE AuthAssumption DEF Init
<1>1. TypeOK
  BY DEF TypeOK, Request, Unsent
<1>2. OwnCalls
  BY DEF OwnCalls, Unsent
<1>3. Provenance /\ Logins = {}
  BY DEF Provenance, Logins, Unsent
<1>4. PastIsPast /\ DeletedIsGone /\ LateLoginsFail /\ LogoutStands
  BY DEF PastIsPast, DeletedIsGone, LateLoginsFail, LogoutStands, Unsent
<1>5. ClosedByLogout
  BY <1>3 DEF ClosedByLogout
<1>6. UserBeforeSession
  BY DEF UserBeforeSession
<1> QED
  BY <1>1, <1>2, <1>3, <1>4, <1>5, <1>6 DEF AuthInv

\* What is known of a request: who sent it, and what it carries.
LEMMA RequestParts ==
    ASSUME AuthInv, NEW r \in Requests
    PROVE  /\ at[r] \in Running \union Answers \union {"unsent"}
           /\ req[r].before \subseteq Requests
           /\ at[r] # "unsent" => req[r] \in Request /\ Who(r) \in Users
           /\ at[r] = "unsent" => req[r] = Unsent
BY AuthAssumption DEF AuthInv, TypeOK, OwnCalls, Request, Unsent, Who

-----------------------------------------------------------------------------
(* Steps of a handler                                                      *)

\* A handler that moves on, or ends, is in nobody's past yet, and disturbs
\* neither the other requests nor anybody's past.
LEMMA HandlerMoves ==
    ASSUME AuthInv, NEW r \in Requests, at[r] \in Running,
           NEW label \in Running \union Answers,
           label \notin {"setex", "get", "findSession", "delNonce"},
           label \in {"del", "getUser", "createUser", "findUser", "insert"} =>
                req[r].op = "verify",
           label = "deleteMany" => req[r].op = "logout",
           Goto(r, label), req' = req
    PROVE  /\ at' \in [Requests -> Running \union Answers \union {"unsent"}]
           /\ at'[r] = label /\ at[r] # "ok"
           /\ \A x \in Requests \ {r} : at'[x] = at[x]
           /\ \A x \in Requests : r \notin req[x].before
           /\ \A x : Who(x)' = Who(x)
           /\ OwnCalls'
           /\ PastIsPast'
<1>1. /\ at \in [Requests -> Running \union Answers \union {"unsent"}]
      /\ at[r] \notin {"ok", "unsent"}
  BY DEF AuthInv, TypeOK, Running
<1>2. /\ at' \in [Requests -> Running \union Answers \union {"unsent"}]
      /\ at'[r] = label
      /\ \A x \in Requests \ {r} : at'[x] = at[x]
  BY <1>1 DEF Goto
<1>3. \A x \in Requests : r \notin req[x].before
  BY <1>1 DEF AuthInv, PastIsPast
<1>4. \A x : Who(x)' = Who(x)
  BY DEF Who
<1>5. OwnCalls'
  <2>1. label # "unsent"
    BY DEF Running, Answers
  <2> QED
    BY <1>1, <1>2, <2>1 DEF AuthInv, OwnCalls
<1>6. PastIsPast'
  BY <1>2, <1>3, <1>4, RequestParts DEF AuthInv, PastIsPast
<1> QED
  BY <1>1, <1>2, <1>3, <1>4, <1>5, <1>6

\* The live nonce of an account is not one that a login in the past has spent,
\* or that a logout in the past has revoked.
LEMMA LiveNonceIsFresh ==
    ASSUME AuthInv, NEW r \in Requests, at[r] = "get", nonce[Who(r)] = req[r].arg
    PROVE  \A x \in req[r].before :
              /\ req[x].op = "verify" => req[r].arg # req[x].arg
              /\ req[x].op = "logout" => req[r].arg \notin req[x].before
BY RequestParts DEF AuthInv, PastIsPast, DeletedIsGone, UsedNonce

\* A session that is still there is not one that a logout has deleted.
LEMMA SessionIsFresh ==
    ASSUME AuthInv, NEW r \in Requests, req[r].arg \in rows
    PROVE  \A x \in req[r].before : req[x].op = "logout" => req[r].arg \notin req[x].before
BY RequestParts DEF AuthInv, PastIsPast, DeletedIsGone

\* A step of a handler that changes no nonce and no session keeps everything:
\* it ends without success, admits a login with the live nonce, goes on with
\* an admitted login, or refreshes a session that is there.
LEMMA PlainMoveKeeps ==
    ASSUME AuthInv, NEW r \in Requests, at[r] \in Running,
           NEW label \in Running \union Answers,
           \/ label \in {"invalid", "failed"}
           \/ at[r] = "get" /\ label = "del" /\ nonce[Who(r)] = req[r].arg
           \/ at[r] \in {"getUser", "createUser", "findUser"}
              /\ label \in {"createUser", "findUser", "insert"}
           \/ at[r] = "findSession" /\ label = "ok" /\ req[r].arg \in rows,
           label \in {"findUser", "insert"} => Who(r) \in users',
           Goto(r, label), req' = req,
           UNCHANGED <<nonce, rows, rowOver, jwtOver, browserVars>>,
           users \subseteq users', TypeOK'
    PROVE  AuthInv'
<1>0. /\ at[r] \in {"get", "getUser", "createUser", "findUser"} => req[r].op = "verify"
      /\ at[r] = "findSession" => req[r].op = "refresh"
  BY DEF AuthInv, OwnCalls
<1>1. /\ at'[r] = label /\ at[r] # "ok"
      /\ \A x \in Requests \ {r} : at'[x] = at[x]
      /\ \A x \in Requests : r \notin req[x].before
      /\ \A x : Who(x)' = Who(x)
      /\ OwnCalls'
      /\ PastIsPast'
  BY <1>0, HandlerMoves
<1>2. Logins' = Logins
  BY <1>0, <1>1 DEF Logins
<1>3. Provenance'
  <2>1. \A x, u : IsNonce(x, u) => IsNonce(x, u)'
    BY <1>1 DEF IsNonce
  <2> QED
    BY <1>1, <1>2, <2>1 DEF AuthInv, Provenance, browserVars, IsLogin
<1>4. DeletedIsGone'
  BY <1>0, <1>1 DEF AuthInv, DeletedIsGone, UsedNonce
<1>5. LateLoginsFail'
  <2> SUFFICES ASSUME NEW q \in Requests, NEW x \in req[q].before,
                      req[q].op = "verify",
                      \/ req[x].op = "verify" /\ req[q].arg = req[x].arg
                      \/ req[x].op = "logout" /\ req[q].arg \in req[x].before
               PROVE  at'[q] \in {"get", "invalid", "failed"}
    BY DEF LateLoginsFail
  <2>1. at[q] \in {"get", "invalid", "failed"}
    BY RequestParts DEF AuthInv, LateLoginsFail
  <2> QED
    BY <1>0, <1>1, <2>1, LiveNonceIsFresh
<1>6. LogoutStands'
  BY <1>0, <1>1, SessionIsFresh DEF AuthInv, LogoutStands
<1>7. ClosedByLogout'
  BY <1>1, <1>2 DEF AuthInv, ClosedByLogout
<1>8. UserBeforeSession'
  BY <1>1 DEF AuthInv, UserBeforeSession
<1> QED
  BY <1>1, <1>3, <1>4, <1>5, <1>6, <1>7, <1>8 DEF AuthInv

\* The nonce that is stored is new: no login has spent it and no logout in
\* anybody's past has seen it.
LEMMA StoreNonceKeeps ==
    ASSUME AuthInv, NEW r \in Requests, StoreNonce(r), TypeOK'
    PROVE  AuthInv'
<1>0. /\ at[r] = "setex" /\ Goto(r, "ok") /\ req' = req
      /\ nonce' = [nonce EXCEPT ![Who(r)] = r]
      /\ req[r].op = "nonce" /\ Who(r) \in Users
      /\ nonce \in [Users -> Requests \union {None}]
      /\ UNCHANGED <<users, rows, rowOver, jwtOver, browserVars>>
  BY RequestParts DEF AuthInv, OwnCalls, StoreNonce, timeVars, TypeOK
<1>1. /\ at'[r] = "ok" /\ at[r] # "ok"
      /\ \A x \in Requests \ {r} : at'[x] = at[x]
      /\ \A x \in Requests : r \notin req[x].before
      /\ \A x : Who(x)' = Who(x)
      /\ OwnCalls'
      /\ PastIsPast'
  BY <1>0, HandlerMoves DEF Running, Answers
<1>2. Logins' = Logins
  BY <1>0, <1>1 DEF Logins
<1>3. Provenance'
  <2>1. \A x, u : IsNonce(x, u) => IsNonce(x, u)'
    BY <1>0, <1>1 DEF IsNonce
  <2>2. IsNonce(r, Who(r))'
    BY <1>0, <1>1 DEF IsNonce
  <2>3. \A u \in Users : (nonce[u] = None \/ IsNonce(nonce[u], u))'
    BY <1>0, <1>1, <2>1, <2>2 DEF AuthInv, Provenance
  <2> QED
    BY <1>0, <1>1, <1>2, <2>1, <2>3 DEF AuthInv, Provenance, browserVars, IsLogin
<1>4. DeletedIsGone'
  <2>1. \A v \in Requests : req[v].op = "verify" => req[v].arg # r
    BY <1>0 DEF AuthInv, Provenance, IsNonce
  <2>2. \A v \in Requests : req[v].op = "verify" /\ at[v] \in UsedNonce =>
            nonce'[Who(v)] # req[v].arg
    BY <1>0, <2>1, RequestParts DEF AuthInv, DeletedIsGone, UsedNonce
  <2>3. \A l \in Requests : req[l].op = "logout" /\ at[l] \in {"deleteMany", "ok"} =>
            nonce'[Who(l)] \notin req[l].before
    BY <1>0, <1>1, RequestParts DEF AuthInv, DeletedIsGone
  <2> QED
    BY <1>0, <1>1, <2>2, <2>3 DEF AuthInv, DeletedIsGone
<1>5. LateLoginsFail'
  BY <1>0, <1>1 DEF AuthInv, LateLoginsFail
<1>6. LogoutStands'
  <2>1. req[r].arg = None
    BY <1>0 DEF AuthInv, Provenance
  <2>2. \A x \in Requests : None \notin req[x].before
    BY AuthAssumption, RequestParts
  <2> QED
    BY <1>0, <1>1, <2>1, <2>2, RequestParts DEF AuthInv, LogoutStands
<1>7. ClosedByLogout'
  BY <1>0, <1>1, <1>2 DEF AuthInv, ClosedByLogout
<1>8. UserBeforeSession'
  BY <1>0, <1>1 DEF AuthInv, UserBeforeSession
<1> QED
  BY <1>1, <1>3, <1>4, <1>5, <1>6, <1>7, <1>8 DEF AuthInv

\* A nonce that is taken away is missed by none of the invariants ...
LEMMA NonceGone ==
    ASSUME AuthInv, NEW u \in Users, nonce' = [nonce EXCEPT ![u] = None]
    PROVE  /\ nonce'[u] = None
           /\ \A v \in Users : nonce'[v] = None \/ nonce'[v] = nonce[v]
           /\ \A x \in Requests : req[x].op = "verify" => req[x].arg # None
           /\ \A x \in Requests : None \notin req[x].before
BY AuthAssumption, RequestParts DEF AuthInv, TypeOK, Provenance, IsNonce

\* ... whoever takes it: a login that was admitted with it or with an earlier
\* one, or a logout on its way to the sessions.
LEMMA RevokeKeeps ==
    ASSUME AuthInv, NEW r \in Requests, DeleteNonce(r) \/ LogoutDeletesNonce(r), TypeOK'
    PROVE  AuthInv'
<1> DEFINE label == IF at[r] = "del" THEN "getUser" ELSE "deleteMany"
<1>0. /\ \/ at[r] = "del" /\ req[r].op = "verify"
         \/ at[r] = "delNonce" /\ req[r].op = "logout"
      /\ Goto(r, label) /\ req' = req
      /\ nonce' = [nonce EXCEPT ![Who(r)] = None]
      /\ Who(r) \in Users
      /\ UNCHANGED <<users, rows, rowOver, jwtOver, browserVars>>
  BY RequestParts DEF AuthInv, OwnCalls, DeleteNonce, LogoutDeletesNonce, timeVars
<1>1. /\ at'[r] = label /\ at[r] # "ok"
      /\ \A x \in Requests \ {r} : at'[x] = at[x]
      /\ \A x \in Requests : r \notin req[x].before
      /\ \A x : Who(x)' = Who(x)
      /\ OwnCalls'
      /\ PastIsPast'
  BY <1>0, HandlerMoves DEF Running
<1>2. Logins' = Logins
  BY <1>0, <1>1 DEF Logins
<1>3. Provenance'
  <2>1. \A x, u : IsNonce(x, u) => IsNonce(x, u)'
    BY <1>0, <1>1 DEF IsNonce
  <2>2. \A u \in Users : (nonce[u] = None \/ IsNonce(nonce[u], u))'
    BY <1>0, <2>1, NonceGone DEF AuthInv, Provenance
  <2> QED
    BY <1>0, <1>1, <1>2, <2>1, <2>2 DEF AuthInv, Provenance, browserVars, IsLogin
<1>4. DeletedIsGone'
  <2>1. /\ nonce'[Who(r)] = None
        /\ \A v \in Users : nonce'[v] = None \/ nonce'[v] = nonce[v]
        /\ \A x \in Requests : req[x].op = "verify" => req[x].arg # None
        /\ \A x \in Requests : None \notin req[x].before
    BY <1>0, NonceGone
  <2>2. \A v \in Requests : req[v].op = "verify" /\ at'[v] \in UsedNonce =>
            nonce'[Who(v)] # req[v].arg
    BY <1>0, <1>1, <2>1, RequestParts DEF AuthInv, DeletedIsGone, UsedNonce, OwnCalls, Unsent
  <2>3. \A l \in Requests : req[l].op = "logout" /\ at'[l] \in {"deleteMany", "ok"} =>
            nonce'[Who(l)] \notin req[l].before
    BY <1>0, <1>1, <2>1, RequestParts DEF AuthInv, DeletedIsGone
  <2>4. \A l \in Requests : req[l].op = "logout" /\ at'[l] = "ok" =>
            rows \intersect req[l].before = {}
    BY <1>0, <1>1 DEF AuthInv, DeletedIsGone
  <2> QED
    BY <1>0, <1>1, <2>2, <2>3, <2>4 DEF DeletedIsGone, UsedNonce
<1>5. LateLoginsFail'
  BY <1>0, <1>1 DEF AuthInv, LateLoginsFail
<1>6. LogoutStands'
  BY <1>0, <1>1 DEF AuthInv, LogoutStands
<1>7. ClosedByLogout'
  BY <1>0, <1>1, <1>2 DEF AuthInv, ClosedByLogout
<1>8. UserBeforeSession'
  BY <1>0, <1>1 DEF AuthInv, UserBeforeSession
<1> QED
  BY <1>1, <1>3, <1>4, <1>5, <1>6, <1>7, <1>8 DEF AuthInv

\* The session that a login opens is new, and so in nobody's past.
LEMMA InsertTokenKeeps ==
    ASSUME AuthInv, NEW r \in Requests, InsertToken(r), TypeOK'
    PROVE  AuthInv'
<1>0. /\ at[r] = "insert" /\ Goto(r, "ok") /\ req' = req
      /\ rows' = rows \union {r}
      /\ req[r].op = "verify"
      /\ UNCHANGED <<users, nonce, rowOver, jwtOver, browserVars>>
  BY DEF AuthInv, OwnCalls, InsertToken, timeVars
<1>1. /\ at'[r] = "ok" /\ at[r] # "ok"
      /\ \A x \in Requests \ {r} : at'[x] = at[x]
      /\ \A x \in Requests : r \notin req[x].before
      /\ \A x : Who(x)' = Who(x)
      /\ OwnCalls'
      /\ PastIsPast'
  BY <1>0, HandlerMoves DEF Running, Answers
<1>2. Logins' = Logins \union {r}
  BY <1>0, <1>1 DEF Logins
<1>3. Provenance'
  <2>1. \A x, u : IsNonce(x, u) => IsNonce(x, u)'
    BY <1>0, <1>1 DEF IsNonce
  <2> QED
    BY <1>0, <1>1, <1>2, <2>1 DEF AuthInv, Provenance, browserVars, IsLogin
<1>4. DeletedIsGone'
  BY <1>0, <1>1 DEF AuthInv, DeletedIsGone, UsedNonce
<1>5. LateLoginsFail'
  BY <1>0, <1>1 DEF AuthInv, LateLoginsFail
<1>6. LogoutStands'
  <2>1. \A x \in req[r].before :
            req[x].op = "logout" => req[r].arg \notin req[x].before
    BY <1>0, RequestParts DEF AuthInv, LateLoginsFail
  <2> QED
    BY <1>0, <1>1, <2>1 DEF AuthInv, LogoutStands
<1>7. ClosedByLogout'
  BY <1>0, <1>1, <1>2 DEF AuthInv, ClosedByLogout
<1>8. UserBeforeSession'
  BY <1>0, <1>1 DEF AuthInv, UserBeforeSession
<1> QED
  BY <1>1, <1>3, <1>4, <1>5, <1>6, <1>7, <1>8 DEF AuthInv

\* A logout takes the sessions of its account, all of its past among them, and
\* it is in the past of none of them.
LEMMA DeleteSessionsKeeps ==
    ASSUME AuthInv, NEW r \in Requests, DeleteSessions(r), TypeOK'
    PROVE  AuthInv'
<1>0. /\ at[r] = "deleteMany" /\ Goto(r, "ok") /\ req' = req
      /\ rows' = {s \in rows : Who(s) # Who(r)}
      /\ req[r].op = "logout"
      /\ UNCHANGED <<users, nonce, rowOver, jwtOver, browserVars>>
  BY DEF AuthInv, OwnCalls, DeleteSessions, timeVars
<1>1. /\ at'[r] = "ok" /\ at[r] # "ok"
      /\ \A x \in Requests \ {r} : at'[x] = at[x]
      /\ \A x \in Requests : r \notin req[x].before
      /\ \A x : Who(x)' = Who(x)
      /\ OwnCalls'
      /\ PastIsPast'
  BY <1>0, HandlerMoves DEF Running, Answers
<1>2. Logins' = Logins
  BY <1>0, <1>1 DEF Logins
<1>3. Provenance'
  <2>1. \A x, u : IsNonce(x, u) => IsNonce(x, u)'
    BY <1>0, <1>1 DEF IsNonce
  <2> QED
    BY <1>0, <1>1, <1>2, <2>1 DEF AuthInv, Provenance, browserVars, IsLogin
<1>4. DeletedIsGone'
  <2>1. rows' \intersect req[r].before = {}
    BY <1>0 DEF AuthInv, PastIsPast
  <2> QED
    BY <1>0, <1>1, <2>1 DEF AuthInv, DeletedIsGone, UsedNonce
<1>5. LateLoginsFail'
  BY <1>0, <1>1 DEF AuthInv, LateLoginsFail
<1>6. LogoutStands'
  <2>1. req[r].arg = None
    BY <1>0 DEF AuthInv, Provenance
  <2>2. \A x \in Requests : None \notin req[x].before
    BY AuthAssumption, RequestParts
  <2> QED
    BY <1>0, <1>1, <2>1, <2>2, RequestParts DEF AuthInv, LogoutStands
<1>7. ClosedByLogout'
  <2> SUFFICES ASSUME NEW s \in Logins \ rows'
               PROVE  \E l \in Requests : /\ req[l].op = "logout" /\ at'[l] = "ok"
                                          /\ Who(l) = Who(s) /\ l \notin req[s].before
    BY <1>0, <1>1, <1>2 DEF ClosedByLogout
  <2>1. CASE s \in rows
    BY <1>0, <1>1, <2>1 DEF Logins
  <2>2. CASE s \notin rows
    BY <1>0, <1>1, <2>2 DEF AuthInv, ClosedByLogout
  <2> QED
    BY <2>1, <2>2
<1>8. UserBeforeSession'
  BY <1>0, <1>1 DEF AuthInv, UserBeforeSession
<1> QED
  BY <1>1, <1>3, <1>4, <1>5, <1>6, <1>7, <1>8 DEF AuthInv

-----------------------------------------------------------------------------
(* Browsers, the indexer and time                                          *)

\* A request that is sent carries what its browser holds, and its past is what
\* its account has done: nobody has it in the past.
LEMMA SendKeeps ==
    ASSUME AuthInv, TypeOK', NEW b \in Browsers, NEW op, NEW arg, NEW label,
           Send(b, op, arg, label),
           \/ op = "nonce" /\ arg = None /\ label = "setex"
           \/ op = "verify" /\ arg = held[b] /\ held[b] # None /\ label = "get"
           \/ op = "refresh" /\ arg = session[b] /\ label = "findSession"
           \/ op = "logout" /\ arg = None /\ label = "delNonce"
    PROVE  AuthInv'
<1>0. PICK r \in Requests :
         /\ at[r] = "unsent"
         /\ req' = [req EXCEPT ![r] = [op |-> op, by |-> b, arg |-> arg,
                                       before |-> Succeeded(Account[b])]]
         /\ Goto(r, label)
  BY DEF Send
<1>1. /\ UNCHANGED <<users, nonce, rows, rowOver, jwtOver, browserVars>>
      /\ at \in [Requests -> Running \union Answers \union {"unsent"}]
      /\ req \in [Requests -> Request \union {Unsent}]
  BY DEF Send, serverVars, timeVars, AuthInv, TypeOK
<1>2. /\ at'[r] = label /\ at[r] = "unsent" /\ req[r] = Unsent
      /\ req'[r] = [op |-> op, by |-> b, arg |-> arg, before |-> Succeeded(Account[b])]
      /\ \A x \in Requests \ {r} : at'[x] = at[x] /\ req'[x] = req[x]
      /\ \A x \in Requests : r \notin req[x].before
  BY <1>0, <1>1 DEF Goto, AuthInv, OwnCalls, PastIsPast
<1>3. /\ \A x \in Requests \ {r} : Who(x)' = Who(x)
      /\ Who(r)' = Account[b]
  BY <1>2 DEF Who
<1>4. \A x \in Requests : at[x] = "ok" =>
         x # r /\ at'[x] = "ok" /\ req'[x] = req[x] /\ Who(x)' = Who(x)
  BY <1>2, <1>3
<1>5. \A x \in req'[r].before : x \in Requests \ {r} /\ at[x] = "ok" /\ Who(x) = Account[b]
  BY <1>2 DEF Succeeded
<1>6. Logins' = Logins
  BY <1>2 DEF Logins, Unsent
<1>7. OwnCalls'
  BY <1>2 DEF AuthInv, OwnCalls, Unsent
<1>8. Provenance'
  <2>1. \A x, u : IsNonce(x, u) => IsNonce(x, u)'
    BY <1>4 DEF IsNonce
  <2>2. \A x, u : IsLogin(x, u) => IsLogin(x, u)'
    BY <1>4, <1>6 DEF IsLogin, Logins
  <2> QED
    BY <1>1, <1>2, <1>3, <1>6, <2>1, <2>2 DEF AuthInv, Provenance, browserVars
<1>9. PastIsPast'
  <2> SUFFICES ASSUME NEW q \in Requests, NEW x \in req'[q].before
               PROVE  at'[x] = "ok" /\ Who(x)' = Who(q)'
    BY DEF PastIsPast
  <2>1. CASE q = r
    BY <1>3, <1>4, <1>5, <2>1
  <2>2. CASE q # r
    BY <1>2, <1>3, <1>4, <2>2, RequestParts DEF AuthInv, PastIsPast
  <2> QED
    BY <2>1, <2>2
<1>10. DeletedIsGone'
  BY <1>1, <1>2, <1>3 DEF AuthInv, DeletedIsGone, UsedNonce
<1>11. LateLoginsFail'
  <2> SUFFICES ASSUME NEW q \in Requests, NEW x \in req'[q].before,
                      req'[q].op = "verify",
                      \/ req'[x].op = "verify" /\ req'[q].arg = req'[x].arg
                      \/ req'[x].op = "logout" /\ req'[q].arg \in req'[x].before
               PROVE  at'[q] \in {"get", "invalid", "failed"}
    BY DEF LateLoginsFail
  <2>1. CASE q = r
    BY <1>2, <2>1
  <2>2. CASE q # r
    BY <1>2, <2>2, RequestParts DEF AuthInv, LateLoginsFail
  <2> QED
    BY <2>1, <2>2
<1>12. LogoutStands'
  <2> SUFFICES ASSUME NEW q \in Requests, NEW x \in req'[q].before,
                      req'[x].op = "logout" /\ req'[q].arg \in req'[x].before
               PROVE  at'[q] # "ok"
    BY DEF LogoutStands
  <2>1. CASE q = r
    BY <1>2, <2>1
  <2>2. CASE q # r
    BY <1>2, <2>2, RequestParts DEF AuthInv, LogoutStands
  <2> QED
    BY <2>1, <2>2
<1>13. ClosedByLogout'
  <2> SUFFICES ASSUME NEW s \in Logins \ rows
               PROVE  \E l \in Requests : /\ req'[l].op = "logout" /\ at'[l] = "ok"
                                          /\ Who(l)' = Who(s)' /\ l \notin req'[s].before
    BY <1>1, <1>6 DEF ClosedByLogout
  <2> QED
    BY <1>4 DEF AuthInv, ClosedByLogout, Logins
<1>14. UserBeforeSession'
  BY <1>1, <1>2, <1>3, <1>6 DEF AuthInv, UserBeforeSession, Provenance, Logins
<1> QED
  BY <1>7, <1>8, <1>9, <1>10, <1>11, <1>12, <1>13, <1>14 DEF AuthInv

\* An answer puts what it brings where the browser keeps it.
LEMMA ReceiveKeeps ==
    ASSUME AuthInv, TypeOK', NEW r \in Requests, Receive(r)
    PROVE  AuthInv'
<1>0. /\ UNCHANGED <<users, nonce, rows, rowOver, jwtOver, req, at>>
      /\ held' = held \/ (req[r].op = "nonce" /\ at[r] = "ok"
                            /\ held' = [held EXCEPT ![req[r].by] = r])
      /\ \/ session' = session
         \/ r \in Logins /\ session' = [session EXCEPT ![req[r].by] = r]
         \/ session' = [session EXCEPT ![req[r].by] = None]
  BY DEF Receive, serverVars, timeVars, Logins
<1>1. /\ held \in [Browsers -> Requests \union {None}]
      /\ session \in [Browsers -> Requests \union {None}]
  BY DEF AuthInv, TypeOK
<1>2. Provenance'
  <2>1. \A x, u : IsNonce(x, u)' = IsNonce(x, u) /\ IsLogin(x, u)' = IsLogin(x, u)
    BY <1>0 DEF IsNonce, IsLogin, Logins, Who
  <2>2. \A b \in Browsers : held'[b] = None \/ IsNonce(held'[b], Account[b])
    BY <1>0, <1>1 DEF AuthInv, Provenance, IsNonce, Who
  <2>3. \A b \in Browsers : session'[b] = None \/ IsLogin(session'[b], Account[b])
    BY <1>0, <1>1 DEF AuthInv, Provenance, IsLogin, Who
  <2> QED
    BY <1>0, <2>1, <2>2, <2>3 DEF AuthInv, Provenance, Logins, Who
<1> QED
  BY <1>0, <1>2
     DEF AuthInv, OwnCalls, PastIsPast, DeletedIsGone, LateLoginsFail, LogoutStands,
         ClosedByLogout, UserBeforeSession, Logins, Who

\* Neither the indexer nor time give anybody a nonce or a session.
LEMMA OthersKeep ==
    ASSUME AuthInv, TypeOK', Expiry \/ \E u \in Users : IndexerRegisters(u)
    PROVE  AuthInv'
<1>0. /\ UNCHANGED <<rows, req, at, held>>
      /\ users \subseteq users'
      /\ nonce' = nonce \/ \E u \in Users : nonce' = [nonce EXCEPT ![u] = None]
      /\ rowOver' \subseteq rowOver \union rows
      /\ jwtOver' \subseteq jwtOver \union rows
      /\ session' = session \/ \E b \in Browsers : session' = [session EXCEPT ![b] = None]
  BY DEF Expiry, IndexerRegisters, timeVars, browserVars
<1>1. /\ \A u \in Users : nonce'[u] = None \/ nonce'[u] = nonce[u]
      /\ \A x \in Requests : req[x].op = "verify" => req[x].arg # None
      /\ \A x \in Requests : None \notin req[x].before
      /\ \A b \in Browsers : session'[b] = None \/ session'[b] = session[b]
  BY <1>0, AuthAssumption, RequestParts DEF AuthInv, TypeOK, Provenance, IsNonce
<1>2. Provenance'
  BY <1>0, <1>1 DEF AuthInv, Provenance, IsNonce, IsLogin, Logins, Who
<1>3. DeletedIsGone'
  <2>1. \A v \in Requests : req[v].op = "verify" /\ at[v] \in UsedNonce =>
            nonce'[Who(v)] # req[v].arg
    BY <1>1, RequestParts DEF AuthInv, DeletedIsGone, UsedNonce, OwnCalls, Unsent
  <2>2. \A l \in Requests : req[l].op = "logout" /\ at[l] \in {"deleteMany", "ok"} =>
            nonce'[Who(l)] \notin req[l].before
    BY <1>1, RequestParts DEF AuthInv, DeletedIsGone
  <2> QED
    BY <1>0, <2>1, <2>2 DEF AuthInv, DeletedIsGone, UsedNonce, Who
<1>4. /\ OwnCalls' /\ PastIsPast' /\ LateLoginsFail' /\ LogoutStands'
      /\ ClosedByLogout' /\ UserBeforeSession'
  BY <1>0 DEF AuthInv, OwnCalls, PastIsPast, LateLoginsFail, LogoutStands,
              ClosedByLogout, UserBeforeSession, Logins, Who
<1> QED
  BY <1>2, <1>3, <1>4 DEF AuthInv

-----------------------------------------------------------------------------
(* Every step keeps the invariant                                          *)

\* The types by themselves.
LEMMA TypesKept == AuthInv /\ [Next]_vars => TypeOK'
<1> SUFFICES ASSUME AuthInv, [Next]_vars PROVE TypeOK'
  OBVIOUS
<1> USE AuthAssumption
<1>0. TypeOK
  BY DEF AuthInv
<1>1. CASE UNCHANGED vars
  BY <1>0, <1>1 DEF TypeOK, vars, serverVars, timeVars, browserVars
<1>2. ASSUME NEW b \in Browsers,
             RequestNonce(b) \/ VerifySignature(b) \/ RefreshToken(b) \/ Logout(b)
      PROVE  TypeOK'
  <2>1. PICK op \in {"nonce", "verify", "refresh", "logout"},
             arg \in Requests \union {None},
             label \in {"setex", "get", "findSession", "delNonce"} :
               Send(b, op, arg, label)
    BY <1>0, <1>2 DEF RequestNonce, VerifySignature, RefreshToken, Logout, TypeOK
  <2>2. [op |-> op, by |-> b, arg |-> arg, before |-> Succeeded(Account[b])] \in Request
    BY DEF Request, Succeeded
  <2>3. req' \in [Requests -> Request \union {Unsent}]
    BY <1>0, <2>1, <2>2 DEF Send, TypeOK
  <2>4. at' \in [Requests -> Running \union Answers \union {"unsent"}]
    BY <1>0, <2>1 DEF Send, TypeOK, Goto, Running
  <2> QED
    BY <1>0, <2>1, <2>3, <2>4 DEF Send, TypeOK, serverVars, timeVars, browserVars
<1>3. ASSUME NEW r \in Requests, Receive(r)
      PROVE  TypeOK'
  BY <1>0, <1>3 DEF Receive, TypeOK, serverVars, timeVars
<1>4. ASSUME NEW r \in Requests, Handle(r)
      PROVE  TypeOK'
  <2>1. PICK label \in Running \union Answers : Goto(r, label)
    BY <1>4 DEF Handle, StoreNonce, GetNonce, DeleteNonce, GetUser, CreateUser, FindUser,
                InsertToken, FindSession, LogoutDeletesNonce, DeleteSessions, Running, Answers
  <2>2. at' \in [Requests -> Running \union Answers \union {"unsent"}]
    BY <1>0, <2>1 DEF TypeOK, Goto
  <2>3. /\ users' \subseteq Users /\ rows' \subseteq Requests
        /\ nonce' \in [Users -> Requests \union {None}]
    <3>1. at[r] # "unsent" => Who(r) \in Users
      BY RequestParts
    <3> QED
      BY <1>0, <1>4, <3>1
         DEF TypeOK, Handle, StoreNonce, GetNonce, DeleteNonce, GetUser, CreateUser, FindUser,
             InsertToken, FindSession, LogoutDeletesNonce, DeleteSessions, serverVars
  <2>4. UNCHANGED <<timeVars, browserVars, req, faults>>
    BY <1>4 DEF Handle, StoreNonce, GetNonce, DeleteNonce, GetUser, CreateUser, FindUser,
                InsertToken, FindSession, LogoutDeletesNonce, DeleteSessions
  <2> QED
    BY <1>0, <2>2, <2>3, <2>4 DEF TypeOK, timeVars, browserVars
<1>5. ASSUME NEW r \in Requests, CallRejects(r)
      PROVE  TypeOK'
  BY <1>0, <1>5 DEF CallRejects, TypeOK, Goto, Answers, serverVars, timeVars, browserVars
<1>6. ASSUME NEW u \in Users, IndexerRegisters(u)
      PROVE  TypeOK'
  BY <1>0, <1>6 DEF IndexerRegisters, TypeOK, timeVars, browserVars
<1>7. CASE Expiry
  <2>1. expiries' \in 0..MaxExpiries /\ UNCHANGED <<users, rows, req, at, received, held, faults>>
    BY <1>0, <1>7 DEF Expiry, TypeOK
  <2>2. /\ nonce' \in [Users -> Requests \union {None}]
        /\ rowOver' \subseteq Requests /\ jwtOver' \subseteq Requests
        /\ session' \in [Browsers -> Requests \union {None}]
    BY <1>0, <1>7 DEF Expiry, TypeOK
  <2>3. access' \in [Browsers -> BOOLEAN]
    BY <1>0, <1>7 DEF Expiry, TypeOK
  <2> QED
    BY <1>0, <2>1, <2>2, <2>3 DEF TypeOK
<1> QED
  BY <1>1, <1>2, <1>3, <1>4, <1>5, <1>6, <1>7 DEF Next

\* Each action has its lemma.
LEMMA StepKeeps == AuthInv /\ [Next]_vars => AuthInv'
<1> SUFFICES ASSUME AuthInv, [Next]_vars PROVE AuthInv'
  OBVIOUS
<1>0. TypeOK'
  BY TypesKept
<1>1. CASE UNCHANGED vars
  BY <1>1, <1>0
     DEF vars, serverVars, timeVars, browserVars, AuthInv, OwnCalls, Provenance, PastIsPast,
         DeletedIsGone, LateLoginsFail, LogoutStands, ClosedByLogout, UserBeforeSession,
         IsNonce, IsLogin, Logins, Who
<1>2. ASSUME NEW b \in Browsers,
             RequestNonce(b) \/ VerifySignature(b) \/ RefreshToken(b) \/ Logout(b)
      PROVE  AuthInv'
  BY <1>0, <1>2, SendKeeps DEF RequestNonce, VerifySignature, RefreshToken, Logout
<1>3. ASSUME NEW r \in Requests, Receive(r)
      PROVE  AuthInv'
  BY <1>0, <1>3, ReceiveKeeps
<1>4. ASSUME NEW r \in Requests, Handle(r)
      PROVE  AuthInv'
  <2> USE DEF Running, Answers
  <2>1. CASE GetNonce(r)
    <3>1. CASE nonce[Who(r)] = req[r].arg
      BY <1>0, <2>1, <3>1, PlainMoveKeeps DEF GetNonce, SignatureValid, serverVars, timeVars
    <3>2. CASE nonce[Who(r)] # req[r].arg
      BY <1>0, <2>1, <3>2, PlainMoveKeeps DEF GetNonce, SignatureValid, serverVars, timeVars
    <3> QED
      BY <3>1, <3>2
  <2>2. CASE GetUser(r)
    BY <1>0, <2>2, PlainMoveKeeps DEF GetUser, serverVars, timeVars
  <2>3. CASE CreateUser(r)
    BY <1>0, <2>3, PlainMoveKeeps DEF CreateUser, timeVars
  <2>4. CASE FindUser(r)
    <3>1. Who(r) \in users
      BY <2>4 DEF FindUser, AuthInv, UserBeforeSession
    <3> QED
      BY <1>0, <2>4, <3>1, PlainMoveKeeps DEF FindUser, serverVars, timeVars
  <2>5. CASE FindSession(r)
    <3>1. CASE req[r].arg \in rows \ (jwtOver \union rowOver)
      BY <1>0, <2>5, <3>1, PlainMoveKeeps DEF FindSession, RefreshTokenValid, serverVars, timeVars
    <3>2. CASE req[r].arg \notin rows \ (jwtOver \union rowOver)
      BY <1>0, <2>5, <3>2, PlainMoveKeeps DEF FindSession, RefreshTokenValid, serverVars, timeVars
    <3> QED
      BY <3>1, <3>2
  <2> QED
    BY <1>0, <1>4, <2>1, <2>2, <2>3, <2>4, <2>5, StoreNonceKeeps, RevokeKeeps,
       InsertTokenKeeps, DeleteSessionsKeeps
       DEF Handle
<1>5. ASSUME NEW r \in Requests, CallRejects(r)
      PROVE  AuthInv'
  BY <1>0, <1>5, PlainMoveKeeps DEF CallRejects, serverVars, timeVars, Answers
<1>6. CASE Expiry \/ \E u \in Users : IndexerRegisters(u)
  BY <1>0, <1>6, OthersKeep
<1> QED
  BY <1>1, <1>2, <1>3, <1>4, <1>5, <1>6 DEF Next

\* The invariant of AuthSession: where nonces and sessions come from, what has
\* been spent or closed, and which requests are too late.
THEOREM AuthInvariance == Spec => []AuthInv
<1>1. Init => AuthInv
  BY InitEstablishes
<1>2. AuthInv /\ [Next]_vars => AuthInv'
  BY StepKeeps
<1> QED
  BY <1>1, <1>2, PTL DEF Spec

\* Redis, the tables, the requests and the browsers keep their types.
THEOREM AuthTypesHold == Spec => []TypeOK
<1>1. AuthInv => TypeOK
  BY DEF AuthInv
<1> QED
  BY <1>1, AuthInvariance, PTL

\* A logout of any browser of the account leaves nothing that an earlier nonce
\* or session could be used for afterwards.
THEOREM LogoutsStand == Spec => []LogoutStands
<1>1. AuthInv => LogoutStands
  BY DEF AuthInv
<1> QED
  BY <1>1, AuthInvariance, PTL

\* A nonce with which somebody got in lets nobody in later.
THEOREM NoncesSpent == Spec => []NonceSpent
<1>1. AuthInv => NonceSpent
  <2> SUFFICES ASSUME AuthInv, NEW r \in Requests, NEW v \in req[r].before,
                      req[r].op = "verify", req[v].op = "verify", req[r].arg = req[v].arg
               PROVE  at[r] # "ok"
    BY DEF NonceSpent
  <2> QED
    BY RequestParts DEF AuthInv, LateLoginsFail
<1> QED
  BY <1>1, AuthInvariance, PTL

\* A session cookie without its row means that a logout of the account went
\* through which the login had not seen.
THEOREM CookiesBacked == Spec => []CookieBacked
<1>1. AuthInv => CookieBacked
  BY DEF AuthInv, CookieBacked, Provenance, IsLogin, ClosedByLogout
<1> QED
  BY <1>1, AuthInvariance, PTL

\* 'User not found' is never thrown, and every session has its user.
THEOREM UsersFound == Spec => []UserAlwaysFound
<1>1. AuthInv => UserAlwaysFound
  BY DEF AuthInv, UserBeforeSession, UserAlwaysFound
<1> QED
  BY <1>1, AuthInvariance, PTL

-----------------------------------------------------------------------------
(* Every request runs out of calls, and a login on course arrives          *)

\* The calls a request still has before it, at most, the awaited one included.
CallsLeft(label) ==
    CASE label = "get"        -> 6
      [] label = "del"        -> 5
      [] label = "getUser"    -> 4
      [] label = "createUser" -> 3
      [] label = "findUser"   -> 2
      [] label = "delNonce"   -> 2
      [] label \in {"insert", "setex", "findSession", "deleteMany"} -> 1
      [] OTHER                -> 0

\* A handler that is resumed has fewer calls left, and only its own calls move
\* it; an answer is given once.
MovesOn(r) ==
    /\ at[r] \in Running =>
        \/ CallsLeft(at'[r]) < CallsLeft(at[r])
        \/ ~Handle(r) /\ at'[r] = at[r]
    /\ at[r] \in Answers => at'[r] = at[r]

\* What is said of a request holds of no other: a step of another request, of a
\* browser, of the indexer or of time leaves a request that was sent alone.
LEMMA OnlyItsCallsMoveIt ==
    ASSUME AuthInv, [Next]_vars, NEW r \in Requests, at[r] # "unsent"
    PROVE  Handle(r) \/ CallRejects(r) \/ (at'[r] = at[r] /\ req'[r] = req[r])
<1>0. at \in [Requests -> Running \union Answers \union {"unsent"}]
      /\ req \in [Requests -> Request \union {Unsent}]
  BY DEF AuthInv, TypeOK
<1>1. ASSUME NEW b \in Browsers, NEW op, NEW arg, NEW label, Send(b, op, arg, label)
      PROVE  at'[r] = at[r] /\ req'[r] = req[r]
  BY <1>0, <1>1 DEF Send, Goto
<1>2. ASSUME NEW b \in Browsers,
             RequestNonce(b) \/ VerifySignature(b) \/ RefreshToken(b) \/ Logout(b)
      PROVE  at'[r] = at[r] /\ req'[r] = req[r]
  BY <1>1, <1>2 DEF RequestNonce, VerifySignature, RefreshToken, Logout
<1>3. ASSUME NEW x \in Requests \ {r}, Handle(x)
      PROVE  at'[r] = at[r] /\ req'[r] = req[r]
  <2> USE <1>0, <1>3 DEF Goto
  <2>1. CASE StoreNonce(x) \/ GetNonce(x) \/ DeleteNonce(x) \/ GetUser(x) \/ FindUser(x)
    BY <2>1 DEF StoreNonce, GetNonce, DeleteNonce, GetUser, FindUser
  <2>2. CASE CreateUser(x) \/ InsertToken(x) \/ FindSession(x)
    BY <2>2 DEF CreateUser, InsertToken, FindSession
  <2>3. CASE LogoutDeletesNonce(x) \/ DeleteSessions(x)
    BY <2>3 DEF LogoutDeletesNonce, DeleteSessions
  <2> QED
    BY <2>1, <2>2, <2>3 DEF Handle
<1>4. ASSUME NEW x \in Requests \ {r}, CallRejects(x)
      PROVE  at'[r] = at[r] /\ req'[r] = req[r]
  BY <1>0, <1>4 DEF CallRejects, Goto
<1>5. CASE (\E x \in Requests : Receive(x)) \/ (\E u \in Users : IndexerRegisters(u))
           \/ Expiry \/ UNCHANGED vars
  BY <1>5 DEF Receive, IndexerRegisters, Expiry, vars
<1>6. ASSUME NEW x \in Requests, Handle(x) \/ CallRejects(x)
      PROVE  Handle(r) \/ CallRejects(r) \/ (at'[r] = at[r] /\ req'[r] = req[r])
  BY <1>3, <1>4, <1>6
<1> QED
  BY <1>2, <1>5, <1>6 DEF Next

\* Each kind of call moves its request one way.
LEMMA HandlerMovesOn ==
    ASSUME AuthInv, NEW r \in Requests, Handle(r) \/ CallRejects(r)
    PROVE  at[r] \in Running /\ CallsLeft(at'[r]) < CallsLeft(at[r])
<1>0. at \in [Requests -> Running \union Answers \union {"unsent"}]
  BY DEF AuthInv, TypeOK
<1> USE <1>0 DEF Goto, Running, CallsLeft
<1>1. CASE StoreNonce(r) \/ GetNonce(r) \/ DeleteNonce(r)
  BY <1>1 DEF StoreNonce, GetNonce, DeleteNonce
<1>2. CASE GetUser(r) \/ CreateUser(r) \/ FindUser(r)
  BY <1>2 DEF GetUser, CreateUser, FindUser
<1>3. CASE InsertToken(r) \/ FindSession(r)
  BY <1>3 DEF InsertToken, FindSession
<1>4. CASE LogoutDeletesNonce(r) \/ DeleteSessions(r)
  BY <1>4 DEF LogoutDeletesNonce, DeleteSessions
<1>5. CASE CallRejects(r)
  BY <1>5 DEF CallRejects
<1> QED
  BY <1>1, <1>2, <1>3, <1>4, <1>5 DEF Handle

\* No request waits for more than six calls, whatever the others do meanwhile,
\* and it gets one answer.  This is what RequestsEnd needs besides the fairness
\* of the event loop.
THEOREM RequestsMoveOn == Spec => [][\A r \in Requests : MovesOn(r)]_vars
<1>1. ASSUME AuthInv, [Next]_vars, NEW r \in Requests
      PROVE  MovesOn(r)
  <2>1. at[r] \in Running \union Answers => at[r] # "unsent"
    BY DEF Running, Answers
  <2>2. at[r] \in Answers => at[r] \notin Running
    BY DEF Running, Answers
  <2> QED
    BY <1>1, <2>1, <2>2, OnlyItsCallsMoveIt, HandlerMovesOn DEF MovesOn
<1>2. AuthInv /\ [Next]_vars => [\A r \in Requests : MovesOn(r)]_vars
  BY <1>1
<1> QED
  BY <1>2, AuthInvariance, PTL DEF Spec

\* Browsers that wait have one request of their account on its way at most.
InTurn ==
    /\ \A r \in received : at[r] \in Answers
    /\ OneAtATime => \A r, q \in Requests :
            at[r] # "unsent" /\ at[q] # "unsent" /\ Who(r) = Who(q) /\ r # q
                => r \in received \/ q \in received

LEMMA InTurnKept ==
    ASSUME AuthInv, InTurn, [Next]_vars
    PROVE  InTurn'
<1>0. /\ received \subseteq Requests
      /\ at \in [Requests -> Running \union Answers \union {"unsent"}]
      /\ req \in [Requests -> Request \union {Unsent}]
  BY DEF AuthInv, TypeOK
<1>1. ASSUME \A r \in Requests : at[r] # "unsent" =>
                 at'[r] # "unsent" /\ req'[r] = req[r] /\ (at[r] \in Answers => at'[r] = at[r]),
             \A r \in Requests : at[r] = "unsent" => at'[r] = "unsent",
             received \subseteq received',
             \A r \in received' \ received : r \in Requests /\ at'[r] \in Answers
      PROVE  InTurn'
  <2>1. \A r \in received : at[r] # "unsent"
    BY DEF InTurn, Answers
  <2>2. \A r \in received' : at'[r] \in Answers
    BY <1>0, <1>1, <2>1 DEF InTurn
  <2>3. \A r \in Requests : at'[r] # "unsent" => at[r] # "unsent" /\ Who(r)' = Who(r)
    BY <1>1 DEF Who
  <2> QED
    BY <1>1, <2>2, <2>3 DEF InTurn
<1>2. ASSUME NEW b \in Browsers, NEW op, NEW arg,
             NEW label \in {"setex", "get", "findSession", "delNonce"},
             Send(b, op, arg, label)
      PROVE  InTurn'
  <2>1. PICK r \in Requests : at[r] = "unsent" /\ Goto(r, label)
            /\ req' = [req EXCEPT ![r] =
                   [op |-> op, by |-> b, arg |-> arg, before |-> Succeeded(Account[b])]]
    BY <1>2 DEF Send
  <2>2. /\ at'[r] = label /\ req'[r].by = b
        /\ \A q \in Requests \ {r} : at'[q] = at[q] /\ req'[q] = req[q]
    BY <1>0, <2>1 DEF Goto
  <2>3. received' = received /\ (OneAtATime => Quiet(Account[b]))
    BY <1>2 DEF Send, browserVars
  <2>4. Who(r)' = Account[b] /\ \A q \in Requests \ {r} : Who(q)' = Who(q)
    BY <2>2 DEF Who
  <2>5. r \notin received
    BY <2>1 DEF InTurn, Answers
  <2>6. \A q \in received' : at'[q] \in Answers
    BY <1>0, <2>2, <2>3, <2>5 DEF InTurn
  <2>7. ASSUME OneAtATime, NEW q \in Requests \ {r}, at'[q] # "unsent", Who(q)' = Who(r)'
        PROVE  q \in received'
    BY <2>2, <2>3, <2>4, <2>7 DEF Quiet
  <2>8. ASSUME OneAtATime, NEW p \in Requests, NEW q \in Requests,
               at'[p] # "unsent", at'[q] # "unsent", Who(p)' = Who(q)', p # q
        PROVE  p \in received' \/ q \in received'
    BY <2>2, <2>3, <2>4, <2>7, <2>8 DEF InTurn
  <2> QED
    BY <2>6, <2>8 DEF InTurn
<1>3. ASSUME NEW b \in Browsers,
             RequestNonce(b) \/ VerifySignature(b) \/ RefreshToken(b) \/ Logout(b)
      PROVE  InTurn'
  BY <1>2, <1>3 DEF RequestNonce, VerifySignature, RefreshToken, Logout
<1>4. ASSUME NEW r \in Requests, Handle(r) \/ CallRejects(r)
      PROVE  InTurn'
  <2>1. PICK label \in Running \union Answers :
            Goto(r, label) /\ req' = req /\ received' = received
    <3> USE DEF Running, Answers, browserVars
    <3>1. CASE StoreNonce(r) \/ GetNonce(r) \/ DeleteNonce(r) \/ GetUser(r)
      BY <3>1 DEF StoreNonce, GetNonce, DeleteNonce, GetUser
    <3>2. CASE CreateUser(r) \/ FindUser(r) \/ InsertToken(r) \/ FindSession(r)
      BY <3>2 DEF CreateUser, FindUser, InsertToken, FindSession
    <3>3. CASE LogoutDeletesNonce(r) \/ DeleteSessions(r) \/ CallRejects(r)
      BY <3>3 DEF LogoutDeletesNonce, DeleteSessions, CallRejects
    <3> QED
      BY <1>4, <3>1, <3>2, <3>3 DEF Handle
  <2>2. at[r] \in Running /\ at[r] # "unsent" /\ at[r] \notin Answers
    BY <1>4, HandlerMovesOn DEF Running, Answers
  <2>3. label # "unsent"
    BY DEF Running, Answers
  <2> QED
    BY <1>0, <1>1, <2>1, <2>2, <2>3 DEF Goto
<1>5. CASE \E r \in Requests : Receive(r)
  BY <1>1, <1>5 DEF Receive
<1>6. CASE (\E u \in Users : IndexerRegisters(u)) \/ Expiry \/ UNCHANGED vars
  BY <1>1, <1>6 DEF IndexerRegisters, Expiry, vars, browserVars
<1> QED
  BY <1>3, <1>4, <1>5, <1>6 DEF Next

\* A login that will succeed if nothing but the handlers and the browsers acts.
OnCourse(r) ==
    /\ req[r].op = "verify"
    /\ Who(r) \in users \/ Who(r) \notin Traders
    /\ \/ at[r] = "get" /\ nonce[Who(r)] = req[r].arg
       \/ at[r] = "createUser" /\ Who(r) \notin users
       \/ at[r] \in {"del", "getUser", "findUser", "insert", "ok"}

\* Its own calls keep a login on course.
LEMMA LoginGoesOn ==
    ASSUME AuthInv, NEW r \in Requests, OnCourse(r), Handle(r)
    PROVE  OnCourse(r)'
<1>0. at \in [Requests -> Running \union Answers \union {"unsent"}]
  BY DEF AuthInv, TypeOK
<1> USE <1>0 DEF OnCourse, Goto, Who
<1>1. CASE GetNonce(r)
  BY <1>1 DEF GetNonce, SignatureValid, serverVars
<1>2. CASE DeleteNonce(r) \/ GetUser(r)
  BY <1>2 DEF DeleteNonce, GetUser, serverVars
<1>3. CASE CreateUser(r)
  BY <1>3 DEF CreateUser
<1>4. CASE FindUser(r)
  BY <1>4 DEF FindUser, serverVars, AuthInv, UserBeforeSession
<1>5. CASE InsertToken(r)
  BY <1>5 DEF InsertToken
<1>6. ~StoreNonce(r) /\ ~FindSession(r) /\ ~LogoutDeletesNonce(r) /\ ~DeleteSessions(r)
  BY DEF StoreNonce, FindSession, LogoutDeletesNonce, DeleteSessions, AuthInv, OwnCalls
<1> QED
  BY <1>1, <1>2, <1>3, <1>4, <1>5, <1>6 DEF Handle

\* Where browsers wait for their answers, other requests do not throw it off.
LEMMA OthersLeaveCourse ==
    ASSUME AuthInv, InTurn, OneAtATime, [Next]_vars, NEW r \in Requests, OnCourse(r),
           ~Handle(r), ~CallRejects(r), ~(at[r] = "get" /\ Expiry)
    PROVE  OnCourse(r)'
<1>0. /\ at[r] # "unsent" /\ at'[r] = at[r] /\ req'[r] = req[r] /\ Who(r)' = Who(r)
      /\ Who(r) \in Users
  <2>1. at[r] # "unsent"
    BY DEF OnCourse
  <2> QED
    BY <2>1, OnlyItsCallsMoveIt, RequestParts DEF Who
<1>1. ASSUME users \subseteq users', at[r] = "get" => nonce'[Who(r)] = nonce[Who(r)],
             at[r] = "createUser" => Who(r) \notin users'
      PROVE  OnCourse(r)'
  BY <1>0, <1>1 DEF OnCourse
<1>2. ASSUME NEW x \in Requests \ {r}, at[x] \in Running, at[r] \in Running
      PROVE  Who(x) # Who(r)
  <2>1. at[x] # "unsent" /\ x \notin received /\ r \notin received
    BY <1>2 DEF InTurn, Running, Answers
  <2> QED
    BY <1>0, <2>1 DEF InTurn
<1>3. ASSUME NEW x \in Requests, Handle(x)
      PROVE  OnCourse(r)'
  <2>1. x # r /\ at[x] \in Running
    BY <1>3, HandlerMovesOn
  <2>2. at[r] \in {"get", "createUser"} => Who(x) # Who(r)
    BY <1>2, <2>1 DEF Running
  <2>3. /\ users' = users \/ users' = users \union {Who(x)}
        /\ nonce' = nonce \/ \E v : nonce' = [nonce EXCEPT ![Who(x)] = v]
    <3>1. CASE StoreNonce(x) \/ DeleteNonce(x) \/ LogoutDeletesNonce(x)
      BY <3>1 DEF StoreNonce, DeleteNonce, LogoutDeletesNonce
    <3>2. CASE GetNonce(x) \/ GetUser(x) \/ FindUser(x) \/ FindSession(x)
      BY <3>2 DEF GetNonce, GetUser, FindUser, FindSession, serverVars
    <3>3. CASE CreateUser(x) \/ InsertToken(x) \/ DeleteSessions(x)
      BY <3>3 DEF CreateUser, InsertToken, DeleteSessions
    <3> QED
      BY <1>3, <3>1, <3>2, <3>3 DEF Handle
  <2>4. nonce \in [Users -> Requests \union {None}]
    BY DEF AuthInv, TypeOK
  <2>5. at[r] = "get" => nonce'[Who(r)] = nonce[Who(r)]
    BY <1>0, <2>2, <2>3, <2>4
  <2>6. users \subseteq users' /\ (at[r] = "createUser" => Who(r) \notin users')
    BY <2>2, <2>3 DEF OnCourse
  <2> QED
    BY <1>1, <2>5, <2>6
<1>4. ASSUME UNCHANGED <<users, nonce>>
      PROVE  OnCourse(r)'
  BY <1>1, <1>4 DEF OnCourse
<1>5. ASSUME NEW b \in Browsers,
             RequestNonce(b) \/ VerifySignature(b) \/ RefreshToken(b) \/ Logout(b)
      PROVE  OnCourse(r)'
  BY <1>4, <1>5 DEF RequestNonce, VerifySignature, RefreshToken, Logout, Send, serverVars
<1>6. ASSUME NEW x \in Requests, Receive(x) \/ CallRejects(x)
      PROVE  OnCourse(r)'
  BY <1>4, <1>6 DEF Receive, CallRejects, serverVars
<1>7. ASSUME NEW u \in Users, IndexerRegisters(u)
      PROVE  OnCourse(r)'
  BY <1>1, <1>7 DEF IndexerRegisters, OnCourse
<1>8. CASE Expiry
  BY <1>1, <1>8 DEF Expiry, OnCourse
<1>9. CASE UNCHANGED vars
  BY <1>4, <1>9 DEF vars, serverVars
<1> QED
  BY <1>3, <1>5, <1>6, <1>7, <1>8, <1>9 DEF Next

\* Where an account's browsers wait for their answers, a login with the nonce
\* just received stays on course to a session: only a call of its own that
\* rejects, or a nonce that expires before it is read, throws it off.  With
\* RequestsMoveOn this is what LoginWorks needs besides fairness.
THEOREM LoginsStayOnCourse ==
    Spec => [][\A r \in Requests : OneAtATime /\ OnCourse(r) =>
                   OnCourse(r)' \/ CallRejects(r) \/ (at[r] = "get" /\ Expiry)]_vars
<1> DEFINE Stays == \A r \in Requests : OneAtATime /\ OnCourse(r) =>
                        OnCourse(r)' \/ CallRejects(r) \/ (at[r] = "get" /\ Expiry)
<1>1. Init => InTurn
  BY DEF Init, InTurn
<1>2. AuthInv /\ InTurn /\ [Next]_vars => InTurn'
  BY InTurnKept
<1>3. AuthInv /\ InTurn /\ [Next]_vars => [Stays]_vars
  BY LoginGoesOn, OthersLeaveCourse
<1> HIDE DEF Stays
<1>4. Spec => [][Stays]_vars
  BY <1>1, <1>2, <1>3, AuthInvariance, PTL DEF Spec
<1> QED
  BY <1>4 DEF Stays

-----------------------------------------------------------------------------
(* The backend implements the ledger                                       *)

\* The ledger's view of a request is that of nobody else, and of the right
\* type.
LEMMA EntriesOfRequests ==
    ASSUME AuthInv, NEW r \in Requests, at[r] # "unsent"
    PROVE  /\ Entry(r) \in Ledger!Entry
           /\ \A x : Entry(x) = Entry(r) => x = r
           /\ at[r] \in AdmittedCalls =>
                /\ AdmittedAs(r) \in Ledger!Login
                /\ Ledger!Of(AdmittedAs(r)) = Entry(r)
                /\ Ledger!NonceOf(AdmittedAs(r)) = [user |-> Who(r), serial |-> req[r].arg]
<1>1. Who(r) \in Users
  BY RequestParts
<1>2. at[r] \in AdmittedCalls => req[r].arg \in Requests
  BY DEF AuthInv, OwnCalls, Provenance, IsNonce, AdmittedCalls
<1> QED
  BY <1>1, <1>2 DEF Entry, AdmittedAs, Ledger!Entry, Ledger!Login, Ledger!Of, Ledger!NonceOf

\* A handler's step, as the ledger sees it: what it does to each request but
\* its own is nothing.
LEMMA LedgerOfStep ==
    ASSUME AuthInv, NEW r \in Requests, at[r] \in Running, NEW label, label # "unsent",
           Goto(r, label), req' = req
    PROVE  /\ at'[r] = label
           /\ \A x \in Requests \ {r} : at'[x] = at[x]
           /\ \A x : Entry(x)' = Entry(x) /\ AdmittedAs(x)' = AdmittedAs(x)
           /\ IssuedNonces' = IF label = "ok" /\ req[r].op = "nonce"
                              THEN IssuedNonces \union {Entry(r)} ELSE IssuedNonces
           /\ OpenedSessions' = IF label = "ok" /\ req[r].op = "verify"
                                THEN OpenedSessions \union {Entry(r)} ELSE OpenedSessions
           /\ Grants' = IF label = "ok" /\ req[r].op \in {"verify", "refresh"}
                        THEN Grants \union {Entry(r)} ELSE Grants
           /\ AdmittedLogins' = IF label \in AdmittedCalls
                                THEN AdmittedLogins \union {AdmittedAs(r)}
                                ELSE AdmittedLogins \ {AdmittedAs(r)}
           /\ Entry(r) \notin IssuedNonces \union OpenedSessions \union Grants
           /\ (AdmittedAs(r) \in AdmittedLogins) = (at[r] \in AdmittedCalls)
<1>1. at \in [Requests -> Running \union Answers \union {"unsent"}] /\ at[r] # "ok"
  BY DEF AuthInv, TypeOK, Running
<1>2. /\ at'[r] = label
      /\ \A x \in Requests \ {r} : at'[x] = at[x]
  BY <1>1 DEF Goto
<1>3. \A x : Entry(x)' = Entry(x) /\ AdmittedAs(x)' = AdmittedAs(x)
  BY DEF Entry, AdmittedAs, Who
<1>4. \A x, y : (Entry(x) = Entry(y) => x = y) /\ (AdmittedAs(x) = AdmittedAs(y) => x = y)
  BY DEF Entry, AdmittedAs
<1>5. IssuedNonces' = IF label = "ok" /\ req[r].op = "nonce"
                      THEN IssuedNonces \union {Entry(r)} ELSE IssuedNonces
  BY <1>1, <1>2, <1>3 DEF IssuedNonces
<1>6. OpenedSessions' = IF label = "ok" /\ req[r].op = "verify"
                        THEN OpenedSessions \union {Entry(r)} ELSE OpenedSessions
  BY <1>1, <1>2, <1>3 DEF OpenedSessions, Logins
<1>7. Grants' = IF label = "ok" /\ req[r].op \in {"verify", "refresh"}
                THEN Grants \union {Entry(r)} ELSE Grants
  BY <1>1, <1>2, <1>3 DEF Grants
<1>8. AdmittedLogins = {AdmittedAs(x) : x \in {y \in Requests : at[y] \in AdmittedCalls}}
  BY DEF AdmittedLogins
<1>9. AdmittedLogins' = {AdmittedAs(x) : x \in {y \in Requests : at'[y] \in AdmittedCalls}}
  BY <1>3 DEF AdmittedLogins, AdmittedCalls
<1>10. AdmittedLogins' = IF label \in AdmittedCalls
                         THEN AdmittedLogins \union {AdmittedAs(r)}
                         ELSE AdmittedLogins \ {AdmittedAs(r)}
  BY <1>2, <1>4, <1>8, <1>9
<1>11. Entry(r) \notin IssuedNonces \union OpenedSessions \union Grants
  BY <1>1, <1>4 DEF IssuedNonces, OpenedSessions, Grants, Logins
<1>12. (AdmittedAs(r) \in AdmittedLogins) = (at[r] \in AdmittedCalls)
  BY <1>4, <1>8
<1> QED
  BY <1>2, <1>3, <1>5, <1>6, <1>7, <1>10, <1>11, <1>12

\* The open sessions change with the rows only.
LEMMA OpenAsBefore ==
    ASSUME NEW r \in Requests, at[r] \in Running, NEW label, label # "ok" \/ req[r].op # "verify",
           at'[r] = label, \A x \in Requests \ {r} : at'[x] = at[x], req' = req,
           UNCHANGED <<rows, rowOver, jwtOver>>
    PROVE  OpenSessions' = OpenSessions
<1>1. Logins' = Logins
  BY DEF Logins, Running
<1> QED
  BY <1>1 DEF OpenSessions, Entry, Good, Who

\* A handler that changes no table does nothing in the ledger, is admitted, is
\* given up, or is granted access.
LEMMA PlainMoveInLedger ==
    ASSUME AuthInv, NEW r \in Requests, at[r] \in Running,
           NEW label \in Running \union Answers,
           \/ label \in {"invalid", "failed"}
           \/ at[r] = "get" /\ label = "del" /\ nonce[Who(r)] = req[r].arg
           \/ at[r] \in {"getUser", "createUser", "findUser"}
              /\ label \in {"createUser", "findUser", "insert"}
           \/ at[r] = "findSession" /\ label = "ok" /\ Good(req[r].arg),
           Goto(r, label), req' = req,
           UNCHANGED <<nonce, rows, rowOver, jwtOver>>
    PROVE  [Ledger!Next]_(Ledger!ledger)
<1>0. /\ at[r] = "get" => req[r].op = "verify"
      /\ at[r] = "findSession" => req[r].op = "refresh"
      /\ label # "unsent" /\ at[r] # "unsent"
  BY DEF AuthInv, OwnCalls, Running, Answers
<1>1. /\ at'[r] = label /\ \A x \in Requests \ {r} : at'[x] = at[x]
      /\ IssuedNonces' = IF label = "ok" /\ req[r].op = "nonce"
                         THEN IssuedNonces \union {Entry(r)} ELSE IssuedNonces
      /\ OpenedSessions' = IF label = "ok" /\ req[r].op = "verify"
                           THEN OpenedSessions \union {Entry(r)} ELSE OpenedSessions
      /\ Grants' = IF label = "ok" /\ req[r].op \in {"verify", "refresh"}
                   THEN Grants \union {Entry(r)} ELSE Grants
      /\ AdmittedLogins' = IF label \in AdmittedCalls
                           THEN AdmittedLogins \union {AdmittedAs(r)}
                           ELSE AdmittedLogins \ {AdmittedAs(r)}
      /\ Entry(r) \notin Grants
      /\ (AdmittedAs(r) \in AdmittedLogins) = (at[r] \in AdmittedCalls)
  BY <1>0, LedgerOfStep
<1>2. OpenSessions' = OpenSessions
  BY <1>0, <1>1, OpenAsBefore
<1>3. LiveNonces' = LiveNonces
  BY DEF LiveNonces
<1>4. CASE label \in {"invalid", "failed"} /\ at[r] \in AdmittedCalls
  <2>1. Ledger!Abandon(AdmittedAs(r))
    BY <1>1, <1>2, <1>3, <1>4 DEF Ledger!Abandon, AdmittedCalls
  <2>2. AdmittedAs(r) \in Ledger!Login
    BY <1>0, <1>4, EntriesOfRequests
  <2> QED
    BY <2>1, <2>2 DEF Ledger!Next
<1>5. CASE at[r] = "get" /\ label = "del" /\ nonce[Who(r)] = req[r].arg
  <2>1. AdmittedAs(r) \in Ledger!Login /\ Ledger!NonceOf(AdmittedAs(r)) \in LiveNonces
    <3>1. /\ Who(r) \in Users /\ req[r].arg \in Requests /\ req[r].arg # None
      BY <1>0, <1>5, RequestParts, AuthAssumption DEF AuthInv, Provenance, IsNonce
    <3> QED
      BY <1>5, <3>1 DEF AdmittedAs, Ledger!Login, Ledger!NonceOf, LiveNonces
  <2>2. Ledger!Admit(AdmittedAs(r))
    BY <1>1, <1>2, <1>3, <1>5, <2>1 DEF Ledger!Admit, AdmittedCalls
  <2> QED
    BY <2>1, <2>2 DEF Ledger!Next
<1>6. CASE at[r] = "findSession" /\ label = "ok" /\ Good(req[r].arg)
  <2>1. req[r].arg \in Logins /\ Who(req[r].arg) = Who(r)
    BY <1>0, <1>6, AuthAssumption DEF AuthInv, TypeOK, Good, Provenance, IsLogin
  <2>2. Entry(req[r].arg) \in OpenSessions /\ Entry(req[r].arg).user = Entry(r).user
    BY <1>6, <2>1 DEF OpenSessions, Entry
  <2>3. Entry(r) \in Ledger!Entry
    BY <1>0, EntriesOfRequests
  <2>4. Ledger!Grant(Entry(r))
    BY <1>0, <1>1, <1>2, <1>3, <1>6, <2>2, <2>3 DEF Ledger!Grant, AdmittedCalls
  <2> QED
    BY <2>3, <2>4 DEF Ledger!Next
<1>7. CASE \/ label \in {"invalid", "failed"} /\ at[r] \notin AdmittedCalls
           \/ at[r] \in {"getUser", "createUser", "findUser"}
              /\ label \in {"createUser", "findUser", "insert"}
  <2>1. AdmittedLogins' = AdmittedLogins /\ label # "ok"
    BY <1>1, <1>7 DEF AdmittedCalls
  <2> QED
    BY <1>1, <1>2, <1>3, <2>1 DEF Ledger!ledger
<1> QED
  BY <1>4, <1>5, <1>6, <1>7

\* Storing a nonce issues it, in the place of the account's earlier one.
LEMMA StoreNonceInLedger ==
    ASSUME AuthInv, NEW r \in Requests, StoreNonce(r)
    PROVE  Ledger!Next
<1>0. /\ at[r] = "setex" /\ Goto(r, "ok") /\ req' = req
      /\ nonce' = [nonce EXCEPT ![Who(r)] = r]
      /\ req[r].op = "nonce" /\ Who(r) \in Users
      /\ nonce \in [Users -> Requests \union {None}]
      /\ UNCHANGED <<rows, rowOver, jwtOver>>
      /\ r # None
  BY RequestParts, AuthAssumption DEF AuthInv, OwnCalls, StoreNonce, timeVars, TypeOK
<1>1. /\ at'[r] = "ok" /\ \A x \in Requests \ {r} : at'[x] = at[x]
      /\ IssuedNonces' = IssuedNonces \union {Entry(r)}
      /\ OpenedSessions' = OpenedSessions
      /\ Grants' = Grants
      /\ AdmittedLogins' = AdmittedLogins \ {AdmittedAs(r)}
      /\ Entry(r) \notin IssuedNonces
      /\ AdmittedAs(r) \notin AdmittedLogins
  BY <1>0, LedgerOfStep DEF Running, AdmittedCalls
<1>2. OpenSessions' = OpenSessions
  BY <1>0, <1>1, OpenAsBefore DEF Running
<1>3. LiveNonces' = {m \in LiveNonces : m.user # Entry(r).user} \union {Entry(r)}
  BY <1>0 DEF LiveNonces, Entry
<1>4. Entry(r) \in Ledger!Entry
  BY <1>0, EntriesOfRequests
<1>5. Ledger!Issue(Entry(r))
  BY <1>1, <1>2, <1>3, <1>4 DEF Ledger!Issue
<1> QED
  BY <1>4, <1>5 DEF Ledger!Next

\* A nonce that is deleted, or that was not there, is revoked.
LEMMA NonceGoneInLedger ==
    ASSUME AuthInv, NEW u \in Users, nonce' = [nonce EXCEPT ![u] = None],
           UNCHANGED <<IssuedNonces, AdmittedLogins, OpenedSessions, OpenSessions, Grants>>
    PROVE  [Ledger!Next]_(Ledger!ledger)
<1> DEFINE n == [user |-> u, serial |-> nonce[u]]
<1>0. nonce \in [Users -> Requests \union {None}]
  BY DEF AuthInv, TypeOK
<1>1. LiveNonces' = LiveNonces \ {n}
  BY <1>0 DEF LiveNonces
<1>2. CASE nonce[u] = None
  <2>1. n \notin LiveNonces
    BY <1>2 DEF LiveNonces
  <2> QED
    BY <1>1, <2>1 DEF Ledger!ledger
<1>3. CASE nonce[u] # None
  <2>1. n \in Ledger!Entry
    BY <1>0, <1>3 DEF Ledger!Entry
  <2>2. Ledger!Revoke(n)
    BY <1>1 DEF Ledger!Revoke
  <2> QED
    BY <2>1, <2>2 DEF Ledger!Next
<1> QED
  BY <1>2, <1>3

\* The row of a new session opens it; its nonce is spent by then.
LEMMA InsertTokenInLedger ==
    ASSUME AuthInv, NEW r \in Requests, InsertToken(r)
    PROVE  Ledger!Next
<1>0. /\ at[r] = "insert" /\ Goto(r, "ok") /\ req' = req
      /\ rows' = rows \union {r}
      /\ req[r].op = "verify" /\ Who(r) \in Users
      /\ UNCHANGED <<nonce, rowOver, jwtOver>>
  BY RequestParts DEF AuthInv, OwnCalls, InsertToken, timeVars
<1>1. /\ at'[r] = "ok" /\ \A x \in Requests \ {r} : at'[x] = at[x]
      /\ \A x : Entry(x)' = Entry(x)
      /\ IssuedNonces' = IssuedNonces
      /\ OpenedSessions' = OpenedSessions \union {Entry(r)}
      /\ Grants' = Grants \union {Entry(r)}
      /\ AdmittedLogins' = AdmittedLogins \ {AdmittedAs(r)}
      /\ Entry(r) \notin OpenedSessions
      /\ AdmittedAs(r) \in AdmittedLogins
  BY <1>0, LedgerOfStep DEF Running, AdmittedCalls
<1>2. /\ AdmittedAs(r) \in Ledger!Login
      /\ Ledger!Of(AdmittedAs(r)) = Entry(r)
      /\ Ledger!NonceOf(AdmittedAs(r)) = [user |-> Who(r), serial |-> req[r].arg]
  BY <1>0, EntriesOfRequests DEF AdmittedCalls
<1>3. OpenSessions' = OpenSessions \union {Entry(r)}
  <2>1. r \notin Logins /\ Logins' = Logins \union {r}
    BY <1>0, <1>1 DEF Logins
  <2>2. r \notin rowOver \union jwtOver
    BY <2>1 DEF AuthInv, Provenance
  <2>3. \A x \in Logins' : Good(x)' <=> (x = r \/ Good(x))
    BY <1>0, <2>2 DEF Good
  <2> QED
    BY <1>1, <2>1, <2>3 DEF OpenSessions
<1>4. LiveNonces' = LiveNonces
  BY <1>0 DEF LiveNonces
<1>5. [user |-> Who(r), serial |-> req[r].arg] \notin LiveNonces
  <2>1. nonce[Who(r)] # req[r].arg
    BY <1>0 DEF AuthInv, DeletedIsGone, UsedNonce
  <2> QED
    BY <2>1 DEF LiveNonces
<1>6. Ledger!Open(AdmittedAs(r))
  BY <1>1, <1>2, <1>3, <1>4, <1>5 DEF Ledger!Open
<1> QED
  BY <1>2, <1>6 DEF Ledger!Next

\* A logout's deleteMany closes all sessions of its account.
LEMMA DeleteSessionsInLedger ==
    ASSUME AuthInv, NEW r \in Requests, DeleteSessions(r)
    PROVE  Ledger!Next
<1>0. /\ at[r] = "deleteMany" /\ Goto(r, "ok") /\ req' = req
      /\ rows' = {s \in rows : Who(s) # Who(r)}
      /\ req[r].op = "logout" /\ Who(r) \in Users
      /\ UNCHANGED <<nonce, rowOver, jwtOver>>
  BY RequestParts DEF AuthInv, OwnCalls, DeleteSessions, timeVars
<1>1. /\ at'[r] = "ok" /\ \A x \in Requests \ {r} : at'[x] = at[x]
      /\ \A x : Entry(x)' = Entry(x)
      /\ IssuedNonces' = IssuedNonces
      /\ OpenedSessions' = OpenedSessions
      /\ Grants' = Grants
      /\ AdmittedLogins' = AdmittedLogins \ {AdmittedAs(r)}
      /\ AdmittedAs(r) \notin AdmittedLogins
  BY <1>0, LedgerOfStep DEF Running, AdmittedCalls
<1>2. OpenSessions' = {s \in OpenSessions : s.user # Who(r)}
  <2>1. Logins' = Logins
    BY <1>0, <1>1 DEF Logins
  <2>2. \A x \in Logins : Good(x)' <=> (Good(x) /\ Entry(x).user # Who(r))
    BY <1>0 DEF Good, Entry
  <2> QED
    BY <1>1, <2>1, <2>2 DEF OpenSessions
<1>3. LiveNonces' = LiveNonces
  BY <1>0 DEF LiveNonces
<1>4. Ledger!CloseAll(Who(r))
  BY <1>1, <1>2, <1>3 DEF Ledger!CloseAll
<1> QED
  BY <1>0, <1>4 DEF Ledger!Next

\* A request that is sent is not in the ledger yet.
LEMMA SendInLedger ==
    ASSUME AuthInv, NEW b \in Browsers,
           NEW op, NEW arg, NEW label \in {"setex", "get", "findSession", "delNonce"},
           Send(b, op, arg, label)
    PROVE  UNCHANGED Ledger!ledger
<1>1. PICK r \in Requests :
         /\ at[r] = "unsent"
         /\ req' = [req EXCEPT ![r] = [op |-> op, by |-> b, arg |-> arg,
                                       before |-> Succeeded(Account[b])]]
         /\ Goto(r, label)
  BY DEF Send
<1>2. /\ UNCHANGED <<nonce, rows, rowOver, jwtOver>>
      /\ at \in [Requests -> Running \union Answers \union {"unsent"}]
      /\ req \in [Requests -> Request \union {Unsent}]
  BY DEF Send, serverVars, timeVars, AuthInv, TypeOK
<1>3. /\ at'[r] = label
      /\ \A x \in Requests \ {r} : at'[x] = at[x] /\ req'[x] = req[x]
      /\ \A x \in Requests \ {r} : Who(x)' = Who(x)
  BY <1>1, <1>2 DEF Goto, Who
<1>4. \A x \in Requests \ {r} : Entry(x)' = Entry(x) /\ AdmittedAs(x)' = AdmittedAs(x)
  BY <1>3 DEF Entry, AdmittedAs
<1>5. IssuedNonces' = IssuedNonces /\ Grants' = Grants
  BY <1>1, <1>3, <1>4 DEF IssuedNonces, Grants
<1>6. AdmittedLogins' = AdmittedLogins
  BY <1>1, <1>3, <1>4 DEF AdmittedLogins, AdmittedCalls
<1>7. Logins' = Logins /\ r \notin Logins
  BY <1>1, <1>3 DEF Logins
<1>8. OpenedSessions' = OpenedSessions /\ OpenSessions' = OpenSessions
  <2>1. \A x \in Logins : x \in Requests \ {r} /\ Good(x)' = Good(x)
    BY <1>2, <1>7 DEF Logins, Good
  <2> QED
    BY <1>4, <1>7, <2>1 DEF OpenedSessions, OpenSessions
<1>9. LiveNonces' = LiveNonces
  BY <1>2 DEF LiveNonces
<1> QED
  BY <1>5, <1>6, <1>8, <1>9 DEF Ledger!ledger

\* Time revokes a nonce, or lets a session expire, or is the browser's affair.
LEMMA ExpiryInLedger ==
    ASSUME AuthInv, Expiry
    PROVE  [Ledger!Next]_(Ledger!ledger)
<1>0. UNCHANGED <<rows, req, at>>
  BY DEF Expiry
<1>1. /\ \A x : Entry(x)' = Entry(x) /\ AdmittedAs(x)' = AdmittedAs(x)
      /\ Logins' = Logins
  BY <1>0 DEF Entry, AdmittedAs, Who, Logins
<1>2. UNCHANGED <<IssuedNonces, AdmittedLogins, OpenedSessions, Grants>>
  BY <1>0, <1>1 DEF IssuedNonces, AdmittedLogins, OpenedSessions, Grants
<1>3. CASE /\ \E u \in Users : nonce[u] # None /\ nonce' = [nonce EXCEPT ![u] = None]
           /\ UNCHANGED <<rowOver, jwtOver>>
  <2>1. OpenSessions' = OpenSessions
    BY <1>0, <1>1, <1>3 DEF OpenSessions, Good
  <2> QED
    BY <1>2, <1>3, <2>1, NonceGoneInLedger
<1>4. CASE /\ \E s \in rows : \/ rowOver' = rowOver \union {s} /\ UNCHANGED jwtOver
                              \/ jwtOver' = jwtOver \union {s} /\ UNCHANGED rowOver
           /\ UNCHANGED nonce
  <2>1. PICK s \in rows : rowOver' \union jwtOver' = (rowOver \union jwtOver) \union {s}
    BY <1>4
  <2>2. s \in Logins /\ at[s] # "unsent" /\ s \in Requests
    BY <2>1 DEF AuthInv, Provenance, Logins
  <2>3. \A x \in Logins : Good(x)' <=> (Good(x) /\ Entry(x) # Entry(s))
    BY <1>0, <2>1 DEF Good, Entry
  <2>4. OpenSessions' = OpenSessions \ {Entry(s)}
    BY <1>1, <2>3 DEF OpenSessions
  <2>5. LiveNonces' = LiveNonces
    BY <1>4 DEF LiveNonces
  <2>6. Entry(s) \in Ledger!Entry
    BY <2>2, EntriesOfRequests
  <2>7. Ledger!Expire(Entry(s))
    BY <1>2, <2>4, <2>5 DEF Ledger!Expire
  <2> QED
    BY <2>6, <2>7 DEF Ledger!Next
<1>5. CASE UNCHANGED <<nonce, rowOver, jwtOver>>
  <2>1. OpenSessions' = OpenSessions /\ LiveNonces' = LiveNonces
    BY <1>0, <1>1, <1>5 DEF OpenSessions, LiveNonces, Good
  <2> QED
    BY <1>2, <2>1 DEF Ledger!ledger
<1> QED
  BY <1>3, <1>4, <1>5 DEF Expiry

\* Every step of the backend is a step of the ledger or none.
LEMMA StepInLedger == AuthInv /\ [Next]_vars => [Ledger!Next]_(Ledger!ledger)
<1> SUFFICES ASSUME AuthInv, [Next]_vars PROVE [Ledger!Next]_(Ledger!ledger)
  OBVIOUS
<1>1. CASE UNCHANGED <<nonce, rows, rowOver, jwtOver, req, at>>
  BY <1>1 DEF Ledger!ledger, IssuedNonces, LiveNonces, AdmittedLogins, OpenedSessions,
              OpenSessions, Grants, Entry, AdmittedAs, Logins, Good, Who
<1>2. ASSUME NEW b \in Browsers,
             RequestNonce(b) \/ VerifySignature(b) \/ RefreshToken(b) \/ Logout(b)
      PROVE  UNCHANGED Ledger!ledger
  BY <1>2, SendInLedger DEF RequestNonce, VerifySignature, RefreshToken, Logout
<1>3. ASSUME NEW r \in Requests, Handle(r)
      PROVE  [Ledger!Next]_(Ledger!ledger)
  <2> USE DEF Running, Answers
  <2>1. CASE GetNonce(r)
    <3>1. CASE nonce[Who(r)] = req[r].arg
      BY <2>1, <3>1, PlainMoveInLedger DEF GetNonce, SignatureValid, serverVars, timeVars
    <3>2. CASE nonce[Who(r)] # req[r].arg
      BY <2>1, <3>2, PlainMoveInLedger DEF GetNonce, SignatureValid, serverVars, timeVars
    <3> QED
      BY <3>1, <3>2
  <2>2. CASE GetUser(r)
    BY <2>2, PlainMoveInLedger DEF GetUser, serverVars, timeVars
  <2>3. CASE CreateUser(r)
    BY <2>3, PlainMoveInLedger DEF CreateUser, timeVars
  <2>4. CASE FindUser(r)
    <3>1. Who(r) \in users
      BY <2>4 DEF FindUser, AuthInv, UserBeforeSession
    <3> QED
      BY <2>4, <3>1, PlainMoveInLedger DEF FindUser, serverVars, timeVars
  <2>5. CASE FindSession(r)
    <3>1. CASE req[r].arg \in rows \ (jwtOver \union rowOver)
      BY <2>5, <3>1, PlainMoveInLedger DEF FindSession, RefreshTokenValid, serverVars, timeVars, Good
    <3>2. CASE req[r].arg \notin rows \ (jwtOver \union rowOver)
      BY <2>5, <3>2, PlainMoveInLedger DEF FindSession, RefreshTokenValid, serverVars, timeVars
    <3> QED
      BY <3>1, <3>2
  <2>6. CASE DeleteNonce(r) \/ LogoutDeletesNonce(r)
    <3>1. PICK label \in {"getUser", "deleteMany"} :
             /\ Goto(r, label) /\ req' = req /\ at[r] \in {"del", "delNonce"}
             /\ (label = "getUser") = (at[r] = "del")
             /\ nonce' = [nonce EXCEPT ![Who(r)] = None]
             /\ UNCHANGED <<rows, rowOver, jwtOver>>
      BY <2>6 DEF DeleteNonce, LogoutDeletesNonce, timeVars
    <3>2. Who(r) \in Users
      BY <3>1, RequestParts
    <3>3. /\ at'[r] = label /\ \A x \in Requests \ {r} : at'[x] = at[x]
          /\ UNCHANGED <<IssuedNonces, AdmittedLogins, OpenedSessions, Grants>>
      BY <3>1, LedgerOfStep DEF AdmittedCalls
    <3>4. OpenSessions' = OpenSessions
      BY <3>1, <3>3, OpenAsBefore
    <3> QED
      BY <3>1, <3>2, <3>3, <3>4, NonceGoneInLedger
  <2> QED
    BY <1>3, <2>1, <2>2, <2>3, <2>4, <2>5, <2>6, StoreNonceInLedger, InsertTokenInLedger,
       DeleteSessionsInLedger
       DEF Handle
<1>4. ASSUME NEW r \in Requests, CallRejects(r)
      PROVE  [Ledger!Next]_(Ledger!ledger)
  BY <1>4, PlainMoveInLedger DEF CallRejects, serverVars, timeVars, Answers
<1>5. ASSUME NEW r \in Requests, Receive(r)
      PROVE  UNCHANGED <<nonce, rows, rowOver, jwtOver, req, at>>
  BY <1>5 DEF Receive, serverVars, timeVars
<1>6. ASSUME NEW u \in Users, IndexerRegisters(u)
      PROVE  UNCHANGED <<nonce, rows, rowOver, jwtOver, req, at>>
  BY <1>6 DEF IndexerRegisters, timeVars
<1>7. CASE UNCHANGED vars
  BY <1>1, <1>7 DEF vars, serverVars, timeVars
<1> QED
  BY <1>1, <1>2, <1>3, <1>4, <1>5, <1>6, <1>7, ExpiryInLedger DEF Next

\* The backend implements AuthLedger: sessions come from the live nonce of
\* their account, which is spent by then, access from open sessions, and what
\* is closed stays closed.
THEOREM LedgerImplemented == Spec => LedgerSpec
<1>1. Init => Ledger!Init
  BY DEF Init, Ledger!Init, IssuedNonces, LiveNonces, AdmittedLogins, AdmittedCalls,
         OpenedSessions, OpenSessions, Grants, Logins
<1>2. AuthInv /\ [Next]_vars => [Ledger!Next]_(Ledger!ledger)
  BY StepInLedger
<1> QED
  BY <1>1, <1>2, AuthInvariance, PTL DEF Spec, LedgerSpec, Ledger!Spec

=============================================================================
