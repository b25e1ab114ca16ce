----------------------------- MODULE OrderBook -----------------------------
(***************************************************************************)
(* What OrdersUseCase.getOrderBook and getMatchingOrders answer from an    *)
(* "orders" table that lags behind the contract.                           *)
(*                                                                         *)
(* OrderIndex and OrderRestore are about the steps of the handlers; here a *)
(* handler is one step, but its event may be handled late, out of order,   *)
(* halfway or never, the restore inserts what it fetched some time ago,    *)
(* and the rows have what the queries look at: tokens, owners and the      *)
(* amounts of both sides, counted in units.  An order may have an amountA  *)
(* of 0, as market orders do.                                              *)
(***************************************************************************)
EXTENDS Integers, FiniteSets

CONSTANTS
    Orders,     \* order ids
    Tokens,     \* token addresses, spelled as ethers decodes them
    Accounts,   \* addresses of traders, in whatever spelling
    Owner,      \* who places each order
    Pairs,      \* bound: the pairs of tokens that orders are placed for
    MaxAmount,  \* bound: the amount of each side of an order
    MaxOvertaken \* bound: orders with an event that is lost or overtaken

ASSUME BookAssumption ==
    /\ Owner \in [Orders -> Accounts]
    /\ Pairs \subseteq {p \in Tokens \X Tokens : p[1] # p[2]}
    /\ MaxAmount \in Nat
    /\ MaxOvertaken \in Nat

VARIABLES
    info,       \* contract: what was ordered
    filledA,    \*   the totals filled, as getOrderInfo reports them
    filledB,
    cancelled,  \*   the orders that were cancelled
    events,     \* events that no handler has dealt with so far
    overtaken,  \* history: orders with an event that was lost, or handled
                \*   while an earlier one was waiting
    rows,       \* the "orders" table
    fetched     \* the restore: rows made of answers, not yet inserted

chain == <<info, filledA, filledB, cancelled>>
vars == <<chain, events, overtaken, rows, fetched>>

Amounts == 0..MaxAmount

Info == [tokenA : Tokens, tokenB : Tokens, amountA : Amounts, amountB : Amounts]

NoOrder == [tokenA |-> "none"]

Made == {o \in Orders : info[o] # NoOrder}

\* left tells apart whether amountLeftToFill is 0.
Event == [kind : {"OrderCreated", "OrderMatched", "OrderCancelled"}, id : Orders,
          a : Amounts, b : Amounts, left : BOOLEAN]

EventOf(kind, o, a, b, left) == [kind |-> kind, id |-> o, a |-> a, b |-> b, left |-> left]

Open == {"ACTIVE", "PARTIALLY_FILLED"}

\* An address has one lower-case spelling and others; toLowerCase finds it.
Spelling == {"lower", "checksum"}
Lower(account) == [who |-> account, spelling |-> "lower"]

Row == [buyToken : Tokens, sellToken : Tokens, user : [who : Accounts, spelling : Spelling],
        buyAmount : Amounts, sellAmount : Amounts,
        buyAmountFilled : Amounts, sellAmountFilled : Amounts,
        status : Open \union {"FILLED", "CANCELLED"}]

NoRow == [status |-> "ABSENT"]

Present == {o \in Orders : rows[o] # NoRow}

TypeOK ==
    /\ info \in [Orders -> Info \union {NoOrder}]
    /\ filledA \in [Orders -> Amounts]
    /\ filledB \in [Orders -> Amounts]
    /\ cancelled \subseteq Orders
    /\ events \subseteq Event
    /\ overtaken \subseteq Orders
    /\ rows \in [Orders -> Row \union {NoRow}]
    /\ fetched \in [Orders -> Row \union {NoRow}]

Init ==
    /\ info = [o \in Orders |-> NoOrder]
    /\ filledA = [o \in Orders |-> 0]
    /\ filledB = [o \in Orders |-> 0]
    /\ cancelled = {}
    /\ events = {}
    /\ overtaken = {}
    /\ rows = [o \in Orders |-> NoRow]
    /\ fetched = [o \in Orders |-> NoRow]

-----------------------------------------------------------------------------
(* The contract (external): an order is filled when a side of it that is   *)
(* not 0 is, and nothing happens to it once it is filled or cancelled      *)

IsFilled(i, a, b) == (i.amountA > 0 /\ a = i.amountA) \/ b = i.amountB

OpenOnChain(o) ==
    /\ o \in Made \ cancelled
    /\ ~IsFilled(info[o], filledA[o], filledB[o])

Place(o, i) ==
    /\ o \notin Made
    /\ <<i.tokenA, i.tokenB>> \in Pairs
    /\ i.amountB > 0
    /\ info' = [info EXCEPT ![o] = i]
    /\ events' = events \union {EventOf("OrderCreated", o, 0, 0, TRUE)}
    /\ UNCHANGED <<filledA, filledB, cancelled, overtaken, rows, fetched>>

Match(o, a, b) ==
    /\ OpenOnChain(o)
    /\ a <= info[o].amountA /\ (a > filledA[o] \/ info[o].amountA = 0)
    /\ filledB[o] < b /\ b <= info[o].amountB
    /\ filledA' = [filledA EXCEPT ![o] = a]
    /\ filledB' = [filledB EXCEPT ![o] = b]
    /\ events' = events \union
        {EventOf("OrderMatched", o, a, b, ~IsFilled(info[o], a, b))}
    /\ UNCHANGED <<info, cancelled, overtaken, rows, fetched>>

Cancel(o) ==
    /\ OpenOnChain(o)
    /\ cancelled' = cancelled \union {o}
    /\ events' = events \union {EventOf("OrderCancelled", o, 0, 0, TRUE)}
    /\ UNCHANGED <<info, filledA, filledB, overtaken, rows, fetched>>

-----------------------------------------------------------------------------
(* The rows the handlers and the restore write                             *)

\* Slip: the owner as the event spells it.
NewRowSpelled(o, status) ==
    [buyToken |-> info[o].tokenA, sellToken |-> info[o].tokenB,
     user |-> [who |-> Owner[o], spelling |-> "checksum"],
     buyAmount |-> info[o].amountA, sellAmount |-> info[o].amountB,
     buyAmountFilled |-> 0, sellAmountFilled |-> 0, status |-> status]

\* createOrder connects the user getOrCreate returned.
NewRow(o, status) ==
    [buyToken |-> info[o].tokenA, sellToken |-> info[o].tokenB,
     user |-> Lower(Owner[o]),
     buyAmount |-> info[o].amountA, sellAmount |-> info[o].amountB,
     buyAmountFilled |-> 0, sellAmountFilled |-> 0, status |-> status]

\* Slip: the event's amounts are added to the row's.
MatchedRowAdds(row, e) ==
    [row EXCEPT !.buyAmountFilled = @ + e.a, !.sellAmountFilled = @ + e.b,
                !.status = IF e.left THEN "PARTIALLY_FILLED" ELSE "FILLED"]

\* amountPaid and amountReceived are stored as the totals of the two sides.
MatchedRow(row, e) ==
    [row EXCEPT !.buyAmountFilled = e.a, !.sellAmountFilled = e.b,
                !.status = IF e.left THEN "PARTIALLY_FILLED" ELSE "FILLED"]

\* Slip: any fill of a side makes the order filled.
RestoredStatusEager(o) ==
    IF filledA[o] > 0 \/ filledB[o] > 0 THEN "FILLED" ELSE "ACTIVE"

\* The restore compares amounts, so an amountA of 0 counts as filled.
RestoredStatus(o) ==
    IF filledA[o] = info[o].amountA \/ filledB[o] = info[o].amountB THEN "FILLED"
    ELSE IF \/ filledB[o] > 0 /\ filledB[o] < info[o].amountB
            \/ filledA[o] > 0 /\ filledA[o] < info[o].amountA THEN "PARTIALLY_FILLED"
    ELSE "ACTIVE"

RestoredRow(o) ==
    [NewRow(o, RestoredStatus(o)) EXCEPT !.buyAmountFilled = filledA[o],
                                         !.sellAmountFilled = filledB[o]]

-----------------------------------------------------------------------------
(* The handlers, one step each, and the restore                            *)

\* d was emitted before e.
Before(d, e) ==
    /\ d.id = e.id
    /\ \/ d.kind = "OrderCreated" /\ e.kind # "OrderCreated"
       \/ d.kind = "OrderMatched" /\ e.kind = "OrderMatched" /\ d.b < e.b
       \/ d.kind = "OrderMatched" /\ e.kind = "OrderCancelled"

Overtaken(o) ==
    /\ overtaken' = overtaken \union {o}
    /\ Cardinality(overtaken') <= MaxOvertaken

Taken(e) ==
    /\ e \in events
    /\ events' = events \ {e}
    /\ IF \E d \in events : Before(d, e) THEN Overtaken(e.id) ELSE UNCHANGED overtaken
    /\ UNCHANGED <<chain, fetched>>

HandleCreated(e) ==
    /\ e.kind = "OrderCreated"
    /\ rows' = IF e.id \in Present THEN rows ELSE [rows EXCEPT ![e.id] = NewRow(e.id, "ACTIVE")]
    /\ Taken(e)

HandleMatched(e) ==
    /\ e.kind = "OrderMatched"
    /\ rows' = [rows EXCEPT ![e.id] =
                MatchedRow(IF e.id \in Present THEN rows[e.id] ELSE NewRow(e.id, "ACTIVE"), e)]
    /\ Taken(e)

HandleCancelled(e) ==
    /\ e.kind = "OrderCancelled"
    /\ rows' = [rows EXCEPT ![e.id] =
                IF e.id \in Present THEN [rows[e.id] EXCEPT !.status = "CANCELLED"]
                ELSE NewRow(e.id, "CANCELLED")]
    /\ Taken(e)

\* No listener, a rejected call, a process that dies.
Lose(e) ==
    /\ e \in events
    /\ events' = events \ {e}
    /\ Overtaken(e.id)
    /\ UNCHANGED <<chain, rows, fetched>>

\* A match handler created the order, and its update was rejected.
MatchNotRecorded(e) ==
    /\ e \in events /\ e.kind = "OrderMatched"
    /\ e.id \notin Present
    /\ events' = events \ {e}
    /\ Overtaken(e.id)
    /\ rows' = [rows EXCEPT ![e.id] = NewRow(e.id, "ACTIVE")]
    /\ UNCHANGED <<chain, fetched>>

FetchOrderInfo(o) ==
    /\ o \in Made \ Present
    /\ fetched[o] = NoRow
    /\ fetched' = [fetched EXCEPT ![o] = RestoredRow(o)]
    /\ UNCHANGED <<chain, events, overtaken, rows>>

\* An order that a handler has inserted since is skipped.
InsertOrder(o) ==
    /\ fetched[o] # NoRow
    /\ fetched' = [fetched EXCEPT ![o] = NoRow]
    /\ rows' = IF o \in Present THEN rows ELSE [rows EXCEPT ![o] = fetched[o]]
    /\ UNCHANGED <<chain, events, overtaken>>

RestoreCancelled(o) ==
    /\ o \in cancelled \intersect Present
    /\ rows[o].status # "CANCELLED"
    /\ rows' = [rows EXCEPT ![o].status = "CANCELLED"]
    /\ UNCHANGED <<chain, events, overtaken, fetched>>

-----------------------------------------------------------------------------

ContractStep ==
    \E o \in Orders :
        \/ \E i \in Info : Place(o, i)
        \/ \E a, b \in Amounts : Match(o, a, b)
        \/ Cancel(o)

TableStep ==
    \/ \E e \in events :
        \/ HandleCreated(e) \/ HandleMatched(e) \/ HandleCancelled(e)
        \/ Lose(e) \/ MatchNotRecorded(e)
    \/ \E o \in Orders : FetchOrderInfo(o) \/ InsertOrder(o) \/ RestoreCancelled(o)

Next == ContractStep \/ TableStep

Spec == Init /\ [][Next]_vars

-----------------------------------------------------------------------------
(* The queries                                                             *)

\* getOrderBook; a filter that is not given is the set of all values.
GetOrderBook(buyTokens, sellTokens, users, active) ==
    {o \in Present :
        /\ rows[o].buyToken \in buyTokens
        /\ rows[o].sellToken \in sellTokens
        /\ rows[o].user \in users
        /\ active => rows[o].status \in Open}

\* A request of getMatchingOrders; an amount that is missing is '0'.
MatchRequest == [tokenA : Tokens, tokenB : Tokens, amountA : Amounts, amountB : Amounts]

\* Slip: the pair is not mirrored.
SuitsSamePair(q, row) ==
    /\ row.buyToken = q.tokenA /\ row.sellToken = q.tokenB
    /\ row.status \in Open

\* Slip: what has been filled is not deducted on the buying side.
SuitsGross(q, row) ==
    LET sellLeft == row.sellAmount - row.sellAmountFilled
    IN  /\ row.buyToken = q.tokenB /\ row.sellToken = q.tokenA
        /\ row.status \in Open
        /\ IF q.amountA = 0 THEN row.buyAmount > 0 /\ sellLeft > 0
           ELSE row.buyAmount >= q.amountB /\ sellLeft >= q.amountA

\* The WHERE of both queries.  A market order ignores amountB.
Suits(q, row) ==
    LET buyLeft == row.buyAmount - row.buyAmountFilled
        sellLeft == row.sellAmount - row.sellAmountFilled
    IN  /\ row.buyToken = q.tokenB /\ row.sellToken = q.tokenA
        /\ row.status \in Open
        /\ IF q.amountA = 0 THEN buyLeft > 0 /\ sellLeft > 0
           ELSE buyLeft >= q.amountB /\ sellLeft >= q.amountA

Candidates(q) == {o \in Present : Suits(q, rows[o])}

\* Slip: ascending.
CheaperInverted(o, p) ==
    rows[o].sellAmount * rows[p].buyAmount < rows[p].sellAmount * rows[o].buyAmount

\* o sells more for what it buys than p; the price of an order that buys
\* nothing is 0.
Cheaper(o, p) ==
    IF rows[o].buyAmount = 0 THEN FALSE
    ELSE rows[p].buyAmount = 0
         \/ rows[o].sellAmount * rows[p].buyAmount > rows[p].sellAmount * rows[o].buyAmount

\* The answers of getMatchingOrders: the ORDER BY leaves ties in any order.
GetMatchingOrders(q) ==
    {s \in [1..Cardinality(Candidates(q)) -> Candidates(q)] :
        \A i, j \in DOMAIN s : i < j => s[i] # s[j] /\ ~Cheaper(s[j], s[i])}

-----------------------------------------------------------------------------
(* Properties.  Limit orders are those with an amount on both sides.       *)

LimitOrders == {o \in Made : info[o].amountA > 0}

\* Every event of the order has been handled, each in its turn.
UpToDate(o) == o \notin overtaken /\ \A e \in events : e.id # o

\* What a request asks for, of the order as it is on the chain.
Wanted(q, o) ==
    LET leftA == info[o].amountA - filledA[o]
        leftB == info[o].amountB - filledB[o]
    IN  /\ info[o].tokenA = q.tokenB /\ info[o].tokenB = q.tokenA
        /\ IF q.amountA = 0 THEN leftA > 0 /\ leftB > 0
           ELSE leftA >= q.amountB /\ leftB >= q.amountA

Available(q) == {o \in Present \intersect LimitOrders : OpenOnChain(o) /\ Wanted(q, o)}

\* However late, out of order or incomplete the events are handled, the table
\* errs on one side only: a limit order that has a row, is open and has as
\* much left as a request asks for is among the candidates.
NothingHidden == \A q \in MatchRequest : Available(q) \subseteq Candidates(q)

\* A candidate that cannot be matched has an event that is waiting, was lost or
\* was overtaken: otherwise what is offered is open and has enough left.  So
\* it does not matter that a market order, whose amountA is 0, is FILLED when
\* the restore inserts it and ACTIVE when a handler does; only a request that
\* names an amountA and no amountB may see the difference.
OffersGood ==
    \A q \in MatchRequest : q.amountA = 0 \/ q.amountB > 0 =>
        \A o \in Candidates(q) : UpToDate(o) => OpenOnChain(o) /\ Wanted(q, o)

\* The first candidate is at least as good as any order that could really be
\* matched, at the prices the contract has.
BestPriceFirst ==
    \A q \in MatchRequest : \A s \in GetMatchingOrders(q) : \A o \in Available(q) :
        /\ s # << >>
        /\ info[s[1]].amountA > 0
        /\ info[s[1]].amountB * info[o].amountA >= info[o].amountB * info[s[1]].amountA

\* The active order book of an owner, asked for by the lower-case address,
\* shows each open limit order that has a row, and of those that are up to
\* date no others.
BookShowsOpen ==
    \A o \in Present \intersect LimitOrders :
        LET book == GetOrderBook({info[o].tokenA}, {info[o].tokenB}, {Lower(Owner[o])}, TRUE)
        IN  /\ OpenOnChain(o) => o \in book
            /\ UpToDate(o) /\ o \in book => OpenOnChain(o)

ShowsFills(o) ==
    /\ o \in Present
    /\ rows[o].buyAmountFilled = filledA[o] /\ rows[o].sellAmountFilled = filledB[o]

\* A limit order whose row shows the contract's fills has the status a restore
\* would give it, whichever handlers wrote the row.
RestoredLikeLive ==
    \A o \in LimitOrders \ cancelled :
        ShowsFills(o) => rows[o].status = RestoredStatus(o)

-----------------------------------------------------------------------------
(* The inductive invariant: why the properties hold                        *)

EventsOf(o) == {e \in events : e.id = o}

MatchesOf(o) == {e \in EventsOf(o) : e.kind = "OrderMatched"}

\* What the contract does to an order; nothing is known of one it has not made.
ContractInv(o) ==
    /\ filledB[o] = 0 => filledA[o] = 0
    /\ IF o \in Made
       THEN /\ info[o].amountB > 0
            /\ filledA[o] <= info[o].amountA /\ filledB[o] <= info[o].amountB
       ELSE /\ filledB[o] = 0 /\ o \notin cancelled /\ EventsOf(o) = {}
            /\ rows[o] = NoRow /\ fetched[o] = NoRow

\* A waiting event tells what the contract did, at the time or before.
EventsTell(o) ==
    \A e \in EventsOf(o) :
        /\ e.kind = "OrderCancelled" => o \in cancelled
        /\ e.kind = "OrderMatched" =>
            /\ 0 < e.b /\ e.b <= filledB[o] /\ e.a <= filledA[o]
            /\ e.b = filledB[o] => e.a = filledA[o]
            /\ e.left = ~IsFilled(info[o], e.a, e.b)

\* A row has what was ordered, fills the contract has reached, and, if the
\* order is a limit order, the status of those fills.
Lags(o, row) ==
    /\ row.buyToken = info[o].tokenA /\ row.sellToken = info[o].tokenB
    /\ row.buyAmount = info[o].amountA /\ row.sellAmount = info[o].amountB
    /\ row.user = Lower(Owner[o])
    /\ row.buyAmountFilled <= filledA[o] /\ row.sellAmountFilled <= filledB[o]
    /\ row.status = "CANCELLED" => o \in cancelled
    /\ info[o].amountA > 0 /\ row.status # "CANCELLED" =>
        /\ row.status = "FILLED" <=>
                IsFilled(info[o], row.buyAmountFilled, row.sellAmountFilled)
        /\ row.status = "PARTIALLY_FILLED" => row.sellAmountFilled > 0
        /\ row.status = "ACTIVE" => row.buyAmountFilled = 0 /\ row.sellAmountFilled = 0

RowsLag(o) == \A row \in {rows[o], fetched[o]} \ {NoRow} : Lags(o, row)

\* While each event of an order is handled in its turn, what the row does not
\* show yet is in the last event, and that one is waiting.
InTurn(o) ==
    o \notin overtaken =>
        /\ filledB[o] > 0 => \/ \E e \in MatchesOf(o) : e.b = filledB[o]
                             \/ MatchesOf(o) = {} /\ ShowsFills(o)
        /\ o \in cancelled => \/ \E e \in EventsOf(o) : e.kind = "OrderCancelled"
                              \/ /\ MatchesOf(o) = {}
                                 /\ o \in Present /\ rows[o].status = "CANCELLED"

OrderInv(o) == ContractInv(o) /\ EventsTell(o) /\ RowsLag(o) /\ InTurn(o)

\* The lag of the table is that of the events, and nothing else: what every
\* handler and the restore leave true of the contract, the waiting events and
\* the rows.  There are only as many rows as were inserted.
BookInv ==
    /\ TypeOK
    /\ IsFiniteSet(Present)
    /\ \A o \in Orders : OrderInv(o)

=============================================================================
